---------------------------- MODULE UploadProofs ----------------------------
(***************************************************************************)
(* What becomes of an upload, for files of any length, any number of them, *)
(* and any number of uploads.                                              *)
(*                                                                         *)
(* The invariants of Upload speak of an upload that is complete.  Progress *)
(* says what is stored of one that is under way; Log and Fresh that no two *)
(* files are in the same place; ToLoad which file a message is about.      *)
(***************************************************************************)
EXTENDS Upload, FiniteSetTheorems, SequenceTheorems, TLAPS

Datum == Nat \X Nat \X Nat
File == [start : Nat, words : UNION {[0..(n - 1) -> Datum] : n \in Nat}]
Writer == [state : {"none", "writer", "closed"}, location : Nat, len : Nat, offset : Nat]
Disk == [files : Seq(File), writer : BOOLEAN, read_counter : Nat]
Store == [fw : Writer, disk : Disk]

\* The writer and the disk, as file_write works on them.
Now == [fw |-> ci.fw, disk |-> disk]

\* The file system knows of the writer, and the writer of its file.
Consistent(s) ==
  /\ s.disk.writer <=> s.fw.state = "writer"
  /\ s.fw.location # 0 => s.disk.files # << >> /\ Last(s.disk.files).start = s.fw.location
  /\ s.fw.state = "none" => s.fw = NoWriter

\* Files have places in the order in which they were made.
Log(files, id) ==
  /\ \A i, j \in 1..Len(files) : i < j => files[i].start < files[j].start
  /\ \A i \in 1..Len(files) : files[i].start <= id

\* No file has the place of the upload that has none yet.
Fresh(s, id) == s.fw.location = 0 => \A i \in 1..Len(s.disk.files) : s.disk.files[i].start < id

\* The first n places of an upload that says that it has len are where they belong, the
\* others as they were erased.
FirstPlaces(id, len, n, words) ==
  /\ DOMAIN words = 0..(len - 1)
  /\ \A i \in 0..(len - 1) : words[i] = IF i < n THEN <<id, i, len>> ELSE NoData

\* So much was stored of it, and its writer waits for more.
Stored(id, len, n, s) ==
  /\ s.disk.files # << >> /\ FirstPlaces(id, len, n, Last(s.disk.files).words)
  /\ s.fw.location = id /\ s.fw.len = len /\ s.fw.offset = n /\ s.fw.state = "writer"

Typed ==
  /\ host \in [id : Nat, len : Nat, sent : Nat, phase : {"idle", "sending", "sent", "aborted"}, clean : BOOLEAN]
  /\ ci \in [rcv_state : {"Idle", "ConfigData"}, fw : Writer, answering : BOOLEAN]
  /\ disk \in Disk

Progress ==
  Sending =>
    /\ host.id > 0 /\ host.len > 0 /\ host.sent <= host.len /\ ~ ci.answering
    /\ Fresh(Now, host.id)
    /\ host.clean /\ Declared(host) <= SIZE =>
         IF host.sent = 0 THEN ci.fw = NoWriter ELSE Stored(host.id, Declared(host), host.sent, Now)

\* Between two uploads a pending LoadLayout is about the newest file or about none.
ToLoad ==
  /\ ctl_sig.msg = "LoadLayout" => ~ missed
  /\ ci.fw = NoWriter /\ ~ missed /\ disk.files # << >> /\ Whole(Last(disk.files)) =>
       \/ ctl_sig = LoadLayout(0) \/ ctl_sig = LoadLayout(Last(disk.files).start)
       \/ ctl_sig.msg # "LoadLayout" /\ active = Last(disk.files).words[0][1]

IInv ==
  /\ Typed /\ Consistent(Now) /\ Log(disk.files, host.id)
  /\ disk.read_counter > 0 => ci.answering /\ ~ disk.writer
  /\ Progress /\ UploadStored /\ ToLoad

USE DEF Writer, Disk, Store

-----------------------------------------------------------------------------
(***************************************************************************)
(* Sequences of files.                                                     *)
(***************************************************************************)
Adds(f, g) == g # << >> /\ IsSuffix(Front(g), f)
Fills(f, g) ==
  /\ f # << >> /\ Len(g) = Len(f) /\ Front(g) = Front(f) /\ Last(g).start = Last(f).start
  /\ DOMAIN Last(g).words = DOMAIN Last(f).words

LEMMA TailIsSuffix ==
  ASSUME NEW S, NEW f \in Seq(S), NEW k \in 0..Len(f)
  PROVE  IsSuffix(SubSeq(f, Len(f) - k + 1, Len(f)), f)
<1> DEFINE g == SubSeq(f, Len(f) - k + 1, Len(f))
<1>1. g \in Seq(S) /\ Len(g) = k /\ \A i \in 1..k : g[i] = f[Len(f) - k + i]
  BY SubSeqProperties
<1> HIDE DEF g
<1>2. \A i \in 1..k : Reverse(g)[i] = Reverse(f)[i]
  <2> TAKE i \in 1..k
  <2>1. Reverse(g)[i] = g[k - i + 1] /\ Reverse(f)[i] = f[Len(f) - i + 1]  BY <1>1 DEF Reverse
  <2>2. k - i + 1 \in 1..k /\ Len(f) - k + (k - i + 1) = Len(f) - i + 1  OBVIOUS
  <2> QED BY <1>1, <2>1, <2>2
<1>3. Reverse(g) \in Seq(S) /\ Reverse(f) \in Seq(S) /\ Len(Reverse(g)) = k /\ Len(Reverse(f)) = Len(f)
  <2>1. ASSUME NEW h \in Seq(S) PROVE Reverse(h) \in Seq(S) /\ Len(Reverse(h)) = Len(h)
    BY DEF Reverse
  <2> QED BY <1>1, <2>1
<1>4. SubSeq(Reverse(g), 1, k) = SubSeq(Reverse(f), 1, k)
  <2> DEFINE a == SubSeq(Reverse(g), 1, k)
             b == SubSeq(Reverse(f), 1, k)
  <2>1. a \in Seq(S) /\ Len(a) = k /\ \A i \in 1..k : a[i] = Reverse(g)[i]  BY <1>3, SubSeqProperties
  <2>2. b \in Seq(S) /\ Len(b) = k /\ \A i \in 1..k : b[i] = Reverse(f)[i]  BY <1>3, SubSeqProperties
  <2> HIDE DEF a, b
  <2> QED BY <1>2, <2>1, <2>2, SeqEqual
<1> QED BY <1>3, <1>4 DEF IsSuffix, IsPrefix, g

\* The change of the newest file leaves those before it.
LEMMA FrontKept ==
  ASSUME NEW S, NEW f \in Seq(S), NEW g \in Seq(S), f # << >>, Len(g) = Len(f),
         \A i \in 1..(Len(f) - 1) : g[i] = f[i]
  PROVE  Front(g) = Front(f)
<1>1. Front(f) \in Seq(S) /\ Len(Front(f)) = Len(f) - 1 /\ \A i \in 1..(Len(f) - 1) : Front(f)[i] = f[i]
  BY SubSeqProperties DEF Front
<1>2. Front(g) \in Seq(S) /\ Len(Front(g)) = Len(f) - 1 /\ \A i \in 1..(Len(f) - 1) : Front(g)[i] = g[i]
  BY SubSeqProperties DEF Front
<1> QED BY <1>1, <1>2, SeqEqual

-----------------------------------------------------------------------------
(***************************************************************************)
(* file_write, one lemma for each part of it.                              *)
(***************************************************************************)
\* A record of two fields of which both are replaced.
LEMMA StoreExcept ==
  ASSUME NEW A, NEW B, NEW V, NEW W, NEW s \in [fw : V, disk : W]
  PROVE  [s EXCEPT !.fw = A, !.disk = B] = [fw |-> A, disk |-> B]
<1>1. PICK C, D : s = [fw |-> C, disk |-> D]  OBVIOUS
<1>2. PICK q : q = [s EXCEPT !.fw = A]  OBVIOUS
<1>3. q = [fw |-> A, disk |-> D]  BY <1>1, <1>2
<1>4. [q EXCEPT !.disk = B] = [fw |-> A, disk |-> B]  BY <1>3
<1> QED BY <1>2, <1>4

\* What a write may do to the store, its files apart: the writer stays with its file, and
\* the count of the readers stays.
Kept(s, t) ==
  /\ t \in Store /\ Consistent(t) /\ t.disk.read_counter = s.disk.read_counter
  /\ t.fw.state # "none"

LEMMA CloseKeeps ==
  ASSUME NEW s \in Store, Consistent(s), s.fw.state # "none"
  PROVE  /\ Kept(s, CloseFile(s)) /\ CloseFile(s).disk.files = s.disk.files
         /\ ~ CloseFile(s).disk.writer /\ CloseFile(s).fw = [s.fw EXCEPT !.state = "closed"]
BY DEF CloseFile, Consistent, Kept, NoWriter

\* A file that is opened to be written has no place yet.
LEMMA CreateKeeps ==
  ASSUME NEW s \in Store, Consistent(s), s.disk.read_counter = 0
  PROVE  /\ Kept(s, CreateFile(s)) /\ CreateFile(s).disk.files = s.disk.files
         /\ CreateFile(s).fw = IF s.fw = NoWriter THEN [NoWriter EXCEPT !.state = "writer"] ELSE s.fw
BY DEF CreateFile, Consistent, Kept, NoWriter

\* The file that is written stays the newest, in its place and as long as it was; what is
\* written is in it, and nothing else of it changes.
Filled(s, data, t) ==
  /\ Kept(s, t) /\ t.fw.location = s.fw.location /\ t.fw.len = s.fw.len
  /\ t.disk.files = s.disk.files \/ Fills(s.disk.files, t.disk.files)
  /\ Len(t.disk.files) = Len(s.disk.files)
  /\ \A i \in 1..Len(s.disk.files) : t.disk.files[i].start = s.disk.files[i].start
  /\ s.fw.offset + Len(data) <= s.fw.len =>
       LET w == Last(s.disk.files).words
           v == Last(t.disk.files).words
           end == s.fw.offset + Len(data)
       IN /\ t.fw.offset = end /\ t.fw.state = (IF end = s.fw.len THEN "closed" ELSE "writer")
          /\ DOMAIN v = DOMAIN w
          /\ \A i \in DOMAIN w :
               v[i] = IF i \in s.fw.offset..(end - 1) THEN data[i - s.fw.offset + 1] ELSE w[i]

LEMMA FillKeeps ==
  ASSUME NEW s \in Store, NEW data \in Seq(Datum),
         Consistent(s), s.fw.state = "writer", s.fw.location # 0
  PROVE  Filled(s, data, Fill(s, data))
<1> DEFINE n == Len(data)
           files == s.disk.files
           m == Len(files)
           w == Last(files).words
           end == s.fw.offset + n
           v == [i \in DOMAIN w |-> IF i \in s.fw.offset..(end - 1) THEN data[i - s.fw.offset + 1] ELSE w[i]]
           file == [start |-> Last(files).start, words |-> v]
           g == [files EXCEPT ![m] = file]
           f == [fw |-> [s.fw EXCEPT !.offset = end], disk |-> [s.disk EXCEPT !.files = g]]
<1>1. n \in Nat /\ \A i \in 1..n : data[i] \in Datum  OBVIOUS
<1> HIDE DEF n
<1>2. m \in Nat \ {0} /\ files \in Seq(File) /\ files[m] \in File /\ end \in Nat
  <2>1. files \in Seq(File) /\ files # << >> /\ end \in Nat  BY <1>1 DEF Consistent
  <2> HIDE DEF files
  <2>2. m \in Nat \ {0}  BY <2>1
  <2> QED BY <2>1, <2>2
<1>3. file \in File
  <2>1. PICK k \in Nat : w \in [0..(k - 1) -> Datum]  BY <1>2 DEF Last, File
  <2>2. v \in [0..(k - 1) -> Datum]
    <3>1. \A i \in 0..(k - 1) : w[i] \in Datum  BY <2>1
    <3>2. \A i \in s.fw.offset..(end - 1) : data[i - s.fw.offset + 1] \in Datum
      <4> TAKE i \in s.fw.offset..(end - 1)
      <4>1. i - s.fw.offset + 1 \in 1..n  BY <1>1, <1>2
      <4> QED BY <1>1, <4>1
    <3> HIDE DEF w, end
    <3> QED BY <2>1, <3>1, <3>2
  <2> HIDE DEF v
  <2>3. Last(files).start \in Nat  BY <1>2 DEF Last, File
  <2> QED BY <2>2, <2>3 DEF File
<1>4. g \in Seq(File) /\ Len(g) = m /\ g[m] = file /\ \A i \in 1..m : i # m => g[i] = files[i]
  <2> HIDE DEF file
  <2> QED BY <1>2, <1>3, ExceptSeq
<1>5. f \in Store /\ f.fw.state = "writer" /\ f.disk.writer = s.disk.writer /\ f.disk.files = g
  <2> HIDE DEF g, end
  <2> QED BY <1>2, <1>4
<1>6. Fills(files, g)
  <2> HIDE DEF g
  <2>1. files # << >> /\ \A i \in 1..(Len(files) - 1) : g[i] = files[i]  BY <1>2, <1>4
  <2>2. Front(g) = Front(files)  BY <1>2, <1>4, <2>1, FrontKept
  <2> QED BY <1>2, <1>4, <2>1, <2>2 DEF Fills, Last
<1>7. Consistent(f)
  <2> HIDE DEF g
  <2>1. g # << >> /\ Last(g).start = Last(files).start  BY <1>2, <1>4 DEF Last
  <2> QED BY <1>5, <2>1 DEF Consistent, NoWriter
<1>8. Fill(s, data) = IF end > s.fw.len THEN CloseFile(s) ELSE IF end = s.fw.len THEN CloseFile(f) ELSE f
  <2>1. [files[m] EXCEPT !.words = v] = file
    <3>1. Last(files) = files[m]  BY DEF Last
    <3> HIDE DEF v, files, m
    <3>2. ASSUME NEW W, NEW fm \in [start : Nat, words : W]
          PROVE  [fm EXCEPT !.words = v] = [start |-> fm.start, words |-> v]
      OBVIOUS
    <3>3. \A fm \in File : [fm EXCEPT !.words = v] = [start |-> fm.start, words |-> v]  BY <3>2 DEF File
    <3> QED BY <1>2, <3>1, <3>3
  <2>2. [s EXCEPT !.fw.offset = end, !.disk.files[m].words =
            [i \in DOMAIN @ |-> IF i \in s.fw.offset..(end - 1) THEN data[i - s.fw.offset + 1] ELSE @[i]]]
          = [s EXCEPT !.fw.offset = end, !.disk.files[m] = [files[m] EXCEPT !.words = v]]
    BY DEF Last
  <2>3. [s EXCEPT !.fw.offset = end, !.disk.files[m] = file] = f
    <3> HIDE DEF file, end, m
    <3>1. [s.disk EXCEPT !.files[m] = file] = [s.disk EXCEPT !.files = g]  OBVIOUS
    <3>2. [s EXCEPT !.fw.offset = end, !.disk.files[m] = file]
            = [s EXCEPT !.fw = [s.fw EXCEPT !.offset = end], !.disk = [s.disk EXCEPT !.files[m] = file]]
      OBVIOUS
    <3> DEFINE A == [s.fw EXCEPT !.offset = end]
               B == [s.disk EXCEPT !.files = g]
    <3>3. [s EXCEPT !.fw = A, !.disk = [s.disk EXCEPT !.files[m] = file]] = [s EXCEPT !.fw = A, !.disk = B]
      <4> HIDE DEF g, A
      <4> QED BY <3>1
    <3>4. [s EXCEPT !.fw = A, !.disk = B] = [fw |-> A, disk |-> B]
      <4> HIDE DEF A, B, Writer, Disk
      <4> QED BY StoreExcept
    <3>5. f = [fw |-> A, disk |-> B]  OBVIOUS
    <3> HIDE DEF f, B
    <3> QED BY <3>2, <3>3, <3>4, <3>5
  <2>4. Fill(s, data) =
          LET h == [s EXCEPT !.fw.offset = end, !.disk.files[m].words =
                      [i \in DOMAIN @ |-> IF i \in s.fw.offset..(end - 1)
                                           THEN data[i - s.fw.offset + 1] ELSE @[i]]]
          IN IF end > s.fw.len THEN CloseFile(s) ELSE IF end = s.fw.len THEN CloseFile(h) ELSE h
    BY Zenon DEF Fill, n
  <2> HIDE DEF f, file, end, v, m, files
  <2> QED BY <2>1, <2>2, <2>3, <2>4
<1>9. \A i \in 1..m : g[i].start = files[i].start  BY <1>2, <1>4 DEF Last
<1>10. Last(g).words = v  BY <1>4 DEF Last
<1> DEFINE t == Fill(s, data)
<1> SUFFICES Filled(s, data, t)  OBVIOUS
<1>11. CASE end > s.fw.len
  <2>1. t = CloseFile(s)  BY <1>8, <1>11
  <2>2. Kept(s, t) /\ t.disk.files = files /\ t.fw = [s.fw EXCEPT !.state = "closed"]
    BY <2>1, CloseKeeps
  <2> HIDE DEF t, g
  <2>3. t.fw.location = s.fw.location /\ t.fw.len = s.fw.len  BY <2>2
  <2>4. ~ s.fw.offset + Len(data) <= s.fw.len  BY <1>2, <1>11 DEF n
  <2> QED BY <1>2, <2>2, <2>3, <2>4 DEF Filled
<1>12. CASE ~ end > s.fw.len
  <2>1. t = IF end = s.fw.len THEN CloseFile(f) ELSE f  BY <1>8, <1>12
  <2>2. f.fw.state # "none" /\ Kept(s, f) /\ f.fw = [s.fw EXCEPT !.offset = end]
    <3> HIDE DEF g, end
    <3> QED BY <1>5, <1>7 DEF Kept
  <2>3. CloseFile(f).disk.files = g /\ Kept(f, CloseFile(f)) /\ CloseFile(f).fw = [f.fw EXCEPT !.state = "closed"]
    BY <1>5, <1>7, <2>2, CloseKeeps
  <2> HIDE DEF f
  <2>4. Kept(s, CloseFile(f))  BY <2>2, <2>3 DEF Kept
  <2>5. Kept(s, t) /\ t.disk.files = g
    <3>1. f.disk.files = g  BY <1>5
    <3> HIDE DEF t, g
    <3> QED BY <2>1, <2>2, <2>3, <2>4, <3>1
  <2>6. /\ t.fw.location = s.fw.location /\ t.fw.len = s.fw.len /\ t.fw.offset = end
        /\ t.fw.state = (IF end = s.fw.len THEN "closed" ELSE "writer")
    <3> HIDE DEF t, g, end
    <3> QED BY <1>5, <2>1, <2>2, <2>3
  <2>7. DOMAIN v = DOMAIN w /\ \A i \in DOMAIN w : v[i] = IF i \in s.fw.offset..(end - 1)
                                               THEN data[i - s.fw.offset + 1] ELSE w[i]
    OBVIOUS
  <2> HIDE DEF t, g, v
  <2> QED BY <1>4, <1>6, <1>9, <1>10, <2>5, <2>6, <2>7 DEF Filled, n
<1> QED BY <1>11, <1>12

\* A new file is the newest, in a place of its own; those that are kept are the newest of the others.
LEMMA AllocateKeeps ==
  ASSUME NEW s \in Store, NEW len \in Nat, NEW id \in Nat \ {0},
         Consistent(s), s.fw.state = "writer", Log(s.disk.files, id),
         \A i \in 1..Len(s.disk.files) : s.disk.files[i].start < id
  PROVE  LET t == Allocate(s, len, id)
         IN /\ Kept(s, t) /\ Adds(s.disk.files, t.disk.files) /\ Log(t.disk.files, id)
            /\ t.fw = [s.fw EXCEPT !.location = id, !.len = len]
            /\ Last(t.disk.files).words = [i \in 0..(len - 1) |-> NoData]
<1> DEFINE files == s.disk.files
           kept == Min({Len(files), MAX_FILES - 1})
           rest == SubSeq(files, Len(files) - kept + 1, Len(files))
           words == [i \in 0..(len - 1) |-> NoData]
           file == [start |-> id, words |-> words]
           g == Append(rest, file)
           t == Allocate(s, len, id)
<1>1. files \in Seq(File) /\ Len(files) \in Nat  OBVIOUS
<1>2. kept \in 0..Len(files)
  <2>1. MAX_FILES - 1 \in Nat  BY UploadAssumption
  <2>2. \E x \in {Len(files), MAX_FILES - 1} : \A y \in {Len(files), MAX_FILES - 1} : x =< y
    BY <1>1, <2>1
  <2>3. kept \in {Len(files), MAX_FILES - 1} /\ kept <= Len(files)
    <3> HIDE DEF files
    <3> QED BY <2>2 DEF Min
  <2> QED BY <1>1, <2>1, <2>3
<1>3. rest \in Seq(File) /\ Len(rest) = kept /\ \A i \in 1..kept : rest[i] = files[Len(files) - kept + i]
  <2> HIDE DEF files, kept
  <2>1. \A i \in (Len(files) - kept + 1)..Len(files) : files[i] \in File  BY <1>1, <1>2
  <2>2. Len(files) - kept + 1 \in Int /\ Len(files) \in Int  BY <1>1, <1>2
  <2> QED BY <1>1, <1>2, <2>1, <2>2, SubSeqProperties
<1>4. IsSuffix(rest, files)
  <2> HIDE DEF files, kept
  <2> QED BY <1>1, <1>2, TailIsSuffix
<1>5. file \in File
  <2>1. words \in [0..(len - 1) -> Datum]  BY DEF Datum, NoData
  <2> HIDE DEF words
  <2> QED BY <2>1 DEF File
<1> HIDE DEF file, rest, kept
<1>6. g \in Seq(File) /\ g # << >> /\ Len(g) = kept + 1 /\ (\A i \in 1..kept : g[i] = rest[i]) /\ g[kept + 1] = file
  <2>1. rest \in Seq(File) /\ file \in File  BY <1>3, <1>5
  <2>2. /\ g \in Seq(File) /\ g # << >> /\ Len(g) = Len(rest) + 1
        /\ \A i \in 1..Len(rest) : g[i] = rest[i]
        /\ g[Len(rest) + 1] = file
    <3> HIDE DEF files
    <3> QED BY <2>1, AppendProperties
  <2> HIDE DEF g
  <2> QED BY <1>3, <2>2
<1> HIDE DEF g
<1>7. Adds(files, g)
  <2>1. Front(g) = rest
    <3>1. Front(g) \in Seq(File) /\ Len(Front(g)) = kept /\ \A i \in 1..kept : Front(g)[i] = g[i]
      <4>1. \A i \in 1..kept : g[i] \in File  BY <1>3, <1>6
      <4>2. kept \in Int /\ Front(g) = SubSeq(g, 1, kept)  BY <1>1, <1>2, <1>6 DEF Front
      <4> QED BY <1>1, <1>2, <4>1, <4>2, SubSeqProperties
    <3>2. \A i \in 1..Len(Front(g)) : Front(g)[i] = rest[i]  BY <1>6, <3>1
    <3>3. Len(Front(g)) = Len(rest)  BY <1>3, <3>1
    <3> QED BY <1>3, <3>1, <3>2, <3>3, SeqEqual
  <2> QED BY <1>4, <1>6, <2>1 DEF Adds
<1>8. Log(g, id)
  <2>1. \A i \in 1..kept : Len(files) - kept + i \in 1..Len(files) /\ g[i] = files[Len(files) - kept + i]
    BY <1>1, <1>2, <1>3, <1>6
  <2>2. g[kept + 1].start = id  BY <1>6 DEF file
  <2> HIDE DEF files
  <2>3. \A i \in 1..Len(files) : files[i] \in File  BY <1>1
  <2>4. \A i \in 1..Len(files) : files[i].start \in Nat  BY <2>3 DEF File
  <2>5. /\ \A i, j \in 1..Len(files) : i < j => files[i].start < files[j].start
        /\ \A i \in 1..Len(files) : files[i].start < id
    BY DEF Log, files
  <2>6. \A i \in 1..Len(g) : i \in 1..kept \/ i = kept + 1  BY <1>1, <1>2, <1>6
  <2>7. ASSUME NEW i \in 1..Len(g) PROVE g[i].start <= id
    <3>1. CASE i \in 1..kept
      <4>1. g[i].start < id /\ g[i].start \in Nat  BY <2>1, <2>4, <2>5, <3>1
      <4> QED BY <4>1
    <3>2. CASE i = kept + 1  BY <2>2, <3>2
    <3> QED BY <2>6, <3>1, <3>2
  <2>8. ASSUME NEW i \in 1..Len(g), NEW j \in 1..Len(g), i < j PROVE g[i].start < g[j].start
    <3>1. i \in 1..kept  BY <1>1, <1>2, <1>6, <2>8
    <3>2. CASE j = kept + 1  BY <2>1, <2>2, <2>5, <3>1, <3>2
    <3>3. CASE j \in 1..kept
      <4>1. Len(files) - kept + i < Len(files) - kept + j  BY <1>1, <1>2, <2>8
      <4> QED BY <2>1, <2>5, <3>1, <3>3, <4>1
    <3> QED BY <2>6, <3>2, <3>3
  <2> QED BY <2>7, <2>8 DEF Log
<1>9. t = [fw |-> [s.fw EXCEPT !.location = id, !.len = len], disk |-> [s.disk EXCEPT !.files = g]]
  <2> DEFINE A == [s.fw EXCEPT !.location = id, !.len = len]
             B == [s.disk EXCEPT !.files = g]
  <2>1. t = [s EXCEPT !.fw = A, !.disk = B]
    <3>1. t = [s EXCEPT !.disk.files = g, !.fw.location = id, !.fw.len = len]
      BY DEF Allocate, g, rest, file, kept
    <3> HIDE DEF t
    <3> QED BY <3>1
  <2> HIDE DEF A, B, t, Writer, Disk
  <2> QED BY <2>1, StoreExcept DEF A, B
<1>10. Kept(s, t) /\ t.fw = [s.fw EXCEPT !.location = id, !.len = len] /\ t.disk.files = g
  <2>1. t.fw = [s.fw EXCEPT !.location = id, !.len = len] /\ t.disk = [s.disk EXCEPT !.files = g]
    BY <1>9
  <2>2. t \in Store /\ t.disk.files = g /\ t.disk.writer = s.disk.writer /\ t.disk.read_counter = s.disk.read_counter
    <3>1. [s.fw EXCEPT !.location = id, !.len = len] \in Writer  OBVIOUS
    <3>2. /\ [s.disk EXCEPT !.files = g] \in Disk /\ [s.disk EXCEPT !.files = g].files = g
          /\ [s.disk EXCEPT !.files = g].writer = s.disk.writer
          /\ [s.disk EXCEPT !.files = g].read_counter = s.disk.read_counter
      BY <1>6
    <3> HIDE DEF t, Writer, Disk
    <3> QED BY <1>9, <2>1, <3>1, <3>2
  <2>3. Last(g).start = id
    <3>1. Last(g) = file  BY <1>1, <1>2, <1>6 DEF Last
    <3> QED BY <3>1 DEF file
  <2> HIDE DEF t
  <2>4. t.fw.state = "writer" /\ t.fw.location = id  BY <2>1
  <2> QED BY <1>6, <2>1, <2>2, <2>3, <2>4 DEF Kept, Consistent
<1>11. Last(g).words = [i \in 0..(len - 1) |-> NoData]
  <2>1. Last(g) = file  BY <1>1, <1>2, <1>6 DEF Last
  <2> QED BY <2>1 DEF file
<1> HIDE DEF t
<1> QED BY <1>7, <1>8, <1>10, <1>11 DEF t

\* What any write may do: a file is added, or the newest is filled, or nothing changes.
Wrote(s, t) ==
  /\ Kept(s, t) /\ Log(t.disk.files, host.id) /\ Fresh(t, host.id)
  /\ \/ t.disk.files = s.disk.files
     \/ Adds(s.disk.files, t.disk.files)
     \/ Fills(s.disk.files, t.disk.files)

\* Data that goes into a new file does not change that it was added.
LEMMA AddThenFill ==
  ASSUME NEW f, NEW g, NEW h, Adds(f, g), h = g \/ (h # << >> /\ Fills(g, h))
  PROVE  Adds(f, h)
BY DEF Adds, Fills

\* A file that is filled has the place that it had.
LEMMA SamePlaces ==
  ASSUME NEW f, NEW g, NEW id, Log(f, id), Len(g) = Len(f), \A i \in 1..Len(f) : g[i].start = f[i].start
  PROVE  Log(g, id)
BY DEF Log

LEMMA WriteKeeps ==
  ASSUME NEW s \in Store, NEW data \in Seq(Datum), host.id \in Nat \ {0},
         Consistent(s), s.fw.state # "none", Log(s.disk.files, host.id), Fresh(s, host.id)
  PROVE  Wrote(s, WriteFile(s, data))
<1> DEFINE t == WriteFile(s, data)
           a == Allocate(s, data[1][3], host.id)
<1>1. ASSUME t = s PROVE Wrote(s, t)  BY <1>1 DEF Wrote, Kept
<1>2. ASSUME t = CloseFile(s) PROVE Wrote(s, t)
  <2> HIDE DEF t
  <2>1. Kept(s, t) /\ t.disk.files = s.disk.files /\ t.fw.location = s.fw.location
    <3>1. Kept(s, t) /\ t.disk.files = s.disk.files /\ t.fw = [s.fw EXCEPT !.state = "closed"]
      BY <1>2, CloseKeeps
    <3> QED BY <3>1
  <2> QED BY <2>1 DEF Wrote, Fresh
<1>3. ASSUME s.fw.state = "writer", s.fw.location # 0, t = Fill(s, data) PROVE Wrote(s, t)
  <2>1. Filled(s, data, t)  BY <1>3, FillKeeps
  <2>2. Log(t.disk.files, host.id)
    <3> HIDE DEF t
    <3> QED BY <2>1, SamePlaces DEF Filled
  <2> HIDE DEF t
  <2> QED BY <1>3, <2>1, <2>2 DEF Wrote, Fresh, Filled
<1>4. ASSUME s.fw.state = "writer", s.fw.location = 0, data # << >>, t = Fill(a, data) PROVE Wrote(s, t)
  <2>1. data[1][3] \in Nat
    <3>1. data[1] \in Datum  BY <1>4
    <3> QED BY <3>1 DEF Datum
  <2>2. /\ Kept(s, a) /\ Adds(s.disk.files, a.disk.files) /\ Log(a.disk.files, host.id)
        /\ a.fw = [s.fw EXCEPT !.location = host.id, !.len = data[1][3]]
    <3> DEFINE len == data[1][3]
               b == Allocate(s, len, host.id)
    <3>1. len \in Nat /\ \A i \in 1..Len(s.disk.files) : s.disk.files[i].start < host.id  BY <1>4, <2>1 DEF Fresh
    <3> HIDE DEF len
    <3>2. /\ Kept(s, b) /\ Adds(s.disk.files, b.disk.files) /\ Log(b.disk.files, host.id)
          /\ b.fw = [s.fw EXCEPT !.location = host.id, !.len = len]
      <4> HIDE DEF t
      <4> QED BY <1>4, <3>1, AllocateKeeps
    <3>3. b = a  BY DEF len
    <3> HIDE DEF a, b, t
    <3> QED BY <3>2, <3>3 DEF len
  <2> HIDE DEF a
  <2>3. a.fw.state = "writer" /\ a.fw.location = host.id /\ a \in Store /\ Consistent(a)
    BY <1>4, <2>2 DEF Kept
  <2>4. Filled(a, data, t)  BY <1>4, <2>3, FillKeeps
  <2> HIDE DEF t
  <2>5. Adds(s.disk.files, t.disk.files)
    <3>1. t.disk.files # << >>  BY <2>3, <2>4 DEF Filled, Kept, Consistent
    <3> QED BY <2>2, <2>4, <3>1, AddThenFill DEF Filled
  <2>6. Log(t.disk.files, host.id)  BY <2>2, <2>4, SamePlaces DEF Filled
  <2> QED BY <2>2, <2>3, <2>4, <2>5, <2>6 DEF Wrote, Fresh, Filled, Kept
<1>5. \/ t = s \/ t = CloseFile(s)
      \/ s.fw.state = "writer" /\ s.fw.location # 0 /\ t = Fill(s, data)
      \/ s.fw.state = "writer" /\ s.fw.location = 0 /\ data # << >> /\ t = Fill(a, data)
  <2>1. CASE s.fw.state # "writer"  BY <2>1 DEF WriteFile
  <2>2. CASE s.fw.state = "writer" /\ s.fw.location # 0
    <3>1. t = Fill(s, data)  BY <2>2 DEF WriteFile
    <3> QED BY <2>2, <3>1
  <2>3. CASE s.fw.state = "writer" /\ s.fw.location = 0
    <3>1. CASE data = << >>  BY <2>3, <3>1 DEF WriteFile
    <3>2. CASE data # << >> /\ data[1][3] > SIZE  BY <2>3, <3>2 DEF WriteFile
    <3>3. CASE data # << >> /\ ~ data[1][3] > SIZE
      <4>1. t = Fill(a, data)  BY <2>3, <3>3 DEF WriteFile, NewLocation
      <4> QED BY <2>3, <3>3, <4>1
    <3> QED BY <3>1, <3>2, <3>3
  <2> QED BY <2>1, <2>2, <2>3
<1> HIDE DEF t, a
<1> QED BY <1>1, <1>2, <1>3, <1>4, <1>5 DEF t

\* The next places of an upload, as they are sent.
LEMMA Sent ==
  ASSUME NEW n \in Nat, host.id \in Nat, host.len \in Nat, host.sent \in Nat
  PROVE  /\ Places(host, n) \in Seq(Datum) /\ Len(Places(host, n)) = n
         /\ \A j \in 1..n : Places(host, n)[j] = <<host.id, host.sent + j - 1, Declared(host)>>
<1> DEFINE data == Places(host, n)
<1>1. data = [j \in 1..n |-> <<host.id, host.sent + j - 1, Declared(host)>>]  BY DEF Places
<1>2. \A j \in 1..n : <<host.id, host.sent + j - 1, Declared(host)>> \in Datum  BY DEF Datum, Declared, UNSENT
<1> HIDE DEF data
<1>3. data \in [1..n -> Datum]  BY <1>1, <1>2
<1>4. data \in Seq(Datum) /\ Len(data) = n  BY <1>3
<1> QED BY <1>1, <1>4 DEF data

\* What was stored stays, and the next places come after it.
LEMMA FillStores ==
  ASSUME NEW s \in Store, NEW n \in Nat, Consistent(s),
         host.id \in Nat \ {0}, host.len \in Nat, host.sent \in Nat, host.sent + n <= host.len,
         s.fw.state = "writer", s.fw.location = host.id, s.fw.len = Declared(host), s.fw.offset = host.sent,
         FirstPlaces(host.id, Declared(host), host.sent, Last(s.disk.files).words)
  PROVE  Stored(host.id, Declared(host), host.sent + n, Fill(s, Places(host, n)))
<1> DEFINE len == Declared(host)
           data == Places(host, n)
           t == Fill(s, data)
           w == Last(s.disk.files).words
           v == Last(t.disk.files).words
           end == host.sent + n
<1>1. data \in Seq(Datum) /\ Len(data) = n
      /\ \A j \in 1..n : data[j] = <<host.id, host.sent + j - 1, len>>
  BY Sent
<1>2. Filled(s, data, t)  BY <1>1, FillKeeps
<1>3. len \in Nat /\ end < len /\ end \in Nat  BY DEF Declared, UNSENT
<1>4. DOMAIN w = 0..(len - 1) /\ \A i \in 0..(len - 1) : w[i] = IF i < host.sent THEN <<host.id, i, len>> ELSE NoData
  BY DEF FirstPlaces
<1> HIDE DEF t, data, v, w, len
<1>5. Kept(s, t) /\ t.fw.location = host.id /\ t.fw.len = len  BY <1>2 DEF Filled, len
<1>6. s.fw.len = len  BY DEF len
<1>7. /\ t.fw.offset = end /\ t.fw.state = "writer"
      /\ DOMAIN v = 0..(len - 1)
      /\ \A i \in 0..(len - 1) : v[i] = IF i \in host.sent..(end - 1) THEN data[i - host.sent + 1] ELSE w[i]
  <2>1. /\ s.fw.offset + Len(data) = end /\ end <= s.fw.len /\ s.fw.offset = host.sent
        /\ ~ end = s.fw.len
    BY <1>1, <1>3, <1>6
  <2> HIDE DEF end
  <2> QED BY <1>2, <1>4, <2>1 DEF Filled, v, w
<1>8. ASSUME NEW i \in 0..(len - 1) PROVE v[i] = IF i < end THEN <<host.id, i, len>> ELSE NoData
  <2>1. CASE i < host.sent \/ i >= end  BY <1>3, <1>4, <1>7, <2>1
  <2>2. CASE i >= host.sent /\ i < end
    <3>1. i - host.sent + 1 \in 1..n /\ i \in host.sent..(end - 1)  BY <2>2
    <3>2. v[i] = data[i - host.sent + 1]  BY <1>7, <3>1
    <3>3. data[i - host.sent + 1] = <<host.id, host.sent + (i - host.sent + 1) - 1, len>>  BY <1>1, <3>1
    <3> QED BY <2>2, <3>2, <3>3
  <2> QED BY <1>3, <2>1, <2>2
<1>9. t.disk.files # << >>  BY <1>5 DEF Kept, Consistent
<1> HIDE DEF end
<1>10. Stored(host.id, len, end, t)  BY <1>5, <1>7, <1>8, <1>9 DEF Stored, FirstPlaces, v
<1> QED BY <1>10 DEF t, data, end, len

\* The first places make a file and go into it.
LEMMA WriteStores ==
  ASSUME NEW s \in Store, NEW n \in Nat, Consistent(s), Log(s.disk.files, host.id), Fresh(s, host.id),
         host.id \in Nat \ {0}, host.len \in Nat, host.sent \in Nat, host.sent + n <= host.len,
         Declared(host) <= SIZE,
         IF host.sent = 0 THEN n > 0 /\ s.fw = [NoWriter EXCEPT !.state = "writer"]
         ELSE Stored(host.id, Declared(host), host.sent, s)
  PROVE  Stored(host.id, Declared(host), host.sent + n, WriteFile(s, Places(host, n)))
<1> DEFINE data == Places(host, n)
           len == Declared(host)
<1>1. data \in Seq(Datum) /\ Len(data) = n
      /\ \A j \in 1..n : data[j] = <<host.id, host.sent + j - 1, len>>
  BY Sent
<1>2. len \in Nat /\ len <= SIZE  BY DEF Declared, UNSENT
<1> HIDE DEF data, len
<1>3. CASE host.sent # 0
  <2>1. WriteFile(s, data) = Fill(s, data)  BY <1>3 DEF Stored, WriteFile
  <2>2. Stored(host.id, len, host.sent + n, Fill(s, Places(host, n)))
    BY <1>3, FillStores DEF Stored, len
  <2> QED BY <2>1, <2>2 DEF data, len
<1>4. CASE host.sent = 0
  <2> DEFINE a == Allocate(s, len, host.id)
  <2>1. s.fw.state = "writer" /\ s.fw.location = 0 /\ s.fw.offset = 0  BY <1>4 DEF NoWriter
  <2>2. data # << >> /\ data[1][3] = len  BY <1>1, <1>4
  <2>3. WriteFile(s, data) = Fill(a, data)
    <3>1. ~ data[1][3] > SIZE  BY <1>2, <2>2, UploadAssumption
    <3> HIDE DEF a
    <3>2. WriteFile(s, data) = Fill(Allocate(s, data[1][3], NewLocation), data)  BY <2>1, <2>2, <3>1 DEF WriteFile
    <3> QED BY <2>2, <3>2 DEF a, NewLocation
  <2>4. /\ Kept(s, a) /\ a.fw = [s.fw EXCEPT !.location = host.id, !.len = len]
        /\ Last(a.disk.files).words = [i \in 0..(len - 1) |-> NoData]
    BY <1>2, <2>1, AllocateKeeps DEF Fresh
  <2> HIDE DEF a
  <2>5. /\ a.fw.state = "writer" /\ a.fw.location = host.id /\ a.fw.len = len /\ a.fw.offset = host.sent
        /\ a \in Store /\ Consistent(a)
    BY <1>4, <2>1, <2>4 DEF Kept
  <2>6. FirstPlaces(host.id, len, host.sent, Last(a.disk.files).words)  BY <1>4, <2>4 DEF FirstPlaces
  <2>7. Stored(host.id, len, host.sent + n, Fill(a, Places(host, n)))
    BY <2>5, <2>6, FillStores DEF len
  <2> QED BY <2>3, <2>7 DEF data, len
<1> QED BY <1>3, <1>4

-----------------------------------------------------------------------------
(***************************************************************************)
(* The actions.                                                            *)
(***************************************************************************)
LEMMA InitIInv == Init => IInv
<1> SUFFICES ASSUME Init PROVE IInv  OBVIOUS
<1>1. disk.files = << >> /\ disk \in Disk /\ ~ disk.writer /\ disk.read_counter = 0
  <2>1. << >> \in Seq(File)  OBVIOUS
  <2> QED BY <2>1 DEF Init
<1>2. Typed  BY <1>1 DEF Init, Typed, NoWriter
<1>3. Consistent(Now)  BY <1>1 DEF Init, Consistent, Now, NoWriter
<1>4. Log(disk.files, host.id)  BY <1>1 DEF Log
<1>5. Progress /\ UploadStored /\ ToLoad  BY <1>1 DEF Init, Progress, UploadStored, ToLoad, Sending
<1> QED BY <1>1, <1>2, <1>3, <1>4, <1>5 DEF IInv

\* A packet that arrives, whatever was done before: what it does to the file system, and
\* what is stored after it of an upload that nobody disturbed.
LEMMA FileWriteKeeps ==
  ASSUME IInv, Sending, NEW n \in Nat, host.sent + n <= host.len
  PROVE  LET s == FileWrite(Places(host, n))
         IN /\ Wrote(Now, s) /\ s.disk.read_counter = 0
            /\ host.clean /\ Declared(host) <= SIZE /\ (host.sent > 0 \/ n > 0) =>
                 Stored(host.id, Declared(host), host.sent + n, s)
<1> DEFINE data == Places(host, n)
           c == CreateFile(Now)
           s == WriteFile(c, data)
<1>1. /\ host.id \in Nat \ {0} /\ host.len \in Nat /\ host.sent \in Nat
      /\ Log(disk.files, host.id) /\ Fresh(Now, host.id)
      /\ ci.fw \in Writer /\ disk \in Disk /\ disk.read_counter = 0 /\ Consistent(Now)
  <2>1. Typed /\ Progress /\ Log(disk.files, host.id) /\ Consistent(Now)  BY DEF IInv
  <2>2. host.id > 0 /\ ~ ci.answering /\ Fresh(Now, host.id)  BY <2>1 DEF Progress
  <2>3. ~ disk.read_counter > 0  BY <2>2 DEF IInv
  <2> QED BY <2>1, <2>2, <2>3 DEF Typed
<1>2. Now \in Store /\ Now.fw = ci.fw /\ Now.disk = disk  BY <1>1 DEF Now
<1>3. /\ Kept(Now, c) /\ c.disk.files = disk.files
      /\ c.fw = IF ci.fw = NoWriter THEN [NoWriter EXCEPT !.state = "writer"] ELSE ci.fw
  BY <1>1, <1>2, CreateKeeps
<1>4. data \in Seq(Datum)  BY <1>1, Sent
<1> HIDE DEF c, data
<1>5. c \in Store /\ Consistent(c) /\ c.fw.state # "none" /\ c.disk.read_counter = 0  BY <1>1, <1>2, <1>3 DEF Kept
<1>6. Log(c.disk.files, host.id) /\ Fresh(c, host.id)
  <2>1. c.fw.location = ci.fw.location  BY <1>3 DEF NoWriter
  <2> QED BY <1>1, <1>2, <1>3, <2>1 DEF Fresh
<1>7. Wrote(c, s)  BY <1>1, <1>4, <1>5, <1>6, WriteKeeps
<1>8. ASSUME host.clean, Declared(host) <= SIZE, host.sent > 0 \/ n > 0
      PROVE  Stored(host.id, Declared(host), host.sent + n, s)
  <2>1. IF host.sent = 0 THEN n > 0 /\ c.fw = [NoWriter EXCEPT !.state = "writer"]
        ELSE Stored(host.id, Declared(host), host.sent, c)
    <3>1. IF host.sent = 0 THEN ci.fw = NoWriter ELSE Stored(host.id, Declared(host), host.sent, Now)
      BY <1>8 DEF IInv, Progress
    <3>2. CASE host.sent = 0  BY <1>3, <1>8, <3>1, <3>2
    <3>3. CASE host.sent # 0
      <4>1. ci.fw # NoWriter  BY <1>2, <3>1, <3>3 DEF Stored, NoWriter
      <4> QED BY <1>2, <1>3, <3>1, <3>3, <4>1 DEF Stored
    <3> QED BY <3>2, <3>3
  <2> QED BY <1>1, <1>5, <1>6, <1>8, <2>1, WriteStores DEF data
<1> HIDE DEF s
<1>9. Wrote(Now, s) /\ s.disk.read_counter = 0
  BY <1>2, <1>3, <1>5, <1>7 DEF Wrote, Kept
<1>10. FileWrite(Places(host, n)) = s  BY DEF FileWrite, Now, s, c, data
<1> QED BY <1>8, <1>9, <1>10

\* A step as the log of files sees it.
LogStep ==
  \/ disk'.files = disk.files
  \/ Adds(disk.files, disk'.files)
  \/ Fills(disk.files, disk'.files)

LEMMA DataInv == ASSUME IInv, Data PROVE IInv' /\ LogStep
<1> DEFINE s == FileWrite(Places(host, PACKET))
<1>1. /\ host.id \in Nat \ {0} /\ host.len \in Nat \ {0} /\ host.sent \in Nat /\ ~ ci.answering
      /\ host.sent + PACKET <= host.len /\ Sending /\ PACKET \in Nat \ {0}
  BY UploadAssumption DEF IInv, Typed, Progress, Data, Rest
<1>2. Wrote(Now, s) /\ s.disk.read_counter = 0
      /\ (host.clean /\ Declared(host) <= SIZE => Stored(host.id, Declared(host), host.sent + PACKET, s))
  BY <1>1, FileWriteKeeps
<1>3. ci' = [ci EXCEPT !.fw = s.fw] /\ disk' = s.disk /\ host' = [host EXCEPT !.sent = @ + PACKET]
  BY DEF Data
<1> HIDE DEF s
<1>4. s \in Store /\ Consistent(s) /\ s.fw.state # "none"  BY <1>2 DEF Wrote, Kept
<1>5. Typed'
  <2>1. s.fw \in Writer /\ s.disk \in Disk  BY <1>4
  <2>2. host' \in [id : Nat, len : Nat, sent : Nat, phase : {"idle", "sending", "sent", "aborted"}, clean : BOOLEAN]
    <3>1. host \in [id : Nat, len : Nat, sent : Nat, phase : {"idle", "sending", "sent", "aborted"}, clean : BOOLEAN]
      BY DEF IInv, Typed
    <3>2. host.sent + PACKET \in Nat  BY <1>1
    <3> QED BY <1>3, <3>1, <3>2
  <2>3. ci' \in [rcv_state : {"Idle", "ConfigData"}, fw : Writer, answering : BOOLEAN]
    <3>1. ci \in [rcv_state : {"Idle", "ConfigData"}, fw : Writer, answering : BOOLEAN]  BY DEF IInv, Typed
    <3> HIDE DEF Writer
    <3> QED BY <1>3, <2>1, <3>1
  <2> HIDE DEF Writer, Disk
  <2> QED BY <1>3, <2>1, <2>2, <2>3 DEF Typed
<1>6. Now' = s /\ ~ ci'.answering /\ ci'.fw = s.fw
  <2>1. ci'.fw = s.fw /\ ci'.answering = ci.answering  BY <1>3 DEF IInv, Typed
  <2>2. s = [fw |-> s.fw, disk |-> s.disk]
    <3>1. ASSUME NEW V, NEW W, NEW r \in [fw : V, disk : W] PROVE r = [fw |-> r.fw, disk |-> r.disk]  OBVIOUS
    <3> HIDE DEF Writer, Disk
    <3> QED BY <1>4, <3>1
  <2> QED BY <1>1, <1>3, <2>1, <2>2 DEF Now
<1>7. host'.id = host.id /\ host'.len = host.len /\ host'.sent = host.sent + PACKET /\ host'.clean = host.clean
      /\ host'.phase = "sending"
  BY <1>1, <1>3 DEF IInv, Typed, Sending
<1>8. Consistent(Now)' /\ Log(disk.files, host.id)' /\ Fresh(Now, host.id)'
  BY <1>2, <1>3, <1>4, <1>6, <1>7 DEF Wrote
<1>9. Progress'
  <2>1. (host.clean /\ Declared(host) <= SIZE => Stored(host.id, Declared(host), host.sent, Now))'
    BY <1>2, <1>6, <1>7 DEF Declared
  <2> QED BY <1>1, <1>6, <1>7, <1>8, <2>1 DEF Progress
<1>10. UploadStored' /\ ToLoad'
  <2>1. ctl_sig' = ctl_sig /\ missed' = missed /\ (ctl_sig.msg = "LoadLayout" => ~ missed)
    BY DEF Data, IInv, ToLoad
  <2>2. ci'.fw # NoWriter  BY <1>4, <1>6 DEF NoWriter
  <2> QED BY <1>7, <2>1, <2>2 DEF UploadStored, ToLoad
<1>11. LogStep  BY <1>2, <1>3 DEF Wrote, LogStep, Now
<1> QED BY <1>2, <1>3, <1>5, <1>8, <1>9, <1>10, <1>11 DEF IInv

\* All of the file is there when all of the upload was stored in it.
LEMMA StoredWhole ==
  ASSUME NEW s, NEW id \in Nat \ {0}, NEW len \in Nat \ {0}, Stored(id, len + UNSENT, len, s)
  PROVE  Whole(Last(s.disk.files)) /\ Last(s.disk.files).words[0] = <<id, 0, len + UNSENT>>
<1> DEFINE words == Last(s.disk.files).words
           all == len + UNSENT
<1>1. DOMAIN words = 0..(all - 1) /\ \A i \in 0..(all - 1) : words[i] = IF i < len THEN <<id, i, all>> ELSE NoData
  BY DEF Stored, FirstPlaces
<1>2. all \in Nat \ {0} /\ all - UNSENT = len  BY DEF UNSENT
<1> HIDE DEF words, all
<1>3. words[0] = <<id, 0, all>>  BY <1>1, <1>2
<1>4. Cardinality(DOMAIN words) = all
  <2>1. 0 \in Int /\ all - 1 \in Int /\ ~ 0 > all - 1  BY <1>2
  <2>2. Cardinality(0..(all - 1)) = all - 1 - 0 + 1  BY <2>1, FS_Interval
  <2> QED BY <1>1, <1>2, <2>2
<1>5. words[0] # NoData /\ words[0][1] = id /\ words[0][3] = all  BY <1>3 DEF NoData
<1> QED BY <1>1, <1>2, <1>3, <1>4, <1>5 DEF Whole, words, all

LEMMA CloseInv == ASSUME IInv, Close PROVE IInv' /\ LogStep
<1> DEFINE s == FileWrite(Places(host, Rest))
           t == CloseFile(s)
<1>1. /\ host.id \in Nat \ {0} /\ host.len \in Nat \ {0} /\ host.sent \in Nat
      /\ Rest \in Nat /\ host.sent + Rest = host.len /\ Sending
  BY DEF IInv, Typed, Progress, Close, Rest
<1>2. Wrote(Now, s) /\ s.disk.read_counter = 0
      /\ (host.clean /\ Declared(host) <= SIZE => Stored(host.id, Declared(host), host.len, s))
  BY <1>1, FileWriteKeeps
<1>3. /\ ctl_sig' = LoadLayout(s.fw.location) /\ disk' = t.disk
      /\ ci' = [ci EXCEPT !.rcv_state = "Idle", !.fw = NoWriter]
      /\ host' = [host EXCEPT !.sent = host.len, !.phase = "sent"]
  <2>1. s.fw.state # "none"  BY <1>2 DEF Wrote, Kept
  <2>2. s.fw # NoWriter  BY <2>1 DEF NoWriter
  <2> QED BY <2>2 DEF Close
<1> HIDE DEF s
<1>4. s \in Store /\ Consistent(s) /\ s.fw.state # "none"  BY <1>2 DEF Wrote, Kept
<1>5. /\ t.disk \in Disk /\ t.disk.files = s.disk.files /\ ~ t.disk.writer
      /\ t.disk.read_counter = 0
  BY <1>2, <1>4, CloseKeeps DEF Kept
<1> HIDE DEF t
<1>6. Typed'
  <2>1. NoWriter \in Writer  BY DEF NoWriter
  <2>2. host' \in [id : Nat, len : Nat, sent : Nat, phase : {"idle", "sending", "sent", "aborted"}, clean : BOOLEAN]
    BY <1>1, <1>3 DEF IInv, Typed
  <2>3. ci' \in [rcv_state : {"Idle", "ConfigData"}, fw : Writer, answering : BOOLEAN]
    <3>1. ci \in [rcv_state : {"Idle", "ConfigData"}, fw : Writer, answering : BOOLEAN]  BY DEF IInv, Typed
    <3> HIDE DEF Writer
    <3> QED BY <1>3, <2>1, <3>1
  <2> HIDE DEF Writer, Disk
  <2> QED BY <1>3, <1>5, <2>2, <2>3 DEF Typed
<1>7. ci'.fw = NoWriter /\ disk'.files = s.disk.files /\ ~ disk'.writer /\ disk'.read_counter = 0
  BY <1>3, <1>5 DEF IInv, Typed
<1>8. host'.id = host.id /\ host'.len = host.len /\ host'.clean = host.clean /\ host'.phase = "sent"
  BY <1>1, <1>3 DEF IInv, Typed
<1>9. Consistent(Now)'
  <2>1. Now'.fw = NoWriter /\ Now'.disk = disk'  BY <1>7 DEF Now
  <2> QED BY <1>7, <2>1 DEF Consistent, NoWriter
<1>10. Log(disk.files, host.id)'  BY <1>2, <1>7, <1>8 DEF Wrote
<1>11. Progress'  BY <1>8 DEF Progress, Sending
<1>12. UploadStored'
  <2>1. ASSUME host.clean, Declared(host) <= SIZE
        PROVE  disk'.files # << >> /\ Whole(Last(disk'.files)) /\ Last(disk'.files).words[0] = <<host.id, 0, Declared(host)>>
    <3>1. Stored(host.id, Declared(host), host.len, s)  BY <1>2, <2>1
    <3>2. Whole(Last(s.disk.files)) /\ Last(s.disk.files).words[0] = <<host.id, 0, Declared(host)>>
      BY <1>1, <3>1, StoredWhole DEF Declared
    <3>3. s.disk.files # << >>  BY <3>1 DEF Stored
    <3> QED BY <1>7, <3>2, <3>3
  <2> QED BY <1>8, <2>1 DEF UploadStored, Declared
<1>13. ToLoad'
  <2>1. s.fw.location = 0 \/ s.fw.location = Last(disk'.files).start  BY <1>4, <1>7 DEF Consistent
  <2>2. ~ missed'
    <3>1. s.fw # NoWriter  BY <1>4 DEF NoWriter
    <3> QED BY <3>1 DEF Close, s
  <2> QED BY <1>3, <2>1, <2>2 DEF ToLoad
<1>14. LogStep  BY <1>2, <1>7 DEF Wrote, LogStep, Now
<1> QED BY <1>6, <1>7, <1>9, <1>10, <1>11, <1>12, <1>13, <1>14 DEF IInv

LEMMA OpenInv == ASSUME IInv, NEW len \in Lengths, Open(len) PROVE IInv' /\ LogStep
<1>1. len \in Nat \ {0}  BY UploadAssumption
<1>2. /\ host' = [id |-> host.id + 1, len |-> len, sent |-> 0, phase |-> "sending", clean |-> ci.fw = NoWriter]
      /\ ci' = [ci EXCEPT !.rcv_state = "ConfigData"] /\ disk' = disk /\ ctl_sig' = ctl_sig
      /\ active' = active /\ missed' = missed /\ ~ ci.answering
  BY DEF Open, Receiving
<1>3. ci'.fw = ci.fw /\ ci'.answering = ci.answering  BY <1>2 DEF IInv, Typed
<1>4. Now' = Now  BY <1>2, <1>3 DEF Now
<1>5. Typed'
  <2>1. host.id + 1 \in Nat /\ (ci.fw = NoWriter) \in BOOLEAN  BY DEF IInv, Typed
  <2>2. host' \in [id : Nat, len : Nat, sent : Nat, phase : {"idle", "sending", "sent", "aborted"}, clean : BOOLEAN]
    BY <1>1, <1>2, <2>1
  <2>3. ci' \in [rcv_state : {"Idle", "ConfigData"}, fw : Writer, answering : BOOLEAN]
    <3>1. ci \in [rcv_state : {"Idle", "ConfigData"}, fw : Writer, answering : BOOLEAN]  BY DEF IInv, Typed
    <3> HIDE DEF Writer
    <3> QED BY <1>2, <3>1
  <2> HIDE DEF Writer, Disk
  <2> QED BY <1>2, <2>2, <2>3 DEF IInv, Typed
<1>6. Log(disk.files, host.id) /\ host.id \in Nat /\ disk.files \in Seq(File)  BY DEF IInv, Typed
<1>7. \A i \in 1..Len(disk.files) : disk.files[i].start < host.id + 1
  <2> TAKE i \in 1..Len(disk.files)
  <2>1. disk.files[i] \in File  BY <1>6
  <2>2. disk.files[i].start \in Nat  BY <2>1 DEF File
  <2> QED BY <1>6, <2>2 DEF Log
<1>8. Log(disk.files, host.id)'
  <2>1. \A i \in 1..Len(disk.files) : disk.files[i].start <= host.id + 1
    <3> TAKE i \in 1..Len(disk.files)
    <3>1. disk.files[i] \in File  BY <1>6
    <3>2. disk.files[i].start \in Nat  BY <3>1 DEF File
    <3> QED BY <1>6, <1>7, <3>2
  <2> QED BY <1>2, <1>6, <2>1 DEF Log
<1>9. Fresh(Now, host.id)'  BY <1>2, <1>4, <1>7 DEF Fresh, Now
<1>10. Progress'
  <2>1. /\ host'.id = host.id + 1 /\ host'.len = len /\ host'.sent = 0 /\ host'.clean = (ci.fw = NoWriter)
        /\ ~ ci'.answering
    BY <1>2, <1>3
  <2>2. (host.id > 0 /\ host.len > 0 /\ host.sent <= host.len /\ ~ ci.answering)'  BY <1>1, <1>6, <2>1
  <2>3. host'.clean => ci'.fw = NoWriter  BY <1>3, <2>1
  <2> QED BY <1>9, <2>1, <2>2, <2>3 DEF Progress
<1>11. UploadStored'  BY <1>2 DEF UploadStored
<1>12. ToLoad'  BY <1>2, <1>3 DEF IInv, ToLoad, Whole
<1>13. Consistent(Now)'  BY <1>4 DEF IInv, Consistent
<1>14. (disk.read_counter > 0 => ci.answering /\ ~ disk.writer)'  BY <1>2, <1>3 DEF IInv
<1> QED BY <1>2, <1>5, <1>8, <1>10, <1>11, <1>12, <1>13, <1>14 DEF IInv, LogStep

\* What comes of a location when the newest file is there, and is whole.
LEMMA LoadedNewest ==
  ASSUME IInv, disk.files # << >>, Whole(Last(disk.files)), NEW x \in Loaded(Last(disk.files).start)
  PROVE  x = Last(disk.files).words[0][1]
<1> DEFINE files == disk.files
           found == {i \in DOMAIN files : files[i].start = Last(files).start /\ Whole(files[i])}
<1>1. files \in Seq(File) /\ Log(files, host.id) /\ files # << >> /\ Whole(Last(files))  BY DEF IInv, Typed
<1>2. x \in IF found = {} THEN {BuiltIn, Garbage} ELSE {files[i].words[0][1] : i \in found}  BY DEF Loaded
<1> HIDE DEF files
<1>3. Len(files) \in Nat \ {0} /\ DOMAIN files = 1..Len(files)  BY <1>1
<1>4. Len(files) \in found  BY <1>1, <1>3 DEF Last
<1>5. ASSUME NEW i \in found PROVE i = Len(files)
  <2>1. i \in 1..Len(files) /\ files[i].start = files[Len(files)].start  BY <1>3 DEF Last
  <2>2. files[i] \in File  BY <1>1, <2>1
  <2>3. files[i].start \in Nat  BY <2>2 DEF File
  <2>4. CASE i < Len(files)
    <3>1. files[i].start < files[Len(files)].start  BY <1>1, <1>3, <2>1, <2>4 DEF Log
    <3> QED BY <2>1, <2>3, <3>1
  <2> QED BY <1>3, <2>1, <2>4
<1> HIDE DEF found
<1>6. PICK i \in found : x = files[i].words[0][1]  BY <1>2, <1>4
<1> QED BY <1>5, <1>6 DEF files, Last

LEMMA LoadInv == ASSUME IInv, Load PROVE IInv' /\ LogStep
<1>1. UNCHANGED <<host, ci, disk>> /\ ctl_sig' = NoSignal /\ ctl_sig.msg = "LoadLayout"  BY DEF Load
<1>2. Typed' /\ Consistent(Now)' /\ Log(disk.files, host.id)'
      /\ (disk.read_counter > 0 => ci.answering /\ ~ disk.writer)'
  BY <1>1 DEF IInv, Typed, Consistent, Now, Log
<1>3. Progress'  BY <1>1 DEF IInv, Progress, Sending, Fresh, Now, Stored
<1>4. UploadStored'  BY <1>1 DEF IInv, UploadStored, Whole
<1>5. ToLoad'
  <2> SUFFICES ASSUME ci.fw = NoWriter, ~ missed', disk.files # << >>, Whole(Last(disk.files))
                 PROVE  active' = Last(disk.files).words[0][1]
    BY <1>1 DEF ToLoad, NoSignal, Whole
  <2>2. ~ disk.writer  BY <1>1 DEF IInv, Consistent, Now, NoWriter
  <2>3. ctl_sig.file_location # 0 /\ active' \in Loaded(ctl_sig.file_location)  BY <2>2 DEF Load
  <2>4. ctl_sig.file_location = Last(disk.files).start
    BY <1>1, <2>3 DEF IInv, ToLoad, LoadLayout
  <2> QED BY <2>3, <2>4, LoadedNewest
<1> QED BY <1>1, <1>2, <1>3, <1>4, <1>5 DEF IInv, LogStep

\* What an action keeps that changes neither the files nor what the writer has of them.
LEMMA QuietInv ==
  ASSUME IInv, Typed', disk'.files = disk.files, disk'.writer = disk.writer, ci'.fw = ci.fw,
         ctl_sig' = ctl_sig, active' = active, missed' = missed,
         host'.id = host.id, host'.len = host.len, host'.clean = host.clean,
         host'.phase # "sending", host'.phase = "sent" => host.phase = "sent",
         disk'.read_counter > 0 => ci'.answering /\ ~ disk'.writer
  PROVE  IInv' /\ LogStep
<1>1. Consistent(Now)' /\ Log(disk.files, host.id)'  BY DEF IInv, Consistent, Log, Now
<1>2. Progress'  BY DEF Progress, Sending
<1>3. UploadStored'  BY DEF IInv, UploadStored, Whole, Declared
<1>4. ToLoad'  BY DEF IInv, ToLoad, Whole
<1> QED BY <1>1, <1>2, <1>3, <1>4 DEF IInv, LogStep

LEMMA AbortInv == ASSUME IInv, Abort PROVE IInv' /\ LogStep
<1>1. host' = [host EXCEPT !.phase = "aborted"] /\ UNCHANGED <<ci, disk, ctl_sig, active, missed>>  BY DEF Abort
<1>2. Typed'
  <2>1. host' \in [id : Nat, len : Nat, sent : Nat, phase : {"idle", "sending", "sent", "aborted"}, clean : BOOLEAN]
    BY <1>1 DEF IInv, Typed
  <2> QED BY <1>1, <2>1 DEF IInv, Typed
<1>3. host'.id = host.id /\ host'.len = host.len /\ host'.clean = host.clean /\ host'.phase = "aborted"
  BY <1>1 DEF IInv, Typed
<1>4. disk'.read_counter > 0 => ci'.answering /\ ~ disk'.writer  BY <1>1 DEF IInv
<1> QED BY <1>1, <1>2, <1>3, <1>4, QuietInv

LEMMA ReadFileByIndexInv == ASSUME IInv, ReadFileByIndex PROVE IInv' /\ LogStep
<1>1. /\ UNCHANGED <<host, ctl_sig, active, missed>> /\ host.phase # "sending"
      /\ ~ ci.answering /\ ~ disk.read_counter > 0
  BY DEF ReadFileByIndex, Sending, Receiving, IInv
<1>2. CASE ci.rcv_state = "ConfigData"
  <2>1. ci' = [ci EXCEPT !.rcv_state = "Idle"] /\ disk' = disk  BY <1>2 DEF ReadFileByIndex
  <2>2. ci' \in [rcv_state : {"Idle", "ConfigData"}, fw : Writer, answering : BOOLEAN] /\ ci'.fw = ci.fw
    <3>1. ci \in [rcv_state : {"Idle", "ConfigData"}, fw : Writer, answering : BOOLEAN]  BY DEF IInv, Typed
    <3> HIDE DEF Writer
    <3> QED BY <2>1, <3>1
  <2>3. Typed'  BY <1>1, <2>1, <2>2 DEF IInv, Typed
  <2> QED BY <1>1, <2>1, <2>2, <2>3, QuietInv
<1>3. CASE ci.rcv_state # "ConfigData"
  <2>1. /\ ci' = [ci EXCEPT !.answering = TRUE]
        /\ disk' = IF disk.writer \/ disk.files = << >> THEN disk ELSE [disk EXCEPT !.read_counter = @ + 1]
    BY <1>3 DEF ReadFileByIndex
  <2>2. ci' \in [rcv_state : {"Idle", "ConfigData"}, fw : Writer, answering : BOOLEAN] /\ ci'.fw = ci.fw /\ ci'.answering
    <3>1. ci \in [rcv_state : {"Idle", "ConfigData"}, fw : Writer, answering : BOOLEAN]  BY DEF IInv, Typed
    <3> HIDE DEF Writer
    <3> QED BY <2>1, <3>1
  <2>3. /\ disk' \in Disk /\ disk'.files = disk.files /\ disk'.writer = disk.writer
        /\ disk'.read_counter > 0 => ~ disk'.writer
    <3>1. disk \in Disk  BY DEF IInv, Typed
    <3>2. CASE disk.writer \/ disk.files = << >>  BY <1>1, <2>1, <3>1, <3>2
    <3>3. CASE ~ disk.writer /\ disk.files # << >>  BY <2>1, <3>1, <3>3
    <3> QED BY <3>1, <3>2, <3>3
  <2>4. Typed'  BY <1>1, <2>2, <2>3 DEF IInv, Typed
  <2> QED BY <1>1, <2>2, <2>3, <2>4, QuietInv
<1> QED BY <1>2, <1>3

LEMMA AnswerSentInv == ASSUME IInv, AnswerSent PROVE IInv' /\ LogStep
<1>1. /\ UNCHANGED <<host, ctl_sig, active, missed>> /\ ci.answering
      /\ ci' = [ci EXCEPT !.answering = FALSE] /\ disk' = [disk EXCEPT !.read_counter = 0]
  BY DEF AnswerSent
<1>2. host.phase # "sending"  BY <1>1 DEF IInv, Progress, Sending
<1>3. ci' \in [rcv_state : {"Idle", "ConfigData"}, fw : Writer, answering : BOOLEAN] /\ ci'.fw = ci.fw
  <2>1. ci \in [rcv_state : {"Idle", "ConfigData"}, fw : Writer, answering : BOOLEAN]  BY DEF IInv, Typed
  <2> HIDE DEF Writer
  <2> QED BY <1>1, <2>1
<1>4. disk' \in Disk /\ disk'.files = disk.files /\ disk'.writer = disk.writer /\ disk'.read_counter = 0
  <2>1. disk \in Disk  BY DEF IInv, Typed
  <2> QED BY <1>1, <2>1
<1>5. Typed'  BY <1>1, <1>3, <1>4 DEF IInv, Typed
<1> QED BY <1>1, <1>2, <1>3, <1>4, <1>5, QuietInv

\* The timer's message takes the place of one about a file, or goes away itself.
LEMMA TimerInv == ASSUME IInv, CheckTime \/ TimerExpires PROVE IInv' /\ LogStep
<1>1. UNCHANGED <<host, ci, disk, active>>  BY DEF CheckTime, TimerExpires
<1>2. Typed' /\ Consistent(Now)' /\ Log(disk.files, host.id)'
      /\ (disk.read_counter > 0 => ci.answering /\ ~ disk.writer)'
  BY <1>1 DEF IInv, Typed, Consistent, Now, Log
<1>3. Progress'  BY <1>1 DEF IInv, Progress, Sending, Fresh, Now, Stored
<1>4. UploadStored'  BY <1>1 DEF IInv, UploadStored, Whole
<1>5. ToLoad'
  <2>1. CASE CheckTime
    <3>1. ctl_sig'.msg # "LoadLayout" /\ ctl_sig.msg # "LoadLayout" /\ missed' = missed
      BY <2>1 DEF CheckTime, NoSignal, TimerExpired
    <3> QED BY <1>1, <3>1 DEF IInv, ToLoad, Whole, LoadLayout
  <2>2. CASE TimerExpires
    <3>1. ctl_sig'.msg # "LoadLayout" /\ (~ missed' => ~ missed /\ ctl_sig.msg # "LoadLayout")
      BY <2>2 DEF TimerExpires, TimerExpired
    <3> QED BY <1>1, <3>1 DEF IInv, ToLoad, Whole, LoadLayout
  <2> QED BY <2>1, <2>2
<1> QED BY <1>1, <1>2, <1>3, <1>4, <1>5 DEF IInv, LogStep

LEMMA RestartInv == ASSUME IInv, Restart PROVE IInv' /\ LogStep
<1>1. /\ host' = [host EXCEPT !.phase = IF Sending THEN "aborted" ELSE @]
      /\ ci' = [rcv_state |-> "Idle", fw |-> NoWriter, answering |-> FALSE]
      /\ disk' = [disk EXCEPT !.writer = FALSE, !.read_counter = 0]
      /\ active' \in IF disk.files = << >> THEN {BuiltIn} ELSE Loaded(Newest)
      /\ ctl_sig' = NoSignal /\ ~ missed'
  BY DEF Restart
<1>2. disk' \in Disk /\ disk'.files = disk.files /\ ~ disk'.writer /\ disk'.read_counter = 0
  <2>1. disk \in Disk  BY DEF IInv, Typed
  <2> QED BY <1>1, <2>1
<1>3. /\ host' \in [id : Nat, len : Nat, sent : Nat, phase : {"idle", "sending", "sent", "aborted"}, clean : BOOLEAN]
      /\ host'.id = host.id /\ host'.len = host.len /\ host'.clean = host.clean
      /\ host'.phase # "sending" /\ (host'.phase = "sent" => host.phase = "sent")
  BY <1>1 DEF IInv, Typed, Sending
<1>4. Typed'  BY <1>1, <1>2, <1>3 DEF Typed, NoWriter
<1>5. Consistent(Now)'  BY <1>1, <1>2 DEF Consistent, Now, NoWriter
<1>6. Log(disk.files, host.id)'  BY <1>2, <1>3 DEF IInv, Log
<1>7. Progress'  BY <1>3 DEF Progress, Sending
<1>8. UploadStored'  BY <1>2, <1>3 DEF IInv, UploadStored, Whole, Declared
<1>9. ToLoad'
  <2>1. ASSUME disk.files # << >>, Whole(Last(disk.files)) PROVE active' = Last(disk.files).words[0][1]
    <3>1. active' \in Loaded(Last(disk.files).start)  BY <1>1, <2>1 DEF Newest
    <3> QED BY <2>1, <3>1, LoadedNewest
  <2> QED BY <1>1, <1>2, <2>1 DEF ToLoad, Whole, NoSignal
<1> QED BY <1>2, <1>4, <1>5, <1>6, <1>7, <1>8, <1>9 DEF IInv, LogStep

LEMMA StepInv == ASSUME IInv, [Next]_vars PROVE IInv' /\ LogStep
<1>1. ASSUME NEW len \in Lengths, Open(len) PROVE IInv' /\ LogStep  BY <1>1, OpenInv
<1>2. CASE Data  BY <1>2, DataInv
<1>3. CASE Close  BY <1>3, CloseInv
<1>4. CASE Abort  BY <1>4, AbortInv
<1>5. CASE ReadFileByIndex  BY <1>5, ReadFileByIndexInv
<1>6. CASE AnswerSent  BY <1>6, AnswerSentInv
<1>7. CASE Load  BY <1>7, LoadInv
<1>8. CASE CheckTime \/ TimerExpires  BY <1>8, TimerInv
<1>9. CASE Restart  BY <1>9, RestartInv
<1>10. CASE UNCHANGED vars
  BY <1>10 DEF vars, IInv, Typed, Consistent, Log, Progress, Sending, Fresh, Now, Stored, UploadStored, ToLoad, Whole, LogStep
<1> QED BY <1>1, <1>2, <1>3, <1>4, <1>5, <1>6, <1>7, <1>8, <1>9, <1>10 DEF Next

LEMMA Invariant == Spec => []IInv
BY InitIInv, StepInv, PTL DEF Spec

-----------------------------------------------------------------------------
(***************************************************************************)
(* The theorems.                                                           *)
(***************************************************************************)
\* The file system's count of its users agrees with their descriptors, and nothing is written
\* while a file is read: for files of any length, any number of them and of uploads.
THEOREM LocksHold == Spec => []Locks
<1>1. IInv => Locks  BY DEF IInv, Consistent, Now, Locks
<1> QED BY <1>1, Invariant, PTL

\* An upload that nobody disturbed is the newest file when it was sent, complete and in order.
THEOREM UploadsStored == Spec => []UploadStored
<1>1. IInv => UploadStored  BY DEF IInv
<1> QED BY <1>1, Invariant, PTL

\* Between uploads the keyboard uses the layout that it would use after a restart, unless the
\* last LoadLayout was replaced, came too late or was about no file.
THEOREM NewestIsActive == Spec => []ActiveNewest
<1>1. IInv => ActiveNewest  BY DEF IInv, ToLoad, ActiveNewest, LoadLayout
<1> QED BY <1>1, Invariant, PTL

\* However uploads are aborted and go on, and wherever the power fails, they use the file
\* system as a log of files.
THEOREM UploadImplementsLog == Spec => StoreIsLog
<1>1. Init => Files!Init  BY DEF Init, Files!Init
<1>2. ASSUME IInv, [Next]_vars PROVE [Files!Next]_(disk.files)
  <2>1. LogStep  BY <1>2, StepInv
  <2>2. ASSUME Adds(disk.files, disk'.files) PROVE Files!Next
    BY <2>2 DEF Adds, IsSuffix, IsPrefix, Reverse, Front, Files!Next, Files!Add, Files!IsSuffix, Files!IsPrefix,
                Files!Reverse, Files!Front
  <2>3. ASSUME Fills(disk.files, disk'.files) PROVE Files!Next
    BY <2>3 DEF Fills, Front, Last, Files!Next, Files!Fill, Files!Front, Files!Last
  <2> QED BY <2>1, <2>2, <2>3 DEF LogStep
<1> QED BY <1>1, <1>2, Invariant, PTL DEF Spec, StoreIsLog, Files!Spec
=============================================================================
