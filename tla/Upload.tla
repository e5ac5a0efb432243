------------------------------- MODULE Upload -------------------------------
(***************************************************************************)
(* A configuration on its way from rpk-config to the layout that is in     *)
(* use: the tool sends a file in packets and may be stopped at any time;   *)
(* ConfigInterface stores it and signals its location; the loader, when    *)
(* the mapper gets round to it, reads the file.  The mapper's timer uses   *)
(* the same signal, which holds one message; the power may fail.           *)
(*                                                                         *)
(* Lengths are in places of four bytes: a packet has PACKET of them, and   *)
(* the last message has what is left.  A location is the number of a file; *)
(* the files are the log of FileLog, which RingFs shows the flash to be.   *)
(***************************************************************************)
EXTENDS Integers, Sequences, SequencesExt, FiniteSetsExt

CONSTANTS
  Lengths,      \* the lengths of the files that are sent
  PACKET,       \* the places in a packet
  SIZE,         \* the length of the largest file that can be stored
  MAX_UPLOADS,  \* bound: how many files are sent
  MAX_FILES     \* how many are kept

ASSUME UploadAssumption ==
  /\ Lengths \subseteq Nat \ {0, 1}   \* the header alone has 14 bytes
  /\ PACKET \in Nat \ {0} /\ SIZE \in Nat /\ MAX_FILES \in Nat \ {0}

VARIABLES
  host,     \* rpk-config: the upload [id, len, sent, phase, clean]
  ci,       \* ConfigInterface: rcv_state, fw and whether it waits to send an answer
  disk,     \* the files, and NorflashRingFsInner's writer and read_counter
  ctl_sig,  \* ControlSignal
  active,   \* the layout in use: an upload, BuiltIn or Garbage
  missed    \* history: the last LoadLayout came to nothing

vars == <<host, ci, disk, ctl_sig, active, missed>>

BuiltIn == 0
Garbage == -1
NoWriter == [state |-> "none", location |-> 0, len |-> 0, offset |-> 0]
NoSignal == [msg |-> "none", file_location |-> 0]
TimerExpired == [msg |-> "TimerExpired", file_location |-> 0]
LoadLayout(location) == [msg |-> "LoadLayout", file_location |-> location]
NoData == <<0, 0, 0>>

\* The length that save_config declares counts four bytes that it does not send.
UNSENT == 1
Declared(u) == u.len + UNSENT

\* The next n places of an upload; the first has the declared length.
Places(u, n) == [j \in 1..n |-> <<u.id, u.sent + j - 1, Declared(u)>>]

Init ==
  /\ host = [id |-> 0, len |-> 0, sent |-> 0, phase |-> "idle", clean |-> TRUE]
  /\ ci = [rcv_state |-> "Idle", fw |-> NoWriter, answering |-> FALSE]
  /\ disk = [files |-> << >>, writer |-> FALSE, read_counter |-> 0]
  /\ ctl_sig = NoSignal /\ active = BuiltIn /\ missed = FALSE

-----------------------------------------------------------------------------
(***************************************************************************)
(* file_write, on the record of a writer and the disk.                     *)
(***************************************************************************)
\* Mutant: the descriptor is closed and its file system not told.
CloseDescriptor(s) == [s EXCEPT !.fw.state = "closed"]

CloseFile(s) ==
  IF s.fw.state = "writer"
  THEN [s EXCEPT !.fw.state = "closed", !.disk.writer = FALSE] ELSE s

CreateFile(s) ==
  IF s.fw = NoWriter /\ ~ s.disk.writer /\ s.disk.read_counter = 0
  THEN [s EXCEPT !.fw.state = "writer", !.disk.writer = TRUE] ELSE s

\* Mutant: the newest file is deleted when there are too many.
AllocateOverNewest(s, len, location) ==
  LET kept == Min({Len(s.disk.files), MAX_FILES - 1})
      file == [start |-> location, words |-> [i \in 0..(len - 1) |-> NoData]]
  IN [s EXCEPT !.disk.files = Append(SubSeq(@, 1, kept), file),
               !.fw.location = location, !.fw.len = len]

\* A new file at the end of the log; the oldest are deleted.
Allocate(s, len, location) ==
  LET kept == Min({Len(s.disk.files), MAX_FILES - 1})
      file == [start |-> location, words |-> [i \in 0..(len - 1) |-> NoData]]
  IN [s EXCEPT !.disk.files = Append(SubSeq(@, Len(@) - kept + 1, Len(@)), file),
               !.fw.location = location, !.fw.len = len]

\* Mutant: the place to write at does not move on.
FillSamePlace(s, data) ==
  LET end == s.fw.offset + Len(data)
  IN IF end > s.fw.len THEN CloseFile(s)
     ELSE [s EXCEPT !.disk.files[Len(s.disk.files)].words =
                       [i \in DOMAIN @ |-> IF i \in s.fw.offset..(end - 1)
                                           THEN data[i - s.fw.offset + 1] ELSE @[i]]]

\* The file that is written is the newest one.
Fill(s, data) ==
  LET end == s.fw.offset + Len(data)
      f == [s EXCEPT !.fw.offset = end,
                     !.disk.files[Len(s.disk.files)].words =
                        [i \in DOMAIN @ |-> IF i \in s.fw.offset..(end - 1)
                                            THEN data[i - s.fw.offset + 1] ELSE @[i]]]
  IN IF end > s.fw.len THEN CloseFile(s) ELSE IF end = s.fw.len THEN CloseFile(f) ELSE f

\* A location that no file had before.
NewLocation == host.id

WriteFile(s, data) ==
  IF s.fw.state # "writer" THEN s
  ELSE IF s.fw.location # 0 THEN Fill(s, data)
  ELSE IF data = << >> \/ data[1][3] > SIZE THEN CloseFile(s)
  ELSE Fill(Allocate(s, data[1][3], NewLocation), data)

FileWrite(data) == WriteFile(CreateFile([fw |-> ci.fw, disk |-> disk]), data)

-----------------------------------------------------------------------------
(***************************************************************************)
(* What rpk-config sends, and ConfigInterface::receive.                    *)
(***************************************************************************)
Sending == host.phase = "sending"
Receiving == ~ ci.answering
Rest == host.len - host.sent

Open(len) ==
  /\ ~ Sending /\ Receiving /\ host.id < MAX_UPLOADS
  /\ host' = [id |-> host.id + 1, len |-> len, sent |-> 0, phase |-> "sending",
              clean |-> ci.fw = NoWriter]
  /\ ci' = [ci EXCEPT !.rcv_state = "ConfigData"]
  /\ UNCHANGED <<disk, ctl_sig, active, missed>>

Data ==
  /\ Sending /\ Receiving /\ Rest >= PACKET
  /\ LET s == FileWrite(Places(host, PACKET))
     IN ci' = [ci EXCEPT !.fw = s.fw] /\ disk' = s.disk
  /\ host' = [host EXCEPT !.sent = @ + PACKET]
  /\ UNCHANGED <<ctl_sig, active, missed>>

\* The last message has what is left.  The writer, which still waits for what is not sent,
\* is taken and dropped.
Close ==
  /\ Sending /\ Receiving /\ Rest < PACKET
  /\ LET s == FileWrite(Places(host, Rest))
     IN /\ IF s.fw = NoWriter THEN UNCHANGED <<ctl_sig, missed>>
           ELSE ctl_sig' = LoadLayout(s.fw.location) /\ missed' = FALSE
        /\ disk' = CloseFile(s).disk
  /\ ci' = [ci EXCEPT !.rcv_state = "Idle", !.fw = NoWriter]
  /\ host' = [host EXCEPT !.sent = host.len, !.phase = "sent"]
  /\ UNCHANGED active

\* The tool is stopped before it is done.
Abort ==
  /\ Sending
  /\ host' = [host EXCEPT !.phase = "aborted"]
  /\ UNCHANGED <<ci, disk, ctl_sig, active, missed>>

\* The list of the files, or the time since the start, is asked for.  The reader is open until the answer is sent;
\* in the middle of an upload the message is unexpected.
ReadFileByIndex ==
  /\ ~ Sending /\ Receiving
  /\ IF ci.rcv_state = "ConfigData"
     THEN ci' = [ci EXCEPT !.rcv_state = "Idle"] /\ UNCHANGED disk
     ELSE /\ ci' = [ci EXCEPT !.answering = TRUE]
          /\ disk' = IF disk.writer \/ disk.files = << >> THEN disk
                     ELSE [disk EXCEPT !.read_counter = @ + 1]
  /\ UNCHANGED <<host, ctl_sig, active, missed>>

AnswerSent ==
  /\ ci.answering
  /\ ci' = [ci EXCEPT !.answering = FALSE]
  /\ disk' = [disk EXCEPT !.read_counter = 0]
  /\ UNCHANGED <<host, ctl_sig, active, missed>>

-----------------------------------------------------------------------------
(***************************************************************************)
(* The mapper and its loader, the timer, the power.                        *)
(***************************************************************************)
\* The file is all of one upload, and as it was erased where nothing was sent.
Whole(file) ==
  LET first == file.words[0]
  IN /\ first # NoData /\ first[3] = Cardinality(DOMAIN file.words)
     /\ \A i \in DOMAIN file.words :
          file.words[i] = IF i < first[3] - UNSENT THEN <<first[1], i, first[3]>> ELSE NoData

\* The layouts that loading from a location may come to.  What is not a whole file is
\* refused, which brings back the layout in the firmware, or taken for what it is not.
Loaded(location) ==
  LET found == {i \in DOMAIN disk.files : disk.files[i].start = location /\ Whole(disk.files[i])}
  IN IF found = {} THEN {BuiltIn, Garbage} ELSE {disk.files[i].words[0][1] : i \in found}

\* The file cannot be read while the next is written: the mapper goes on as it was.
Load ==
  /\ ctl_sig.msg = "LoadLayout"
  /\ IF disk.writer THEN missed' = TRUE /\ UNCHANGED active
     ELSE /\ active' \in Loaded(ctl_sig.file_location)
          /\ missed' = (ctl_sig.file_location = 0)
  /\ ctl_sig' = NoSignal
  /\ UNCHANGED <<host, ci, disk>>

CheckTime ==
  /\ ctl_sig = TimerExpired
  /\ ctl_sig' = NoSignal
  /\ UNCHANGED <<host, ci, disk, active, missed>>

\* A signal that was not taken yet is replaced.
TimerExpires ==
  /\ ctl_sig' = TimerExpired
  /\ missed' = (missed \/ ctl_sig.msg = "LoadLayout")
  /\ UNCHANGED <<host, ci, disk, active>>

\* Mutant: index 0 is the oldest file.
Oldest == Head(disk.files).start

\* The file with index 0.
Newest == Last(disk.files).start

Restart ==
  /\ host' = [host EXCEPT !.phase = IF Sending THEN "aborted" ELSE @]
  /\ ci' = [rcv_state |-> "Idle", fw |-> NoWriter, answering |-> FALSE]
  /\ disk' = [disk EXCEPT !.writer = FALSE, !.read_counter = 0]
  /\ active' \in IF disk.files = << >> THEN {BuiltIn} ELSE Loaded(Newest)
  /\ ctl_sig' = NoSignal /\ missed' = FALSE

Next ==
  \/ \E len \in Lengths : Open(len)
  \/ Data \/ Close \/ Abort
  \/ ReadFileByIndex \/ AnswerSent
  \/ Load \/ CheckTime \/ TimerExpires
  \/ Restart

Spec == Init /\ [][Next]_vars

-----------------------------------------------------------------------------
\* NorflashRingFs counts its users apart from their descriptors.  The count agrees with
\* them, and no file is read while one is written, so that a file is never deleted and
\* erased under a reader (create_file, file_reader_by_offset, close_file).
Locks ==
  /\ disk.writer <=> ci.fw.state = "writer"
  /\ disk.read_counter > 0 => ci.answering /\ ~ disk.writer

\* An upload that nobody disturbed, begun with no writer left over, is the newest file
\* when rpk-config is done: all that was sent is in its place, though the file was said to be
\* longer and is closed before its end (receive, file_write).
UploadStored ==
  host.phase = "sent" /\ host.clean /\ Declared(host) <= SIZE =>
    LET file == Last(disk.files)
    IN disk.files # << >> /\ Whole(file) /\ file.words[0] = <<host.id, 0, Declared(host)>>

\* When no upload is under way and no LoadLayout is pending, the keyboard uses what it
\* would use after a restart.  A LoadLayout can come to nothing in three ways only: the
\* timer's message replaces it, the next upload is writing already, or there was no file.
ActiveNewest ==
  ci.fw = NoWriter /\ ctl_sig.msg # "LoadLayout" /\ ~ missed /\ disk.files # << >>
    /\ Whole(Last(disk.files))
    => active = Last(disk.files).words[0][1]

\* Uploads are a use of the log of files: what is written only ever goes into the newest
\* file, also when an upload goes on in the file of the one that was aborted.
Files == INSTANCE FileLog WITH files <- disk.files
StoreIsLog == Files!Spec
=============================================================================
