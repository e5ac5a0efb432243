------------------------------- MODULE RingFs -------------------------------
(***************************************************************************)
(* The file system as it is used: one file is written at a time, in        *)
(* chunks; the power fails, also between two commands of the flash, and    *)
(* comes back.  RingFsOps has the operations.                              *)
(***************************************************************************)
EXTENDS RingFsOps

CONSTANTS
  Lengths,   \* the lengths of the files, in words, their length word included
  CHUNK,     \* how many words are written at once
  Windows    \* when the power may fail, see below

VARIABLES
  fs,        \* NorflashRingFsInner and the flash
  fw         \* the file descriptor of the writer

vars == <<fs, fw>>

\* Between two calls.
Idle(f) == [f EXCEPT !.images = << >>, !.ok = TRUE]

NoDesc == [state |-> "closed", location |-> 0, len |-> 0, offset |-> 0]

Init == fs = Idle(Mount([a \in 0..(SIZE - 1) |-> FREE])) /\ fw = NoDesc

Closed(desc) == desc.state = "closed"

\* Where the i-th word of a file is: a file that passes the end of the flash goes on
\* behind the word at FIRST_FILE_OFFSET.
WordAt(location, i) ==
  IF location + i < SIZE THEN location + i ELSE location + i - SIZE + FIRST_FILE_OFFSET + 1

(***************************************************************************)
(* write_file.                                                             *)
(***************************************************************************)
\* Words i..j-1 of the file, in one or two writes.
WriteWords(f, location, words) ==
  LET at == {WordAt(location, i) : i \in DOMAIN words}
      Part(here) == [a \in at \cap here |->
                       words[CHOOSE i \in DOMAIN words : WordAt(location, i) = a]]
      WritePart(g, part) == IF part = << >> THEN g ELSE Write(g, part)
  IN WritePart(WritePart(f, Part(location..(SIZE - 1))), Part(0..(location - 1)))

\* Room for the file, its length and its entry.
Allocate(g, len) ==
  Commit(WriteU32(WriteU32(FreeSpace(g, len), g.free_index, len), g.next_file_index - 1, g.free_index))

TooLarge(len) == len > SIZE - 1 - FIRST_FILE_OFFSET

\* The state after a call that did these commands and left this descriptor.
Done(f, desc) ==
  /\ fs' = Idle(f)
  /\ fw' = IF ~ f.ok \/ desc.offset >= desc.len THEN NoDesc ELSE desc

(***************************************************************************)
(* Power failures.  Windows says when the power may fail:                  *)
(*   "idle"     between two calls                                          *)
(*   "recycle"  between two commands that recycle the directory            *)
(*   "room"     ... that make room for a file                              *)
(*   "length"   when its length is written and its entry is not            *)
(*   "data"     between two commands that write the file                   *)
(* and which of the states that the code cannot go on from are left in:    *)
(*   "header"   the first block is erased and has no header yet            *)
(*   "seam"     the newest file ends at the end of the flash, see AtSeam   *)
(***************************************************************************)
\* FindFreeIndex does not find the free space behind a file that ends in the last page
\* of the flash, or whose last word would be the first of a page if it had not to go
\* round the word at FIRST_FILE_OFFSET.
AtSeam(f) ==
  LET start == ReadU32(f, f.next_file_index - 1)
      end == start + ReadU32(f, start)
  IN /\ f.ok /\ f.next_file_index > PREAMBLE_LEN
     /\ end > SIZE - PAGE_SIZE /\ (end <= SIZE \/ (end - SIZE) % PAGE_SIZE = 0)

MayLookForSpace(f) == "seam" \in Windows \/ ~ AtSeam(f)

\* The power fails and comes back, and may do so once more while the file system is
\* mounted.
Reboot(flash) ==
  /\ "header" \in Windows \/ HasHeader(flash, DIR_SIZE)
  /\ \E m \in {Mount(flash)} :
       /\ MayLookForSpace(m)
       /\ fs' = Idle(m) \/ \E i \in DOMAIN m.images : fs' = Idle(Mount(m.images[i]))
  /\ fw' = NoDesc

\* ... after one of these commands.
FailsAfter(f, window, indices) ==
  /\ window \in Windows
  /\ \E i \in indices : Reboot(f.images[i])

\* The words of a file: its length, and data that is the file's own.
Words(desc, n) ==
  [i \in desc.offset..(desc.offset + n - 1) |-> IF i = 0 THEN desc.len ELSE FREE \div 4 + desc.location]

Rest(desc) == Min({CHUNK, desc.len - desc.offset})

Writing == ~ Closed(fw)

\* The directory is full and a file is added.
MayRecycle == fs.next_file_index >= DIR_SIZE - 1 => MayLookForSpace(fs)

\* create_file
Create ==
  /\ Closed(fw)
  /\ fw' = [NoDesc EXCEPT !.state = "writer"]
  /\ UNCHANGED fs

\* A file that is too large is refused, and the writer closed.
WriteTooLarge(len) ==
  /\ Writing /\ fw.location = 0 /\ TooLarge(len)
  /\ fw' = NoDesc
  /\ UNCHANGED fs

\* The first write has the length of the file.
WriteFirst(len) ==
  /\ Writing /\ fw.location = 0 /\ ~ TooLarge(len)
  /\ MayRecycle
  /\ \E g \in {NextFileIndex(fs)} : \E h \in {Allocate(g, len)} :
     LET desc == [fw EXCEPT !.location = g.free_index, !.len = len]
     IN \E f \in {WriteWords(h, desc.location, Words(desc, Rest(desc)))} :
          \/ Done(f, [desc EXCEPT !.offset = Rest(desc)])
          \/ Done(h, NoDesc)   \* more data than the file's length: FileOverrun
          \/ FailsAfter(f, "recycle", 1..Len(g.images))
          \/ FailsAfter(f, "room", (Len(g.images) + 1)..(Len(h.images) - 2))
          \/ FailsAfter(f, "length", {Len(h.images) - 1})
          \/ FailsAfter(f, "data", Len(h.images)..(Len(f.images) - 1))

WriteMore ==
  /\ Writing /\ fw.location # 0
  /\ \E f \in {WriteWords(fs, fw.location, Words(fw, Rest(fw)))} :
       \/ Done(f, [fw EXCEPT !.offset = @ + Rest(fw)])
       \/ FailsAfter(f, "data", 1..(Len(f.images) - 1))

\* More data than is left of the file: the writer is closed.
WriteOverrun ==
  /\ Writing /\ fw.location # 0
  /\ fw' = NoDesc
  /\ UNCHANGED fs

\* The writer is dropped, maybe before the file is complete.
DropWriter ==
  /\ Writing
  /\ fw' = NoDesc
  /\ UNCHANGED fs

PowerCut == "idle" \in Windows /\ Reboot(fs.flash)

Next ==
  \/ Create
  \/ \E len \in Lengths : WriteFirst(len) \/ WriteTooLarge(len)
  \/ WriteMore
  \/ WriteOverrun
  \/ DropWriter
  \/ PowerCut

Spec == Init /\ [][Next]_vars

-----------------------------------------------------------------------------
(***************************************************************************)
(* Properties.                                                             *)
(***************************************************************************)
\* The files file_reader and read_file find, the oldest one first.  Where they fail to
\* read is a word that is erased; a file is not longer than the flash.
FileSeq ==
  LET Word(a) == IF Readable(a) THEN ReadU32(fs, a) ELSE FREE
  IN [i \in 1..(fs.next_file_index - fs.oldest_file_index) |->
        LET start == Word(fs.oldest_file_index + i - 1)
        IN [start |-> start,
            words |-> [j \in 0..Min({Word(start) - 1, SIZE}) |-> Word(WordAt(start, j))]]]

Files == INSTANCE FileLog WITH files <- FileSeq

\* The file system is a log of files, whatever is written and whenever the power fails:
\* write_file, clear_space, recycle_dir_page and new() neither change nor lose a file
\* behind the back of a newer one, and bring none back.
FilesKept == Files!Spec

\* Once there is a file there is one: making room for the next file (clear_space) and
\* recycling the directory (rebuild_dir) leave the newest in place until the next one
\* has its entry, so that the keyboard comes up with some configuration.
NewestKept == [][FileSeq # << >> => FileSeq' # << >>]_vars

\* free_space returns a place that is erased up to the end of its block, so that a write,
\* which can only clear bits, stores what it is given; at most the mark of the ring's end
\* is there, and every length fits into it.
FreeIsErased ==
  \A a \in fs.free_index..(align_start_erase(fs.free_index) + ERASE_SIZE - 1) :
    fs.flash[a] = FREE \/ (a = fs.free_index /\ fs.flash[a] = RING_END)

\* The files follow each other in the store as they do in the directory, and the free
\* space follows the last: next_file_offset, which rebuild_dir walks the store with,
\* agrees with where free_space put the files.
Chained ==
  \A i \in DOMAIN FileSeq :
    LET start == FileSeq[i].start
    IN AfterFile(start, ReadU32(fs, start)) =
         IF i = Len(FileSeq) THEN fs.free_index ELSE FileSeq[i + 1].start

\* The flash alone tells where to go on: new() finds the indices that the running file
\* system had (init_dir_indices and find_free_index), but for the seam.
Remounts ==
  LET m == Mount(fs.flash)
  IN ~ AtSeam(fs) =>
       /\ m.next_file_index = fs.next_file_index
       /\ m.oldest_file_index = fs.oldest_file_index
       /\ m.free_index = fs.free_index
=============================================================================
