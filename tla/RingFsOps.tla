----------------------------- MODULE RingFsOps -----------------------------
(***************************************************************************)
(* The file system of NorflashRingFs: a directory of file addresses at the *)
(* start of a NOR flash and a ring of files behind it.  Addresses and      *)
(* lengths are in words of four bytes.  An erased word is all ones and     *)
(* writing can only clear bits.                                            *)
(*                                                                         *)
(* The operators take and return the file system as a record: its RAM, the *)
(* flash, and in `images` what the flash was after each command, for the   *)
(* power may fail between any two of them.  After a command that the flash *)
(* refuses (`ok` is false) nothing more is done, as `?` does.              *)
(***************************************************************************)
EXTENDS Integers, Sequences, SequencesExt, FiniteSets, FiniteSetsExt, Bitwise, TLC

CONSTANTS
  SIZE,        \* size of the flash
  DIR_SIZE,    \* size of the directory in front of it
  ERASE_SIZE,  \* what is erased at once
  PAGE_SIZE,   \* what write_u32 collects before it writes
  MAX_FILES,   \* one more than the files that are kept
  FREE,        \* an erased word, 2^n - 1
  HEADER,      \* a word of the header
  END_PAGE     \* END_PAGE_PATTERN

RING_END == FREE \div 2
PREAMBLE_LEN == 3

align_start_erase(a) == a - (a % ERASE_SIZE)
align_start_page(a) == a - (a % PAGE_SIZE)
align_next_page(a) == align_start_page(a + PAGE_SIZE - 1)

FIRST_FILE_OFFSET == align_next_page(DIR_SIZE + PREAMBLE_LEN)

\* assert_fs_params, and the formula build.rs has for DIR_SIZE.
ASSUME ParamsAssumption ==
  /\ PAGE_SIZE > 0 /\ ERASE_SIZE % PAGE_SIZE = 0
  /\ SIZE % ERASE_SIZE = 0 /\ DIR_SIZE % ERASE_SIZE = 0
  /\ DIR_SIZE >= MAX_FILES + PREAMBLE_LEN + 2
  /\ FREE > 2 * SIZE

\* What new() starts from.
NewFs(flash) ==
  [flash |-> flash, images |-> << >>, ok |-> TRUE, cache |-> << >>,
   next_file_index |-> PREAMBLE_LEN, oldest_file_index |-> PREAMBLE_LEN,
   free_index |-> FIRST_FILE_OFFSET]

(***************************************************************************)
(* Words.  write_u32 collects the words of one page in a cache.            *)
(***************************************************************************)
Readable(a) == a \in 0..(SIZE - 1)

Fail(fs) == [fs EXCEPT !.ok = FALSE]

\* The operator `?`.
Then(fs, Op(_)) == IF fs.ok THEN Op(fs) ELSE fs

Cleared(old, new) ==
  IF old = FREE THEN new ELSE IF new \in {FREE, old} THEN old ELSE old & new

Store(fs, flash) == [fs EXCEPT !.flash = flash, !.images = Append(@, flash)]

\* Write words, a function from addresses, straight to the flash.
Program(fs, words) ==
  LET Clear(f) == Store(f, [a \in DOMAIN words |-> Cleared(f.flash[a], words[a])] @@ f.flash)
  IN Then(IF \A a \in DOMAIN words : Readable(a) THEN fs ELSE Fail(fs), Clear)

Commit(fs) ==
  IF ~ fs.ok \/ fs.cache = << >> THEN fs ELSE [Program(fs, fs.cache) EXCEPT !.cache = << >>]

Write(fs, words) == Program(Commit(fs), words)

SamePage(fs, a) == fs.cache # << >> /\ align_start_page(a) = align_start_page(Min(DOMAIN fs.cache))

WriteU32(fs, a, w) ==
  LET Collect(f) ==
        [f EXCEPT !.cache = [b \in DOMAIN f.cache \cup {a} |-> IF b = a THEN w ELSE f.cache[b]]]
  IN Then(IF SamePage(fs, a) THEN fs ELSE Commit(fs), Collect)

\* Erase blocks, one after the other.
RECURSIVE EraseBlocks(_, _, _)
EraseBlocks(fs, from, to) ==
  IF from >= to THEN fs
  ELSE EraseBlocks(Store(fs, [a \in from..(from + ERASE_SIZE - 1) |-> FREE] @@ fs.flash),
                   from + ERASE_SIZE, to)

Erase(fs, from, to) ==
  Then(Commit(fs), LAMBDA f : IF to > SIZE THEN Fail(f) ELSE EraseBlocks(f, from, to))

\* read_u32; outside of the flash it fails, which Readable tells beforehand.
ReadU32(fs, a) == IF a \in DOMAIN fs.cache THEN Cleared(fs.flash[a], fs.cache[a]) ELSE fs.flash[a]

(***************************************************************************)
(* The directory: entries oldest_file_index..next_file_index-1 are live.   *)
(***************************************************************************)
DeleteOldest(fs) ==
  IF fs.oldest_file_index < fs.next_file_index
  THEN Then(WriteU32(fs, fs.oldest_file_index, 0),
            LAMBDA f : [f EXCEPT !.oldest_file_index = @ + 1])
  ELSE fs

HeaderSequence(offset) == [a \in offset..(offset + PREAMBLE_LEN - 1) |-> HEADER]
HasHeader(flash, offset) == \A a \in DOMAIN HeaderSequence(offset) : flash[a] = HEADER
Formatted(fs, offset) == fs.flash[DIR_SIZE - 1] = END_PAGE /\ HasHeader(fs.flash, offset)

EndPage == [a \in {DIR_SIZE - 1} |-> END_PAGE]

CreateHeaderPage(fs, offset) ==
  LET WriteEnd(f) == IF offset = 0 THEN Write(f, EndPage) ELSE f
  IN WriteEnd(Write(Erase(fs, offset, IF offset = 0 THEN DIR_SIZE ELSE offset + ERASE_SIZE),
                    HeaderSequence(offset)))

\* Mutant: what is in the range is erased and not deleted.
DeleteNothing(fs, start, end) == fs

\* Delete the oldest files, as long as they start in the range.
RECURSIVE DeleteFrom(_, _, _)
DeleteFrom(fs, start, end) ==
  IF /\ fs.ok /\ fs.oldest_file_index < fs.next_file_index
     /\ ReadU32(fs, fs.oldest_file_index) \in start..(end - 1)
  THEN DeleteFrom(DeleteOldest(fs), start, end) ELSE fs

ClearSpace(fs, start, end) ==
  LET WriteHeader(f) == IF start = DIR_SIZE THEN Write(f, HeaderSequence(DIR_SIZE)) ELSE f
  IN WriteHeader(Erase(DeleteFrom(fs, start, end), start, end))

\* Where the file after one of this length starts.
AfterFile(offset, len) ==
  LET pend == align_next_page(offset + len)
  IN IF pend < SIZE THEN pend ELSE align_next_page(offset + len + 1 + FIRST_FILE_OFFSET - SIZE)

\* Mutant: the blocks the file reaches are not cleared.
FreeSpaceUncleared(fs, len) == [fs EXCEPT !.free_index = AfterFile(fs.free_index, len)]

\* Mutant: the free space is moved on without a look at the end of the flash.
FreeSpaceAhead(fs, len) == [fs EXCEPT !.free_index = align_next_page(@ + len)]

\* Make room for a file at free_index.
FreeSpace(fs, len) ==
  LET start == fs.free_index
      estart == align_start_erase(start) + ERASE_SIZE
      pend == align_next_page(start + len)
      wrapped == AfterFile(start, len)
      Ahead(f) == IF estart < SIZE THEN ClearSpace(f, estart, SIZE) ELSE f
      \* What is left of the file is skipped like a file.
      Skip(f) == IF wrapped > FIRST_FILE_OFFSET
                 THEN Commit(WriteU32(f, FIRST_FILE_OFFSET, wrapped - FIRST_FILE_OFFSET)) ELSE f
      SetFree(f) == [f EXCEPT !.free_index = wrapped]
  IN Then(IF align_start_erase(pend) < estart THEN fs
          ELSE IF pend < SIZE
          THEN ClearSpace(fs, estart, align_start_erase(pend) + ERASE_SIZE)
          ELSE Skip(ClearSpace(Ahead(fs), DIR_SIZE, align_start_erase(wrapped) + ERASE_SIZE)),
          SetFree)

\* Mutant: a file that passes the end of the flash is not taken into account.
FindFreeIndexUnwrapped(fs) ==
  IF fs.next_file_index = PREAMBLE_LEN THEN [fs EXCEPT !.free_index = FIRST_FILE_OFFSET]
  ELSE LET offset == ReadU32(fs, fs.next_file_index - 1)
       IN [fs EXCEPT !.free_index = align_next_page(offset + ReadU32(fs, offset))]

\* Where new() goes on: behind the newest file.
FindFreeIndex(fs) ==
  LET offset == ReadU32(fs, fs.next_file_index - 1)
      end == align_next_page(offset + ReadU32(fs, offset))
  IN IF ~ fs.ok THEN fs
     ELSE IF fs.next_file_index = PREAMBLE_LEN THEN [fs EXCEPT !.free_index = FIRST_FILE_OFFSET]
     ELSE IF ~ Readable(offset) THEN Fail(fs)
     ELSE [fs EXCEPT !.free_index = IF end > SIZE THEN end - SIZE + FIRST_FILE_OFFSET ELSE end]

next_page(offset) ==
  LET next == align_next_page(offset + PAGE_SIZE)
  IN IF next > SIZE THEN DIR_SIZE + PREAMBLE_LEN ELSE next

MarkAfter(offset) ==
  LET mark == align_start_erase(offset) + ERASE_SIZE
  IN IF mark >= SIZE THEN align_start_erase(FIRST_FILE_OFFSET) + ERASE_SIZE ELSE mark

NextFileOffset(fs, offset, len) ==
  CASE len = FREE -> next_page(offset)
    [] len = RING_END -> ReadU32(fs, MarkAfter(offset))
    [] OTHER -> AfterFile(offset, len)

\* Enter the files from offset on, up to the end of the ring.  A walk that leaves the
\* flash has failed; so has one that leaves the directory, which the code does not notice.
RECURSIVE EnterFiles(_, _)
EnterFiles(fs, offset) ==
  IF ~ fs.ok \/ ~ Readable(offset) \/ fs.next_file_index >= DIR_SIZE THEN Fail(fs)
  ELSE LET len == ReadU32(fs, offset)
       IN IF len = RING_END THEN fs
          ELSE EnterFiles([WriteU32(fs, fs.next_file_index, offset) EXCEPT !.next_file_index = @ + 1],
                          NextFileOffset(fs, offset, len))

\* next_file_index is set when the walk is done.
RebuildDir(fs, oldest) ==
  LET empty == [Erase(fs, 0, DIR_SIZE) EXCEPT !.oldest_file_index = PREAMBLE_LEN,
                                              !.next_file_index = PREAMBLE_LEN]
      Finish(f) == IF ~ f.ok THEN [f EXCEPT !.next_file_index = fs.next_file_index]
                   ELSE Write(Write(FindFreeIndex(f), HeaderSequence(0)), EndPage)
  IN Finish(EnterFiles(empty, oldest))

\* The directory is full: write the end of the ring and its start into the store, and
\* make a new directory from there.
RecycleDirPage(fs) ==
  LET next == align_start_erase(fs.free_index) + ERASE_SIZE
      last == next + ERASE_SIZE > SIZE
      estart == IF last THEN align_start_erase(FIRST_FILE_OFFSET) + ERASE_SIZE ELSE next
      Mark(f, oldest) ==
        RebuildDir(WriteU32(WriteU32(f, fs.free_index, RING_END), estart, oldest), oldest)
  IN Then(IF last
          THEN WriteU32(ClearSpace(fs, DIR_SIZE, estart + ERASE_SIZE), FIRST_FILE_OFFSET, RING_END)
          ELSE ClearSpace(fs, estart, estart + ERASE_SIZE),
          LAMBDA f : Mark(f, ReadU32(f, f.oldest_file_index)))

\* Mutant: every file is deleted before the next.
DeleteAll(fs) ==
  IF fs.ok THEN [fs EXCEPT !.oldest_file_index = fs.next_file_index] ELSE fs

\* The index of the next entry is next_file_index - 1 of the result.
RECURSIVE DeleteSurplus(_)
DeleteSurplus(fs) ==
  IF fs.ok /\ fs.next_file_index - fs.oldest_file_index + 1 >= MAX_FILES
  THEN DeleteSurplus(DeleteOldest(fs)) ELSE fs

NextFileIndex(fs) ==
  Then(DeleteSurplus(IF fs.next_file_index >= DIR_SIZE - 1 THEN RecycleDirPage(fs) ELSE fs),
       LAMBDA f : [f EXCEPT !.next_file_index = @ + 1])

(***************************************************************************)
(* Mounting.                                                               *)
(***************************************************************************)
\* Bisection for the first entry of start..end-1 that is free, and then for the first
\* that is not deleted, from live_start on.
RECURSIVE FirstFree(_, _, _, _)
FirstFree(fs, start, end, live_start) ==
  LET mid == (start + end) \div 2
      v == ReadU32(fs, PREAMBLE_LEN + mid)
  IN IF start >= end THEN <<start, live_start>>
     ELSE IF v = FREE THEN FirstFree(fs, start, mid, live_start)
     ELSE FirstFree(fs, mid + 1, end, IF v = 0 THEN mid + 1 ELSE live_start)

RECURSIVE FirstLive(_, _, _)
FirstLive(fs, live_start, end) ==
  LET mid == (live_start + end) \div 2
  IN IF live_start >= end THEN live_start
     ELSE IF ReadU32(fs, PREAMBLE_LEN + mid) # 0 THEN FirstLive(fs, live_start, mid)
     ELSE FirstLive(fs, mid + 1, end)

InitDirIndices(fs) ==
  LET free == FirstFree(fs, 0, DIR_SIZE - PREAMBLE_LEN - 1, 0)
  IN [fs EXCEPT !.next_file_index = PREAMBLE_LEN + free[1],
                !.oldest_file_index = PREAMBLE_LEN + FirstLive(fs, free[2], free[1])]

RecoverStoreFromDir(fs) ==
  Write(Erase(fs, DIR_SIZE, DIR_SIZE + ERASE_SIZE), HeaderSequence(DIR_SIZE))

\* Walk the store from its start to the end of the ring.
RECURSIVE RingEnd(_, _)
RingEnd(fs, offset) ==
  IF ~ Readable(offset) \/ ReadU32(fs, offset) \in {RING_END, FREE} THEN offset
  ELSE RingEnd(fs, align_next_page(offset + ReadU32(fs, offset)))

RecoverDirFromStore(fs) ==
  LET end == RingEnd(fs, FIRST_FILE_OFFSET)
  IN IF ReadU32(fs, FIRST_FILE_OFFSET) = FREE THEN CreateHeaderPage(fs, 0)
     ELSE IF Readable(end) /\ ReadU32(fs, end) = RING_END
     THEN RebuildDir(fs, NextFileOffset(fs, end, RING_END))
     ELSE Fail(fs)

Mount(flash) ==
  LET fs == NewFs(flash)
      dir == InitDirIndices(fs)
  IN IF Formatted(fs, 0)
     THEN IF Formatted(fs, DIR_SIZE) THEN FindFreeIndex(dir) ELSE RecoverStoreFromDir(dir)
     ELSE IF Formatted(fs, DIR_SIZE) THEN RecoverDirFromStore(fs)
     ELSE CreateHeaderPage(CreateHeaderPage(fs, 0), DIR_SIZE)
=============================================================================
