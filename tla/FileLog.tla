------------------------------ MODULE FileLog ------------------------------
(***************************************************************************)
(* What the file system promises: a log of files.  A file is added at its  *)
(* end and filled there; files are forgotten from its beginning, also when *)
(* one is added; nothing else ever happens to a file.                      *)
(***************************************************************************)
EXTENDS Sequences, SequencesExt

VARIABLE files   \* the files, [start, words], oldest first

Init == files = << >>

Forget == IsSuffix(files', files)

Add == files' # << >> /\ IsSuffix(Front(files'), files)

\* Data is written to the newest file; its place and its length stay.
Fill ==
  /\ files # << >> /\ Len(files') = Len(files)
  /\ Front(files') = Front(files)
  /\ Last(files').start = Last(files).start
  /\ DOMAIN Last(files').words = DOMAIN Last(files).words

Next == Forget \/ Add \/ Fill

Spec == Init /\ [][Next]_files
=============================================================================
