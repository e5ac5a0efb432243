----------------------------- MODULE EventQueue -----------------------------
(***************************************************************************)
(* What the mapper relies on the upper end of the layout memory for: key   *)
(* events and actions that are put off come back in the order they were    *)
(* put off, and a macro that was interrupted by another one resumes where  *)
(* it stopped.  Layout implements this in one shared array of words.       *)
(***************************************************************************)
EXTENDS Sequences

CONSTANT Idle       \* no macro runs
VARIABLES
  queue,            \* the memos that wait, oldest first
  running,          \* the macro that runs, or Idle
  frames            \* the macros it interrupted, innermost first, Idle last

vars == <<queue, running, frames>>

Init == queue = << >> /\ running = Idle /\ frames = << >>

\* Nothing is put off while a macro runs.
Defer(memo) ==
  /\ frames = << >>
  /\ queue' = Append(queue, memo)
  /\ UNCHANGED <<running, frames>>

Take ==
  /\ running = Idle /\ queue # << >>
  /\ queue' = Tail(queue)
  /\ UNCHANGED <<running, frames>>

Call(mac) ==
  /\ mac # Idle
  /\ running' = mac
  /\ frames' = <<running>> \o frames
  /\ UNCHANGED queue

Advance ==
  /\ running # Idle /\ running' # Idle
  /\ UNCHANGED <<queue, frames>>

Return ==
  /\ frames # << >>
  /\ running' = Head(frames) /\ frames' = Tail(frames)
  /\ UNCHANGED queue

Clear == queue' = << >> /\ running' = Idle /\ frames' = << >>

Next ==
  \/ queue' # << >> /\ Defer(queue'[Len(queue')])
  \/ Take
  \/ Call(running')
  \/ Advance
  \/ Return
  \/ Clear

Spec == Init /\ [][Next]_vars
=============================================================================
