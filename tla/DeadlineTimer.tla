--------------------------- MODULE DeadlineTimer ---------------------------
(***************************************************************************)
(* How the mapper is woken: MapperTimer, and the mapper as the timer sees  *)
(* it.  They talk through two signals of one value each, in which a later  *)
(* value replaces an earlier one; ConfigInterface writes to the second one *)
(* as well.  Mapper implements this (WakesAsPromised there), whatever its  *)
(* handlers do between two calls of set_wait_time.                         *)
(*                                                                         *)
(* Time is left out: a deadline may pass as soon as it is set.             *)
(***************************************************************************)
EXTENDS Integers, TLAPS

CONSTANTS
  NEVER,      \* u64::MAX and Instant::MAX, later than any time
  NoSignal,   \* nothing in at_sig
  Deadlines   \* the times a deadline may be at, and NEVER

\* What the theorems assume of them.
DeadlineKinds == NEVER \in Deadlines /\ NoSignal \notin Deadlines

VARIABLES
  waiting,      \* something is undecided that only a deadline decides
  wait_time,    \* Mapper.wait_time, the deadline the mapper asked for last
  at_sig,       \* the deadline on its way to the timer, or NoSignal
  expires_at,   \* the deadline of the timer
  ctl_sig       \* the message on its way to the mapper: "none", "timer_expired" or "load_layout"

mapper == <<waiting, wait_time>>
vars == <<mapper, at_sig, expires_at, ctl_sig>>

Init ==
  /\ waiting = FALSE /\ wait_time = NEVER
  /\ at_sig = NoSignal /\ expires_at = NEVER /\ ctl_sig = "none"

\* A handler calls set_wait_time, and what it leaves undecided has a deadline.  The last
\* call decides what is in at_sig; it tells the timer also of a deadline that is the same.
SetWaitTime ==
  /\ wait_time' \in Deadlines /\ at_sig' = wait_time'
  /\ waiting' \in {FALSE, wait_time' # NEVER}

\* The handler of a key, a memo or a macro step.
Asks == SetWaitTime /\ UNCHANGED <<expires_at, ctl_sig>>

\* A handler may decide everything and not tell the timer.
Decides == waiting' = FALSE /\ UNCHANGED <<wait_time, at_sig, expires_at, ctl_sig>>

\* check_time: the mapper looks at its deadlines again and asks for the next one, unless
\* it waits for none.
CheckTime ==
  /\ ctl_sig = "timer_expired" /\ ctl_sig' = "none"
  /\ \/ SetWaitTime
     \/ wait_time = NEVER /\ UNCHANGED <<mapper, at_sig>>
  /\ UNCHANGED expires_at

\* A new layout: everything is cleared.
LoadLayout ==
  /\ ctl_sig = "load_layout" /\ ctl_sig' = "none"
  /\ waiting' = FALSE /\ UNCHANGED <<wait_time, at_sig, expires_at>>

\* ConfigInterface has stored a layout: its message replaces another.
LayoutStored == ctl_sig' = "load_layout" /\ UNCHANGED <<mapper, at_sig, expires_at>>

\* The timer takes what it was told.
TimerSet ==
  /\ at_sig # NoSignal
  /\ expires_at' = at_sig /\ at_sig' = NoSignal
  /\ UNCHANGED <<mapper, ctl_sig>>

\* The deadline has passed.
TimerExpires ==
  /\ expires_at # NEVER
  /\ expires_at' = NEVER /\ ctl_sig' = "timer_expired"
  /\ UNCHANGED <<mapper, at_sig>>

Next ==
  \/ Asks \/ Decides \/ CheckTime \/ LoadLayout
  \/ LayoutStored
  \/ TimerSet \/ TimerExpires

Spec == Init /\ [][Next]_vars

-----------------------------------------------------------------------------
\* Every value is one of its kind.
TypeOK ==
  /\ waiting \in BOOLEAN
  /\ wait_time \in Deadlines /\ expires_at \in Deadlines
  /\ at_sig \in Deadlines \cup {NoSignal}
  /\ ctl_sig \in {"none", "timer_expired", "load_layout"}

\* No wake-up is lost: while something is undecided the deadline the mapper asked for is on
\* its way to the timer, or with the timer and nothing on its way that would replace it, or
\* a message is on its way back that makes the mapper look, or clears everything
\* (set_wait_time, MapperTimer::run, ControlSignal).
WakeComing ==
  waiting => /\ wait_time # NEVER
             /\ \/ at_sig = wait_time
                \/ at_sig = NoSignal /\ expires_at = wait_time
                \/ ctl_sig # "none"

\* The timer does not run for a deadline that was withdrawn: what is on its way is what the
\* mapper asked for last, and with nothing on its way the timer runs for that or not at all
\* (MapperTimer::run).
NoStaleDeadline ==
  /\ at_sig \in {NoSignal, wait_time}
  /\ at_sig = NoSignal => expires_at \in {wait_time, NEVER}

-----------------------------------------------------------------------------
(***************************************************************************)
(* The theorems, for every set of deadlines.                               *)
(***************************************************************************)
\* Every value of the timer and its signals is one of its kind.
THEOREM TypeCorrect == ASSUME DeadlineKinds PROVE Spec => []TypeOK
<1> USE DEF DeadlineKinds
<1>1. Init => TypeOK  BY DEF Init, TypeOK
<1>2. TypeOK /\ [Next]_vars => TypeOK'
  <2> SUFFICES ASSUME TypeOK, [Next]_vars PROVE TypeOK'  OBVIOUS
  <2> USE DEF TypeOK
  <2>1. CASE Asks  BY <2>1 DEF Asks, SetWaitTime
  <2>2. CASE Decides  BY <2>2 DEF Decides
  <2>3. CASE CheckTime  BY <2>3 DEF CheckTime, SetWaitTime, mapper
  <2>4. CASE LoadLayout  BY <2>4 DEF LoadLayout
  <2>5. CASE LayoutStored  BY <2>5 DEF LayoutStored, mapper
  <2>6. CASE TimerSet  BY <2>6 DEF TimerSet, mapper
  <2>7. CASE TimerExpires  BY <2>7 DEF TimerExpires, mapper
  <2>8. CASE UNCHANGED vars  BY <2>8 DEF vars, mapper
  <2> QED BY <2>1, <2>2, <2>3, <2>4, <2>5, <2>6, <2>7, <2>8 DEF Next
<1> QED BY <1>1, <1>2, PTL DEF Spec

\* No wake-up is lost, whatever the handlers of the mapper do between two calls of
\* set_wait_time and whenever a stored layout replaces the message of the timer.
THEOREM WakesComing == ASSUME DeadlineKinds PROVE Spec => []WakeComing
<1> USE DEF DeadlineKinds
<1>1. Init => WakeComing  BY DEF Init, WakeComing
<1>2. TypeOK /\ WakeComing /\ [Next]_vars => WakeComing'
  <2> SUFFICES ASSUME TypeOK, WakeComing, [Next]_vars PROVE WakeComing'  OBVIOUS
  <2> USE DEF TypeOK, WakeComing
  <2>1. CASE Asks  BY <2>1 DEF Asks, SetWaitTime
  <2>2. CASE Decides  BY <2>2 DEF Decides
  <2>3. CASE CheckTime
    \* The mapper asked anew, or it waits for no deadline and so nothing is undecided.
    <3>1. CASE SetWaitTime  BY <2>3, <3>1 DEF CheckTime, SetWaitTime
    <3>2. CASE wait_time = NEVER /\ UNCHANGED <<mapper, at_sig>>  BY <3>2 DEF mapper
    <3> QED BY <2>3, <3>1, <3>2 DEF CheckTime
  <2>4. CASE LoadLayout  BY <2>4 DEF LoadLayout
  <2>5. CASE LayoutStored  BY <2>5 DEF LayoutStored, mapper
  <2>6. CASE TimerSet  BY <2>6 DEF TimerSet, mapper
  <2>7. CASE TimerExpires  BY <2>7 DEF TimerExpires, mapper
  <2>8. CASE UNCHANGED vars  BY <2>8 DEF vars, mapper
  <2> QED BY <2>1, <2>2, <2>3, <2>4, <2>5, <2>6, <2>7, <2>8 DEF Next
<1> QED BY <1>1, <1>2, TypeCorrect, PTL DEF Spec

\* The timer never runs for a deadline that was withdrawn once it has taken what it was told.
THEOREM DeadlinesWanted == ASSUME DeadlineKinds PROVE Spec => []NoStaleDeadline
<1> USE DEF DeadlineKinds
<1>1. Init => NoStaleDeadline  BY DEF Init, NoStaleDeadline
<1>2. TypeOK /\ NoStaleDeadline /\ [Next]_vars => NoStaleDeadline'
  <2> SUFFICES ASSUME TypeOK, NoStaleDeadline, [Next]_vars PROVE NoStaleDeadline'  OBVIOUS
  <2> USE DEF TypeOK, NoStaleDeadline
  <2>1. CASE Asks  BY <2>1 DEF Asks, SetWaitTime
  <2>2. CASE Decides  BY <2>2 DEF Decides
  <2>3. CASE CheckTime  BY <2>3 DEF CheckTime, SetWaitTime, mapper
  <2>4. CASE LoadLayout  BY <2>4 DEF LoadLayout
  <2>5. CASE LayoutStored  BY <2>5 DEF LayoutStored, mapper
  <2>6. CASE TimerSet  BY <2>6 DEF TimerSet, mapper
  <2>7. CASE TimerExpires  BY <2>7 DEF TimerExpires, mapper
  <2>8. CASE UNCHANGED vars  BY <2>8 DEF vars, mapper
  <2> QED BY <2>1, <2>2, <2>3, <2>4, <2>5, <2>6, <2>7, <2>8 DEF Next
<1> QED BY <1>1, <1>2, TypeCorrect, PTL DEF Spec
=============================================================================
