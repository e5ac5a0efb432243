------------------------------ MODULE MouseOps ------------------------------
(***************************************************************************)
(* The mouse keys of the mapper (rpk-firmware/src/mapper/mouse.rs).  While *)
(* a movement key is down, what the axes moved is reported every 16 ms.    *)
(*                                                                         *)
(* A mouse m has the fields                                                *)
(*   keys             the buttons that are down                            *)
(*   start, delta, fraction   of each axis: when it started to move, in    *)
(*                    ms since first (0: it rests), the direction, and the *)
(*                    part of a tick that is not reported yet              *)
(*   count            down_count, the movement keys that are down          *)
(*   first, last      first_down_time (0: none) and last_report_time, in   *)
(*                    ms since first                                       *)
(*   profile          the acceleration profile in use                      *)
(* An axis moves at the speed its curve ends with; the curve is left out.  *)
(***************************************************************************)
EXTENDS Integers

CONSTANT MOUSE_REPORT_TIME   \* milliseconds from report to report, 16 in the code

ASSUME MouseAssumption == MOUSE_REPORT_TIME \in Nat \ {0}

Axes == 0..3                 \* x, y, and the two of the wheel
MOUSE_DELTA == 8
MOUSE_ACCEL == 16
NoEvent == 1000000           \* u64::MAX, later than any time

Idle == [a \in Axes |-> 0]
NoMouse == [keys |-> {}, start |-> Idle, delta |-> Idle, fraction |-> Idle,
            count |-> 0, first |-> 0, last |-> 0, profile |-> 1]

\* The clearing of all keys leaves the profile alone.
MouseCleared(m) == [NoMouse EXCEPT !.profile = m.profile]

Button(m, code, is_down) == [m EXCEPT !.keys = IF is_down THEN @ \cup {code} ELSE @ \ {code}]

\* The key of an axis and a direction: the last one pressed decides.
Axis(code) == (code - MOUSE_DELTA) \div 2
Direction(code) == IF code % 2 = 0 THEN -1 ELSE 1

Steer(m, a, d, is_down) ==
  CASE is_down -> [m EXCEPT !.delta[a] = d]
    [] ~ is_down /\ m.start[a] # 0 /\ m.delta[a] = d -> [m EXCEPT !.start[a] = 0]
    [] OTHER -> m

FirstDown(m, now) == IF m.count = 0 THEN [m EXCEPT !.first = now - 1, !.last = 0] ELSE m

\* Mutant: when the first key went down is forgotten with every release.
CountForgets(m, a, is_down, now) ==
  CASE is_down /\ m.count < 4 ->
         LET m1 == FirstDown(m, now) IN [m1 EXCEPT !.count = @ + 1, !.start[a] = now - m1.first]
    [] is_down /\ m.count >= 4 -> m
    [] ~ is_down -> [m EXCEPT !.count = IF @ > 1 THEN @ - 1 ELSE 0, !.first = 0]

\* No more than four keys are counted, but every release is.
Count(m, a, is_down, now) ==
  CASE is_down /\ m.count < 4 ->
         LET m1 == FirstDown(m, now) IN [m1 EXCEPT !.count = @ + 1, !.start[a] = now - m1.first]
    [] is_down /\ m.count >= 4 -> m
    [] ~ is_down /\ m.count > 1 -> [m EXCEPT !.count = @ - 1]
    [] ~ is_down /\ m.count <= 1 -> [m EXCEPT !.first = 0, !.count = 0]

Move(m, code, is_down, now) ==
  Count(Steer(m, Axis(code), Direction(code), is_down), Axis(code), is_down, now)

\* Quarters of a tick per millisecond, of movement and of scrolling.
Speed(profile, a) == IF a < 2 THEN <<4, 12, 20>>[profile + 1] ELSE <<1, 2, 4>>[profile + 1]

\* What an axis moved in a period, in quarters of a tick; only whole ticks are reported.
Moved(m, a, period) ==
  IF m.start[a] = 0 THEN 0
  ELSE (IF Speed(m.profile, a) * period > 508 THEN 508 ELSE Speed(m.profile, a) * period) + m.fraction[a]

Ticks(m, a, period) == m.delta[a] * (Moved(m, a, period) \div 4)

\* pending_events: the ticks of each axis are reported and the rest is kept.
Pending(m, now) ==
  LET period == (now - m.first) - m.last
  IN [ticks |-> [a \in Axes |-> Ticks(m, a, period)],
      mouse |-> [m EXCEPT !.last = now - m.first,
                          !.fraction = [a \in Axes |-> IF m.start[a] = 0 THEN @[a]
                                                       ELSE Moved(m, a, period) % 4]]]

\* next_event_time
NextEventTime(m) == IF m.first = 0 THEN NoEvent ELSE m.last + MOUSE_REPORT_TIME + m.first
=============================================================================
