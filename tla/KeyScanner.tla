----------------------------- MODULE KeyScanner -----------------------------
(***************************************************************************)
(* KeyScanner: the switches are looked at one after the other, a change is *)
(* reported at once and then given time to settle, and when all keys have  *)
(* been up for some scans the scanner waits for one to go down.  The       *)
(* scanner waits, in the middle of a scan, when the mapper does not take   *)
(* the events.                                                             *)
(*                                                                         *)
(* The byte of a key is a record: its counter (bits 7-2, Settled when they *)
(* are clear), bit 1 (reported) and bit 0 (actual).                        *)
(***************************************************************************)
EXTENDS Integers, Sequences

CONSTANTS
  KEYS,             \* how many keys there are
  Cycles,           \* the numbers of scans that the settle time may come to
  COUNT_BITS,       \* how many bits of the byte of a key count, 5 in the code
  IDLE_WAIT_COUNT,  \* scans with all keys up before the scanner waits
  BUFFER_SIZE,      \* of KeyScannerChannel
  MAX_MOVES         \* bound: how often a switch goes down or up

ASSUME ScannerAssumption ==
  /\ KEYS \in Nat /\ COUNT_BITS \in Nat /\ MAX_MOVES \in Nat
  /\ IDLE_WAIT_COUNT \in Nat \ {0} /\ BUFFER_SIZE \in Nat \ {0}
  /\ Cycles \subseteq Nat \ {0}

VARIABLES
  switch,    \* the switches: 1 is down
  moves,     \* how often they have moved
  state,     \* KeyScanner.state
  debounce,  \* debounce_count, scan_count and what they go up to
  scan,      \* where the scanner is: the next key, is_all_up, all_up, all_up_limit, the event it waits to send
  channel,   \* KeyScannerChannel
  last,      \* history: what was last reported of each key
  age,       \* history: scans since the counter of a key was started
  glitch     \* history: the switch had moved again just when it was taken to be settled

vars == <<switch, moves, state, debounce, scan, channel, last, age, glitch>>

Key == 1..KEYS
Settled == -1
NoEvent == [key |-> 0, is_down |-> 0]

Waiting == scan.at = 0

Init ==
  /\ switch = [k \in Key |-> 0] /\ moves = 0
  /\ state = [k \in Key |-> [settle |-> Settled, reported |-> 0, actual |-> 0]]
  /\ debounce = [count |-> 0, count_max |-> 0, scans |-> 0, scans_max |-> 0]
  /\ scan = [at |-> 0, is_all_up |-> TRUE, all_up |-> FALSE, limit |-> 0, sending |-> NoEvent]
  /\ channel = << >>
  /\ last = [k \in Key |-> 0] /\ age = [k \in Key |-> 0] /\ glitch = [k \in Key |-> FALSE]

-----------------------------------------------------------------------------
(***************************************************************************)
(* The counter of the debounce goes round once in about the settle time.   *)
(***************************************************************************)
ilog2(n) == CHOOSE b \in 0..n : 2^b <= n /\ n < 2^(b + 1)

\* What calc_debounce_cycle makes of the settle time; or it leaves the maxima as they are.
Tuned(cycles) ==
  IF ilog2(cycles) > COUNT_BITS
  THEN <<2^COUNT_BITS - 1, cycles \div 2^COUNT_BITS - 1>>
  ELSE <<2^ilog2(cycles) - 1, 0>>

\* The counter never outgrows the byte, and it is slowed down only when it uses all of its bits.
ASSUME TuningAssumption ==
  /\ 2^COUNT_BITS \in Nat \ {0}
  /\ \A c \in Cycles :
       /\ Tuned(c)[1] \in 0..2^COUNT_BITS - 1 /\ Tuned(c)[2] \in Nat
       /\ Tuned(c)[2] > 0 => Tuned(c)[1] = 2^COUNT_BITS - 1

CalcDebounceCycle ==
  \/ UNCHANGED debounce
  \/ \E c \in Cycles : debounce' = [debounce EXCEPT !.count_max = Tuned(c)[1], !.scans_max = Tuned(c)[2]]

NextCount(d) ==
  IF d.scans + 1 <= d.scans_max
  THEN [d EXCEPT !.scans = @ + 1]
  ELSE [d EXCEPT !.scans = 0, !.count = IF @ + 1 > d.count_max THEN 0 ELSE @ + 1]

\* Mutant: the key is taken to be settled when the counter is where it was.
start_debounce_now(d) == d.count

start_debounce(d) == IF d.count = 0 THEN d.count_max ELSE d.count - 1

-----------------------------------------------------------------------------
(***************************************************************************)
(* scan, one key after the other.                                          *)
(***************************************************************************)
StartScan(s) ==
  /\ debounce' = NextCount(debounce)
  /\ scan' = [s EXCEPT !.at = 1, !.is_all_up = TRUE]

\* Key k is the next to be looked at, and its byte becomes b.
Look(k, b) == scan.at = k /\ scan.sending = NoEvent /\ state' = [state EXCEPT ![k] = b]

Ends(k) == state[k].settle = debounce.count
Changed(k) == state[k].actual # switch[k]

\* Put the event into the channel and go on, or wait until there is room.
Report(k, up) ==
  /\ last' = [last EXCEPT ![k] = switch[k]]
  /\ \E event \in {[key |-> k, is_down |-> switch[k]]} :
       IF Len(channel) < BUFFER_SIZE
       THEN channel' = Append(channel, event) /\ scan' = [scan EXCEPT !.at = @ + 1, !.is_all_up = up]
       ELSE scan' = [scan EXCEPT !.sending = event, !.is_all_up = up] /\ UNCHANGED channel

Quiet(up) == scan' = [scan EXCEPT !.at = @ + 1, !.is_all_up = up] /\ UNCHANGED <<channel, last>>

\* Whether all keys still seem to be up, after one whose switch is as it is.
SoFar(k) == scan.is_all_up /\ switch[k] = 0

\* Mutant: a key that settles is reported whether it moved or not.
SettleReports(k) ==
  /\ state[k].settle # Settled /\ Ends(k)
  /\ Look(k, [state[k] EXCEPT !.settle = Settled])
  /\ Report(k, SoFar(k)) /\ glitch' = [glitch EXCEPT ![k] = Changed(k)]
  /\ UNCHANGED age

\* Mutant: a bounce is taken to be reported.
BounceReported(k) ==
  /\ state[k].settle # Settled /\ ~Ends(k) /\ Changed(k)
  /\ Look(k, [settle |-> start_debounce(debounce), reported |-> switch[k], actual |-> switch[k]])
  /\ Quiet(FALSE)
  /\ age' = [age EXCEPT ![k] = 0] /\ UNCHANGED glitch

\* Mutant: the scanner may rest while a key settles.
PassUp(k) ==
  /\ ~Changed(k) /\ (state[k].settle # Settled => ~Ends(k))
  /\ Look(k, state[k])
  /\ Quiet(SoFar(k))
  /\ age' = IF state[k].settle # Settled THEN [age EXCEPT ![k] = @ + 1] ELSE age
  /\ UNCHANGED glitch

\* Mutant: every scan that finds all keys up begins the countdown.
AllUpAgain == [scan EXCEPT !.all_up = scan.is_all_up, !.limit = IF scan.is_all_up THEN IDLE_WAIT_COUNT ELSE @]

\* The time of key k is over: it is reported when it has not settled where it was reported to be.
Settle(k) ==
  /\ state[k].settle # Settled /\ Ends(k)
  /\ Look(k, [state[k] EXCEPT !.settle = Settled])
  /\ \/ state[k].reported # state[k].actual /\ Report(k, SoFar(k)) /\ glitch' = [glitch EXCEPT ![k] = Changed(k)]
     \/ state[k].reported = state[k].actual /\ Quiet(SoFar(k)) /\ UNCHANGED glitch
  /\ UNCHANGED age

\* The key bounces: its time starts again.
Bounce(k) ==
  /\ state[k].settle # Settled /\ ~Ends(k) /\ Changed(k)
  /\ Look(k, [settle |-> start_debounce(debounce), reported |-> state[k].reported, actual |-> switch[k]])
  /\ Quiet(FALSE)
  /\ age' = [age EXCEPT ![k] = 0] /\ UNCHANGED glitch

\* A settled key has changed.
Change(k) ==
  /\ state[k].settle = Settled /\ Changed(k)
  /\ Look(k, [settle |-> start_debounce(debounce), reported |-> switch[k], actual |-> switch[k]])
  /\ Report(k, FALSE)
  /\ age' = [age EXCEPT ![k] = 0] /\ glitch' = [glitch EXCEPT ![k] = FALSE]

\* Nothing is new.
Pass(k) ==
  /\ ~Changed(k) /\ (state[k].settle # Settled => ~Ends(k))
  /\ Look(k, state[k])
  /\ Quiet(SoFar(k) /\ state[k].settle = Settled)
  /\ age' = IF state[k].settle # Settled THEN [age EXCEPT ![k] = @ + 1] ELSE age
  /\ UNCHANGED glitch

Scan(k) == (Settle(k) \/ Bounce(k) \/ Change(k) \/ Pass(k)) /\ UNCHANGED <<switch, moves, debounce>>

\* There is room for the event now.
Sent ==
  /\ scan.sending # NoEvent /\ Len(channel) < BUFFER_SIZE
  /\ channel' = Append(channel, scan.sending)
  /\ scan' = [scan EXCEPT !.at = @ + 1, !.sending = NoEvent]
  /\ UNCHANGED <<switch, moves, state, debounce, last, age, glitch>>

-----------------------------------------------------------------------------
(***************************************************************************)
(* run: scan after scan, and rest when all keys have been up long enough.  *)
(***************************************************************************)
AllUp == [scan EXCEPT !.all_up = scan.is_all_up,
                      !.limit = IF scan.is_all_up /\ ~scan.all_up THEN IDLE_WAIT_COUNT ELSE @]

EndScan ==
  /\ scan.at = KEYS + 1
  /\ \E s \in {AllUp} :
       \/ s.all_up /\ s.limit = 0 /\ CalcDebounceCycle /\ scan' = [s EXCEPT !.at = 0, !.all_up = FALSE]
       \/ s.all_up /\ s.limit > 0 /\ StartScan([s EXCEPT !.limit = @ - 1])
       \/ ~s.all_up /\ StartScan(s)
  /\ UNCHANGED <<switch, moves, state, channel, last, age, glitch>>

\* wait_for_key ends: a key is down.
Wake ==
  /\ Waiting /\ \E k \in Key : switch[k] = 1
  /\ StartScan(scan)
  /\ UNCHANGED <<switch, moves, state, channel, last, age, glitch>>

\* A switch goes down or up, or bounces.
Move(k) ==
  /\ moves < MAX_MOVES /\ moves' = moves + 1
  /\ switch' = [switch EXCEPT ![k] = 1 - @]
  /\ UNCHANGED <<state, debounce, scan, channel, last, age, glitch>>

\* The mapper takes an event.
Receive ==
  /\ channel # << >> /\ channel' = Tail(channel)
  /\ UNCHANGED <<switch, moves, state, debounce, scan, last, age, glitch>>

Scanner == (\E k \in Key : Scan(k)) \/ Sent \/ EndScan \/ Wake

Next == Scanner \/ Receive \/ \E k \in Key : Move(k)

Spec == Init /\ [][Next]_vars

\* The executor runs the scanner, whose timer is always due, and the mapper, which takes what is there.
FairSpec == Spec /\ WF_vars(Scanner) /\ WF_vars(Receive)

-----------------------------------------------------------------------------
(***************************************************************************)
(* Properties.                                                             *)
(***************************************************************************)
Bit == 0..1
Byte == [settle : {Settled} \cup 0..2^COUNT_BITS - 1, reported : Bit, actual : Bit]
Counter == [count : 0..2^COUNT_BITS - 1, count_max : 0..2^COUNT_BITS - 1, scans : Nat, scans_max : Nat]
Event == [key : Key, is_down : Bit]
Place == [at : 0..KEYS + 1, is_all_up : BOOLEAN, all_up : BOOLEAN, limit : 0..IDLE_WAIT_COUNT,
          sending : {NoEvent} \cup Event]

\* Every byte, counter and event is one that the code can hold.
TypeOK ==
  /\ switch \in [Key -> Bit] /\ moves \in 0..MAX_MOVES
  /\ state \in [Key -> Byte] /\ debounce \in Counter /\ scan \in Place
  /\ channel \in Seq(Event) /\ Len(channel) <= BUFFER_SIZE
  /\ last \in [Key -> Bit] /\ glitch \in [Key -> BOOLEAN]

\* The scans that a key is given to settle, from the one that began it: the time does not begin with the counter.
Longest == IF debounce.count_max = 0 THEN 1 ELSE debounce.count_max * (debounce.scans_max + 1)
Shortest == Longest - debounce.scans_max

\* A key that has changed is given the whole of its time from its last bounce, and never more, however
\* the counter goes round, the scanner is held up and the settings change (start_debounce, scan).
Debounced ==
  [][\A k \in Key : state[k].settle # Settled =>
        IF state'[k].settle = Settled THEN age[k] + 1 \in Shortest..Longest ELSE age'[k] < Longest]_vars

\* What was last reported of a key is what its byte says: while it settles, what it was reported to be,
\* and from then on where it settled (the matches! of scan, the comment of state).  Left out is a key whose
\* switch had moved again just when it was taken to be settled, until it changes again (glitch; RestsReported
\* is about those).
ReportedInState ==
  \A k \in Key : glitch[k] \/ last[k] = IF state[k].settle = Settled THEN state[k].actual ELSE state[k].reported

Reports(k) == scan.at = k /\ scan.sending = NoEvent /\ (scan'.sending # NoEvent \/ Len(channel') > Len(channel))

\* A key goes down and up in turn, whatever its switch does (scan), unless it moves again just when it is
\* taken to be settled: that report and the one after it may repeat what was said (glitch).
Alternates == [][\A k \in Key : Reports(k) /\ ~glitch[k] /\ ~glitch'[k] => last'[k] # last[k]]_vars

\* The scanner rests only when no key has still to settle or to be reported up (is_all_up, all_up_limit):
\* wait_for_key ends for a key that goes down and for nothing else.  A key whose switch had moved just when
\* it was taken to be settled may have been reported down and is not reported any more (glitch).
RestsClean == Waiting => \A k \in Key : state[k].settle = Settled /\ state[k].actual = 0 /\ (last[k] = 0 \/ glitch[k])

\* When the keys are left alone and up, the scanner comes to rest and stays there, also when it was held
\* up in the middle of a scan (all_up_limit in run and scan).
ComesToRest == <>[](\A k \in Key : switch[k] = 0) => <>[]Waiting

\* A key that is up is reported up before the scanner rests.
RestsReported == Waiting => \A k \in Key : last[k] = 0
=============================================================================
