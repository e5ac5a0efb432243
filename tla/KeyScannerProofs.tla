-------------------------- MODULE KeyScannerProofs --------------------------
(***************************************************************************)
(* What the scanner reports of a key, for any number of keys, any settle   *)
(* time, any size of the channel and any moves of the switches.            *)
(*                                                                         *)
(* RestsClean is not inductive: a scan that finds every key up may leave   *)
(* one that settled down in that scan, and only the scan after it shows    *)
(* that every switch agrees with its byte.  TwoScans says what the keys    *)
(* looked at in this scan and those still to be looked at are known to be. *)
(***************************************************************************)
EXTENDS KeyScanner, TLAPS

\* Key k was looked at in this scan; the scanner may still wait to send its event.
Looked(k) == k < scan.at \/ (k = scan.at /\ scan.sending # NoEvent)

TwoScans ==
  /\ scan.sending # NoEvent => scan.at \in Key
  /\ Waiting => \A k \in Key : state[k].settle = Settled /\ state[k].actual = 0
  /\ ~Waiting /\ scan.is_all_up => \A k \in Key : Looked(k) => state[k].settle = Settled
  /\ ~Waiting /\ scan.all_up => \A k \in Key : ~Looked(k) => state[k].settle = Settled
  /\ ~Waiting /\ scan.all_up /\ scan.is_all_up => \A k \in Key : Looked(k) => state[k].actual = 0

\* The sets of records of TypeOK are expanded everywhere.
USE DEF Byte, Counter, Event, Place

IInv == TypeOK /\ ReportedInState /\ TwoScans

LEMMA Constants ==
  /\ KEYS \in Nat /\ MAX_MOVES \in Nat /\ 2^COUNT_BITS \in Nat \ {0}
  /\ IDLE_WAIT_COUNT \in Nat \ {0} /\ BUFFER_SIZE \in Nat \ {0}
BY ScannerAssumption, TuningAssumption

\* The counter of the debounce stays within the byte of a key, and so does what it counts to.
LEMMA CounterFits ==
  ASSUME TypeOK
  PROVE  /\ NextCount(debounce) \in Counter
         /\ start_debounce(debounce) \in 0..2^COUNT_BITS - 1
<1> DEFINE M == 2^COUNT_BITS
           CounterM == [count : 0..M - 1, count_max : 0..M - 1, scans : Nat, scans_max : Nat]
<1>1. M \in Nat \ {0}  BY Constants
<1>2. debounce \in CounterM  BY DEF TypeOK
<1> HIDE DEF M
<1>3. NextCount(debounce) \in CounterM
  <2>1. debounce.count \in 0..M - 1 /\ debounce.count_max \in 0..M - 1 /\ debounce.scans \in Nat /\ debounce.scans_max \in Nat
    BY <1>2
  <2>2. CASE debounce.scans + 1 <= debounce.scans_max
    BY <1>1, <1>2, <2>1, <2>2 DEF NextCount
  <2>3. CASE ~ debounce.scans + 1 <= debounce.scans_max
    <3>1. (IF debounce.count + 1 > debounce.count_max THEN 0 ELSE debounce.count + 1) \in 0..M - 1
      BY <1>1, <2>1
    <3> QED BY <1>2, <2>1, <2>3, <3>1 DEF NextCount
  <2> QED BY <2>2, <2>3
<1>4. start_debounce(debounce) \in 0..M - 1  BY <1>1, <1>2 DEF start_debounce
<1> QED BY <1>3, <1>4 DEF M

\* A new tuning fits as well.
LEMMA TuningFits ==
  ASSUME TypeOK, CalcDebounceCycle
  PROVE  debounce' \in Counter
<1>1. CASE UNCHANGED debounce  BY <1>1 DEF TypeOK
<1>2. CASE ~ UNCHANGED debounce
  <2>1. PICK c \in Cycles :
          debounce' = [debounce EXCEPT !.count_max = Tuned(c)[1], !.scans_max = Tuned(c)[2]]
    BY <1>2 DEF CalcDebounceCycle
  <2>2. Tuned(c)[1] \in 0..2^COUNT_BITS - 1 /\ Tuned(c)[2] \in Nat  BY TuningAssumption
  <2> QED BY <2>1, <2>2 DEF TypeOK
<1> QED BY <1>1, <1>2

\* The fields of the records, as the provers need them.
LEMMA Fields ==
  ASSUME TypeOK
  PROVE  /\ scan.at \in 0..KEYS + 1 /\ scan.is_all_up \in BOOLEAN /\ scan.all_up \in BOOLEAN
         /\ scan.limit \in 0..IDLE_WAIT_COUNT
         /\ \A k \in Key : /\ switch[k] \in Bit /\ state[k].reported \in Bit /\ state[k].actual \in Bit
                           /\ SoFar(k) \in BOOLEAN
BY DEF TypeOK, SoFar

\* What the two ways on from a key have in common: the scanner stands behind it,
\* or at it with the event it waits to send, and nothing else of scan changes.
Passed(k, up) ==
  /\ \/ scan' = [scan EXCEPT !.at = @ + 1, !.is_all_up = up]
     \/ \E event \in Event : scan' = [scan EXCEPT !.sending = event, !.is_all_up = up]
  /\ channel' \in Seq(Event) /\ Len(channel') <= BUFFER_SIZE

LEMMA ReportPasses ==
  ASSUME TypeOK, NEW k \in Key, NEW up \in BOOLEAN, Report(k, up)
  PROVE  Passed(k, up) /\ last' = [last EXCEPT ![k] = switch[k]] /\ last' \in [Key -> Bit]
<1>1. DEFINE event == [key |-> k, is_down |-> switch[k]]
<1>2. event \in Event  BY Fields
<1>3. last' = [last EXCEPT ![k] = switch[k]] /\ last' \in [Key -> Bit]  BY Fields DEF Report, TypeOK
<1>4. CASE Len(channel) < BUFFER_SIZE
  <2>1. channel' = Append(channel, event) /\ scan' = [scan EXCEPT !.at = @ + 1, !.is_all_up = up]
    BY <1>4 DEF Report
  <2> HIDE DEF event
  <2>2. channel' \in Seq(Event) /\ Len(channel') = Len(channel) + 1
    BY <1>2, <2>1 DEF TypeOK
  <2> QED BY <1>3, <1>4, <2>1, <2>2, Constants DEF Passed, TypeOK
<1>5. CASE ~ Len(channel) < BUFFER_SIZE
  <2>1. channel' = channel /\ scan' = [scan EXCEPT !.sending = event, !.is_all_up = up]
    BY <1>5 DEF Report
  <2> QED BY <1>2, <1>3, <2>1 DEF Passed, TypeOK
<1> QED BY <1>4, <1>5

LEMMA QuietPasses ==
  ASSUME TypeOK, NEW k \in Key, NEW up \in BOOLEAN, Quiet(up)
  PROVE  Passed(k, up) /\ last' = last /\ channel' = channel
BY DEF Quiet, Passed, TypeOK

\* What a step of key k makes of the other variables, when its byte becomes b.
LEMMA LookTypes ==
  ASSUME TypeOK, NEW k \in Key, NEW up \in BOOLEAN, Passed(k, up),
         NEW b \in Byte,
         Look(k, b), UNCHANGED <<switch, moves, debounce>>,
         last' \in [Key -> Bit], glitch' \in [Key -> BOOLEAN]
  PROVE  TypeOK'
<1>1. k \in 0..KEYS /\ k + 1 \in 0..KEYS + 1  BY Constants DEF Key
<1>2. scan' \in Place
  BY <1>1 DEF Passed, Look, TypeOK
<1>3. state' \in [Key -> Byte]
  BY DEF Look, TypeOK
<1> QED BY <1>2, <1>3 DEF TypeOK, Passed

\* Once key k has been passed, it is one more of those that this scan looked at.
LEMMA OneMore ==
  ASSUME TypeOK, NEW k \in Key, NEW up \in BOOLEAN, Passed(k, up), scan.at = k, scan.sending = NoEvent
  PROVE  /\ scan'.at # 0 /\ scan'.is_all_up = up /\ scan'.all_up = scan.all_up
         /\ scan'.sending # NoEvent => scan'.at \in Key
         /\ \A j \in Key : (j < scan'.at \/ (j = scan'.at /\ scan'.sending # NoEvent)) <=> (Looked(j) \/ j = k)
<1>1. k \in Nat \ {0} /\ \A j \in Key : j \in Nat  BY Constants DEF Key
<1>2. \A event \in Event : event # NoEvent
  <2>1. 0 \notin Key  BY DEF Key
  <2> QED BY <2>1 DEF NoEvent
<1>3. CASE scan' = [scan EXCEPT !.at = @ + 1, !.is_all_up = up]
  <2>1. scan'.at = k + 1 /\ scan'.is_all_up = up /\ scan'.all_up = scan.all_up /\ scan'.sending = NoEvent
    BY <1>3 DEF TypeOK
  <2> QED BY <1>1, <2>1 DEF Looked
<1>4. CASE \E event \in Event : scan' = [scan EXCEPT !.sending = event, !.is_all_up = up]
  <2>1. scan'.at = k /\ scan'.is_all_up = up /\ scan'.all_up = scan.all_up /\ scan'.sending # NoEvent
    BY <1>2, <1>4 DEF TypeOK
  <2> QED BY <1>1, <2>1 DEF Looked
<1> QED BY <1>3, <1>4 DEF Passed

\* The scanner goes on to think that all keys are up only when key k does not settle, and when
\* it was settled before, only when it is up.
LEMMA LookRests ==
  ASSUME TypeOK, TwoScans, NEW k \in Key, NEW up \in BOOLEAN, NEW b, Passed(k, up), Look(k, b),
         up => scan.is_all_up /\ b.settle = Settled,
         up /\ state[k].settle = Settled => b.actual = 0
  PROVE  TwoScans'
<1>1. scan.at = k /\ scan.sending = NoEvent /\ ~ Waiting /\ ~ Looked(k)
  BY Constants DEF Look, Key, Waiting, Looked
<1>2. \A j \in Key : state'[j] = IF j = k THEN b ELSE state[j]  BY DEF Look, TypeOK
<1>3. /\ ~ Waiting' /\ scan'.is_all_up = up /\ scan'.all_up = scan.all_up
      /\ scan'.sending # NoEvent => scan'.at \in Key
      /\ \A j \in Key : Looked(j)' <=> (Looked(j) \/ j = k)
  BY <1>1, OneMore DEF Waiting, Looked
<1>4. up => \A j \in Key : Looked(j)' => state'[j].settle = Settled  BY <1>1, <1>2, <1>3 DEF TwoScans
<1>5. scan.all_up => \A j \in Key : ~ Looked(j)' => state'[j].settle = Settled  BY <1>1, <1>2, <1>3 DEF TwoScans
<1>6. scan.all_up /\ up => \A j \in Key : Looked(j)' => state'[j].actual = 0  BY <1>1, <1>2, <1>3 DEF TwoScans
<1> HIDE DEF Waiting, Looked
<1> QED BY <1>3, <1>4, <1>5, <1>6 DEF TwoScans

-----------------------------------------------------------------------------
(***************************************************************************)
(* The branches of scan.                                                   *)
(***************************************************************************)
LEMMA SettleKeeps ==
  ASSUME IInv, NEW k \in Key, Settle(k), UNCHANGED <<switch, moves, debounce>>
  PROVE  IInv'
<1> DEFINE b == [state[k] EXCEPT !.settle = Settled]
<1>1. /\ TypeOK /\ SoFar(k) \in BOOLEAN /\ Look(k, b) /\ state[k].settle # Settled
      /\ b = [settle |-> Settled, reported |-> state[k].reported, actual |-> state[k].actual]
      /\ b \in Byte
  BY Fields DEF IInv, Settle, TypeOK
<1>2. Passed(k, SoFar(k)) /\ last' \in [Key -> Bit] /\ glitch' \in [Key -> BOOLEAN]
  <2>1. CASE Report(k, SoFar(k)) /\ glitch' = [glitch EXCEPT ![k] = Changed(k)]
    BY <1>1, <2>1, ReportPasses DEF TypeOK, Changed
  <2>2. CASE Quiet(SoFar(k)) /\ UNCHANGED glitch
    BY <1>1, <2>2, QuietPasses DEF TypeOK
  <2> QED BY <2>1, <2>2 DEF Settle
<1>3. \A j \in Key : state'[j] = IF j = k THEN b ELSE state[j]  BY <1>1 DEF Look, TypeOK
<1>4. TypeOK'  BY <1>1, <1>2, LookTypes
<1>5. ReportedInState'
  <2>1. CASE state[k].reported # state[k].actual /\ Report(k, SoFar(k)) /\ glitch' = [glitch EXCEPT ![k] = Changed(k)]
    <3>1. last' = [last EXCEPT ![k] = switch[k]]  BY <1>1, <2>1, ReportPasses
    <3> QED BY <1>1, <1>3, <2>1, <3>1 DEF IInv, ReportedInState, TypeOK, Changed
  <2>2. CASE state[k].reported = state[k].actual /\ Quiet(SoFar(k)) /\ UNCHANGED glitch
    BY <1>1, <1>3, <2>2 DEF IInv, ReportedInState, TypeOK, Quiet
  <2> QED BY <2>1, <2>2 DEF Settle
<1>6. TwoScans'  BY <1>1, <1>2, LookRests DEF IInv, SoFar
<1> QED BY <1>4, <1>5, <1>6 DEF IInv

LEMMA BounceKeeps ==
  ASSUME IInv, NEW k \in Key, Bounce(k), UNCHANGED <<switch, moves, debounce>>
  PROVE  IInv'
<1> DEFINE b == [settle |-> start_debounce(debounce), reported |-> state[k].reported, actual |-> switch[k]]
<1>1. start_debounce(debounce) \in 0..2^COUNT_BITS - 1 /\ start_debounce(debounce) # Settled
  BY CounterFits, Constants DEF IInv, Settled
<1>2. TypeOK /\ Look(k, b) /\ state[k].settle # Settled  BY DEF IInv, Bounce
<1>3. b \in Byte  BY <1>1, <1>2, Fields
<1>4. Passed(k, FALSE) /\ last' = last /\ glitch' = glitch  BY <1>2, QuietPasses DEF Bounce
<1>5. \A j \in Key : state'[j] = IF j = k THEN b ELSE state[j]  BY <1>2 DEF Look, TypeOK
<1>6. TypeOK'
  <2>1. last' \in [Key -> Bit] /\ glitch' \in [Key -> BOOLEAN]  BY <1>2, <1>4 DEF TypeOK
  <2> HIDE DEF b
  <2> QED BY <1>2, <1>3, <1>4, <2>1, LookTypes
<1>7. ReportedInState'  BY <1>1, <1>2, <1>4, <1>5 DEF IInv, ReportedInState
<1>8. TwoScans'
  <2> HIDE DEF b
  <2> QED BY <1>2, <1>4, LookRests DEF IInv
<1> QED BY <1>6, <1>7, <1>8 DEF IInv

LEMMA ChangeKeeps ==
  ASSUME IInv, NEW k \in Key, Change(k), UNCHANGED <<switch, moves, debounce>>
  PROVE  IInv'
<1> DEFINE b == [settle |-> start_debounce(debounce), reported |-> switch[k], actual |-> switch[k]]
<1>1. start_debounce(debounce) \in 0..2^COUNT_BITS - 1 /\ start_debounce(debounce) # Settled
  BY CounterFits, Constants DEF IInv, Settled
<1>2. /\ TypeOK /\ Look(k, b) /\ glitch' = [glitch EXCEPT ![k] = FALSE] /\ glitch' \in [Key -> BOOLEAN]
      /\ b \in Byte
  BY <1>1, Fields DEF IInv, Change, TypeOK
<1>3. Passed(k, FALSE) /\ last' = [last EXCEPT ![k] = switch[k]] /\ last' \in [Key -> Bit]
  BY <1>2, ReportPasses DEF Change
<1>4. \A j \in Key : state'[j] = IF j = k THEN b ELSE state[j]  BY <1>2 DEF Look, TypeOK
<1>5. TypeOK'
  <2> HIDE DEF b
  <2> QED BY <1>2, <1>3, LookTypes
<1>6. ReportedInState'  BY <1>1, <1>2, <1>3, <1>4 DEF IInv, ReportedInState, TypeOK
<1>7. TwoScans'
  <2> HIDE DEF b
  <2> QED BY <1>2, <1>3, LookRests DEF IInv
<1> QED BY <1>5, <1>6, <1>7 DEF IInv

LEMMA PassKeeps ==
  ASSUME IInv, NEW k \in Key, Pass(k), UNCHANGED <<switch, moves, debounce>>
  PROVE  IInv'
<1> DEFINE up == SoFar(k) /\ state[k].settle = Settled
<1>1. /\ TypeOK /\ up \in BOOLEAN /\ Look(k, state[k]) /\ state' = state
      /\ state[k] \in Byte
  BY Fields DEF IInv, Pass, TypeOK, Look
<1>2. Passed(k, up) /\ last' = last /\ glitch' = glitch  BY <1>1, QuietPasses DEF Pass
<1>3. TypeOK'
  <2>1. last' \in [Key -> Bit] /\ glitch' \in [Key -> BOOLEAN]  BY <1>1, <1>2 DEF TypeOK
  <2> HIDE DEF up
  <2> QED BY <1>1, <1>2, <2>1, LookTypes
<1>4. ReportedInState'  BY <1>1, <1>2 DEF IInv, ReportedInState
<1>5. TwoScans'
  <2>1. up => scan.is_all_up /\ state[k].settle = Settled /\ state[k].actual = 0
    BY DEF Pass, Changed, SoFar
  <2> HIDE DEF up
  <2> QED BY <1>1, <1>2, <2>1, LookRests DEF IInv
<1> QED BY <1>3, <1>4, <1>5 DEF IInv

-----------------------------------------------------------------------------
(***************************************************************************)
(* The other steps.                                                        *)
(***************************************************************************)
\* A step that leaves the keys and what was reported of them alone.
LEMMA SameKeys ==
  ASSUME IInv, UNCHANGED <<state, last, glitch>>
  PROVE  ReportedInState'
BY DEF IInv, ReportedInState

LEMMA SentKeeps ==
  ASSUME IInv, Sent
  PROVE  IInv'
<1>1. /\ scan.at \in Key /\ scan.at \in 1..KEYS /\ ~ Waiting
      /\ scan' = [scan EXCEPT !.at = @ + 1, !.sending = NoEvent]
  BY Constants DEF IInv, TwoScans, Sent, Key, Waiting
<1>2. /\ scan'.at = scan.at + 1 /\ scan'.sending = NoEvent /\ scan'.is_all_up = scan.is_all_up
      /\ scan'.all_up = scan.all_up /\ ~ Waiting'
  BY <1>1, Constants DEF IInv, TypeOK, Waiting
<1>3. TypeOK'
  <2>1. scan' \in Place
    <3>1. scan.at + 1 \in 0..KEYS + 1  BY <1>1, Constants
    <3> QED BY <1>1, <3>1 DEF IInv, TypeOK
  <2>2. channel' \in Seq(Event) /\ Len(channel') <= BUFFER_SIZE
    <3>1. scan.sending \in Event  BY DEF IInv, TypeOK, Sent
    <3>2. channel' = Append(channel, scan.sending) /\ Len(channel) < BUFFER_SIZE  BY DEF Sent
    <3> QED BY <3>1, <3>2, Constants DEF IInv, TypeOK
  <2> QED BY <2>1, <2>2 DEF IInv, TypeOK, Sent
<1>4. TwoScans'
  <2>1. \A k \in Key : Looked(k)' <=> Looked(k)
    BY <1>1, <1>2, Constants DEF Looked, Sent, Key
  <2>2. state' = state /\ scan.sending # NoEvent  BY DEF Sent
  <2> QED BY <1>1, <1>2, <2>1, <2>2 DEF IInv, TwoScans
<1> QED BY <1>3, <1>4, SameKeys DEF IInv, Sent

\* A scan begins: no key has been looked at.
LEMMA StartLooks ==
  ASSUME TypeOK, NEW s \in Place,
         StartScan(s), UNCHANGED state, s.sending = NoEvent,
         s.all_up => \A k \in Key : state[k].settle = Settled
  PROVE  /\ TwoScans'
         /\ scan' \in Place
<1>1. scan' = [s EXCEPT !.at = 1, !.is_all_up = TRUE]  BY DEF StartScan
<1>2. scan'.at = 1 /\ scan'.sending = NoEvent /\ scan'.all_up = s.all_up /\ ~ Waiting'  BY <1>1 DEF Waiting
<1>3. \A k \in Key : ~ Looked(k)'  BY <1>2, Constants DEF Looked, Key
<1>4. TwoScans'  BY <1>2, <1>3 DEF TwoScans
<1>5. 1 \in 0..KEYS + 1  BY Constants
<1> QED BY <1>1, <1>4, <1>5

LEMMA AllUpPlace ==
  ASSUME TypeOK
  PROVE  /\ AllUp \in Place
         /\ AllUp.sending = scan.sending
<1> DEFINE limit == IF scan.is_all_up /\ ~ scan.all_up THEN IDLE_WAIT_COUNT ELSE scan.limit
<1>1. scan \in Place /\ scan.is_all_up \in BOOLEAN /\ limit \in 0..IDLE_WAIT_COUNT
  BY Constants DEF TypeOK
<1>2. AllUp = [scan EXCEPT !.all_up = scan.is_all_up, !.limit = limit]  BY DEF AllUp
<1> HIDE DEF limit
<1> QED BY <1>1, <1>2

LEMMA EndScanKeeps ==
  ASSUME IInv, EndScan
  PROVE  IInv'
<1>1. /\ ~ Waiting /\ scan.sending = NoEvent /\ \A k \in Key : Looked(k)
  <2>1. scan.at = KEYS + 1 /\ scan.at \notin Key /\ scan.at # 0  BY Constants DEF EndScan, Key
  <2> QED BY <2>1, Constants DEF IInv, TwoScans, Waiting, Looked, Key
<1>2. AllUp \in Place  BY AllUpPlace DEF IInv
<1>3. /\ AllUp.all_up = scan.is_all_up /\ AllUp.sending = NoEvent
      /\ AllUp.limit = IF scan.is_all_up /\ ~ scan.all_up THEN IDLE_WAIT_COUNT ELSE scan.limit
  BY <1>1 DEF AllUp, IInv, TypeOK
<1>4. scan.is_all_up => \A k \in Key : state[k].settle = Settled  BY <1>1 DEF IInv, TwoScans
<1>5. UNCHANGED <<switch, moves, state, channel, last, age, glitch>>  BY DEF EndScan
<1>6. CASE AllUp.all_up /\ AllUp.limit = 0 /\ CalcDebounceCycle /\ scan' = [AllUp EXCEPT !.at = 0, !.all_up = FALSE]
  <2>1. scan.is_all_up /\ scan.all_up  BY <1>3, <1>6, Constants DEF IInv, TypeOK
  <2>2. \A k \in Key : state[k].settle = Settled /\ state[k].actual = 0  BY <1>1, <1>4, <2>1 DEF IInv, TwoScans
  <2>3. /\ scan'.at = 0 /\ scan'.sending = NoEvent /\ Waiting'
        /\ scan' \in Place
    <3>1. 0 \in 0..KEYS + 1  BY Constants
    <3>2. scan' = [AllUp EXCEPT !.at = 0, !.all_up = FALSE]  BY <1>6
    <3> HIDE DEF AllUp
    <3> QED BY <1>2, <1>3, <3>1, <3>2 DEF Waiting
  <2>4. TwoScans'  BY <1>5, <2>2, <2>3 DEF TwoScans
  <2>5. TypeOK'  BY <1>5, <1>6, <2>3, TuningFits DEF IInv, TypeOK
  <2> QED BY <1>5, <2>4, <2>5, SameKeys DEF IInv
<1>7. CASE AllUp.all_up /\ AllUp.limit > 0 /\ StartScan([AllUp EXCEPT !.limit = @ - 1])
  <2> DEFINE s == [AllUp EXCEPT !.limit = @ - 1]
  <2>1. /\ s \in Place
        /\ s.sending = NoEvent /\ s.all_up = AllUp.all_up
    <3>1. AllUp.limit - 1 \in 0..IDLE_WAIT_COUNT  BY <1>2, <1>7, Constants
    <3> QED BY <1>2, <1>3, <3>1
  <2> HIDE DEF s
  <2>2. StartScan(s)  BY <1>7 DEF s
  <2>3. TwoScans' /\ scan' \in Place
    BY <1>3, <1>4, <1>5, <2>1, <2>2, StartLooks DEF IInv
  <2>4. TypeOK'  BY <1>5, <2>2, <2>3, CounterFits DEF IInv, TypeOK, StartScan
  <2> QED BY <1>5, <2>3, <2>4, SameKeys DEF IInv
<1>8. CASE ~ AllUp.all_up /\ StartScan(AllUp)
  <2>1. TwoScans' /\ scan' \in Place
    BY <1>2, <1>3, <1>5, <1>8, StartLooks DEF IInv
  <2>2. TypeOK'  BY <1>5, <1>8, <2>1, CounterFits DEF IInv, TypeOK, StartScan
  <2> QED BY <1>5, <2>1, <2>2, SameKeys DEF IInv
<1> QED BY <1>6, <1>7, <1>8 DEF EndScan

LEMMA WakeKeeps ==
  ASSUME IInv, Wake
  PROVE  IInv'
<1>1. /\ StartScan(scan) /\ scan.sending = NoEvent /\ \A k \in Key : state[k].settle = Settled
      /\ UNCHANGED <<switch, moves, state, channel, last, age, glitch>>
  BY Constants DEF Wake, IInv, TwoScans, Waiting, Key
<1>2. TwoScans' /\ scan' \in Place
  BY <1>1, StartLooks DEF IInv, TypeOK
<1>3. TypeOK'  BY <1>1, <1>2, CounterFits DEF IInv, TypeOK, StartScan
<1> QED BY <1>1, <1>2, <1>3, SameKeys DEF IInv

\* The switches and the mapper change nothing that the scanner knows.
LEMMA OthersKeep ==
  ASSUME IInv, UNCHANGED <<state, debounce, scan, last, age, glitch>>,
         moves' \in 0..MAX_MOVES /\ switch' \in [Key -> Bit],
         channel' \in Seq(Event) /\ Len(channel') <= BUFFER_SIZE
  PROVE  IInv'
<1>1. TypeOK'  BY DEF IInv, TypeOK
<1>2. TwoScans'  BY DEF IInv, TwoScans, Waiting, Looked
<1> QED BY <1>1, <1>2, SameKeys DEF IInv

LEMMA MoveKeeps ==
  ASSUME IInv, NEW k \in Key, Move(k)
  PROVE  IInv'
<1>1. moves' \in 0..MAX_MOVES /\ switch' \in [Key -> Bit]
  BY Constants DEF Move, IInv, TypeOK, Bit
<1> QED BY <1>1, OthersKeep DEF Move, IInv, TypeOK

LEMMA ReceiveKeeps ==
  ASSUME IInv, Receive
  PROVE  IInv'
<1>1. channel' \in Seq(Event) /\ Len(channel') <= BUFFER_SIZE
  BY Constants DEF Receive, IInv, TypeOK
<1> QED BY <1>1, OthersKeep DEF Receive, IInv, TypeOK

-----------------------------------------------------------------------------
(***************************************************************************)
(* The theorems.                                                           *)
(***************************************************************************)
LEMMA InitEstablishes == Init => IInv
<1> SUFFICES ASSUME Init PROVE IInv  OBVIOUS
<1>1. 0 \in 0..2^COUNT_BITS - 1 /\ 0 \in 0..MAX_MOVES /\ 0 \in 0..KEYS + 1 /\ 0 \in 0..IDLE_WAIT_COUNT
  BY Constants
<1>2. << >> \in Seq(Event) /\ Len(<< >>) <= BUFFER_SIZE  BY Constants
<1>3. TypeOK  BY <1>1, <1>2 DEF Init, TypeOK, Bit
<1>4. ReportedInState  BY DEF Init, ReportedInState
<1>5. TwoScans  BY DEF Init, TwoScans, Waiting
<1> QED BY <1>3, <1>4, <1>5 DEF IInv

LEMMA NextKeeps == IInv /\ [Next]_vars => IInv'
<1> SUFFICES ASSUME IInv, [Next]_vars PROVE IInv'  OBVIOUS
<1>1. CASE \E k \in Key : Scan(k)
  <2>1. PICK k \in Key : Scan(k)  BY <1>1
  <2>2. UNCHANGED <<switch, moves, debounce>>  BY <2>1 DEF Scan
  <2>3. CASE Settle(k)  BY <2>2, <2>3, SettleKeeps
  <2>4. CASE Bounce(k)  BY <2>2, <2>4, BounceKeeps
  <2>5. CASE Change(k)  BY <2>2, <2>5, ChangeKeeps
  <2>6. CASE Pass(k)  BY <2>2, <2>6, PassKeeps
  <2> QED BY <2>1, <2>3, <2>4, <2>5, <2>6 DEF Scan
<1>2. CASE Sent  BY <1>2, SentKeeps
<1>3. CASE EndScan  BY <1>3, EndScanKeeps
<1>4. CASE Wake  BY <1>4, WakeKeeps
<1>5. CASE Receive  BY <1>5, ReceiveKeeps
<1>6. CASE \E k \in Key : Move(k)  BY <1>6, MoveKeeps
<1>7. CASE UNCHANGED vars  BY <1>7, OthersKeep DEF vars, IInv, TypeOK
<1> QED BY <1>1, <1>2, <1>3, <1>4, <1>5, <1>6, <1>7 DEF Next, Scanner

LEMMA Invariant == Spec => []IInv
BY InitEstablishes, NextKeeps, PTL DEF Spec

\* The bytes of the keys, the counter and what waits to be sent stay what the code can hold,
\* whatever the settle time is set to.
THEOREM TypeCorrect == Spec => []TypeOK
<1>1. IInv => TypeOK  BY DEF IInv
<1> QED BY <1>1, Invariant, PTL

\* Two bits of a byte are enough to know what was last reported of a key (scan: the matches! on them), if
\* its switch had not moved again just when it was taken to be settled.
THEOREM StateReported == Spec => []ReportedInState
<1>1. IInv => ReportedInState  BY DEF IInv
<1> QED BY <1>1, Invariant, PTL

\* The scanner waits for a key only when no key settles and every key was reported up, so that it
\* cannot sleep over a release (is_all_up and all_up_limit); except for a key whose switch had moved again
\* just when it was taken to be settled: its release is the one that is slept over.
THEOREM CleanRest == Spec => []RestsClean
<1>1. ASSUME IInv PROVE RestsClean
  <2>1. ASSUME Waiting, NEW k \in Key
        PROVE  state[k].settle = Settled /\ state[k].actual = 0 /\ (last[k] = 0 \/ glitch[k])
    <3>1. state[k].settle = Settled /\ state[k].actual = 0  BY <1>1, <2>1 DEF IInv, TwoScans
    <3>2. glitch[k] \/ last[k] = state[k].actual  BY <1>1, <3>1 DEF IInv, ReportedInState
    <3> QED BY <3>1, <3>2
  <2> QED BY <2>1 DEF RestsClean
<1> QED BY <1>1, Invariant, PTL

\* Only a step of scan that looks at key k reports it.
LEMMA OnlyScanReports ==
  ASSUME IInv, [Next]_vars, NEW k \in Key, Reports(k)
  PROVE  Scan(k)
<1>1. k # KEYS + 1 /\ k # 0  BY Constants DEF Key
<1>2. scan.at = k /\ scan.sending = NoEvent /\ (scan'.sending # NoEvent \/ Len(channel') > Len(channel))
  BY DEF Reports
<1>3. CASE \E j \in Key : Scan(j)
  <2>1. PICK j \in Key : Scan(j)  BY <1>3
  <2>2. j = scan.at  BY <2>1 DEF Scan, Settle, Bounce, Change, Pass, Look
  <2> QED BY <1>2, <2>1, <2>2
<1>4. ~ Sent /\ ~ EndScan /\ ~ Wake  BY <1>1, <1>2 DEF Sent, EndScan, Wake, Waiting
<1>5. CASE Receive
  <2>1. Len(channel') < Len(channel)
    BY <1>5 DEF Receive, IInv, TypeOK
  <2>2. Len(channel) \in Nat /\ Len(channel') \in Nat  BY <1>5 DEF Receive, IInv, TypeOK
  <2> QED BY <1>2, <1>5, <2>1, <2>2 DEF Receive
<1>6. CASE UNCHANGED <<scan, channel>>
  <2>1. Len(channel) \in Nat  BY DEF IInv, TypeOK
  <2> QED BY <1>2, <1>6, <2>1
<1>7. CASE \E j \in Key : Move(j)  BY <1>6, <1>7 DEF Move
<1>8. CASE UNCHANGED vars  BY <1>6, <1>8 DEF vars
<1> QED BY <1>3, <1>4, <1>5, <1>7, <1>8 DEF Next, Scanner

\* A key is reported down and up in turn, however its switch bounces, if it does not just when it is taken
\* to be settled.
THEOREM KeysAlternate == Spec => Alternates
<1>1. ASSUME IInv, [Next]_vars, NEW k \in Key, Reports(k), ~ glitch[k], ~ glitch'[k]
      PROVE  last'[k] # last[k]
  <2>1. Scan(k)  BY <1>1, OnlyScanReports
  <2>2. scan.at = k /\ scan.sending = NoEvent /\ (scan'.sending # NoEvent \/ Len(channel') > Len(channel))
    BY <1>1 DEF Reports
  <2>3. last[k] = IF state[k].settle = Settled THEN state[k].actual ELSE state[k].reported
    BY <1>1 DEF IInv, ReportedInState
  <2>4. ASSUME NEW up \in BOOLEAN, Quiet(up)  PROVE FALSE
    <3>1. scan'.sending = scan.sending /\ channel' = channel  BY <1>1, <2>4 DEF Quiet, IInv, TypeOK
    <3>2. Len(channel) \in Nat  BY <1>1 DEF IInv, TypeOK
    <3> QED BY <2>2, <3>1, <3>2
  <2>5. SoFar(k) \in BOOLEAN  BY <1>1, Fields DEF IInv
  <2>6. ASSUME NEW up \in BOOLEAN, Report(k, up)  PROVE last'[k] = switch[k]
    BY <1>1, <2>6, ReportPasses DEF IInv, TypeOK
  <2>7. CASE Settle(k)
    <3>1. state[k].reported # state[k].actual /\ Report(k, SoFar(k)) /\ glitch' = [glitch EXCEPT ![k] = Changed(k)]
      BY <2>4, <2>5, <2>7 DEF Settle
    <3>2. ~ Changed(k)  BY <1>1, <3>1 DEF IInv, TypeOK
    <3> QED BY <2>3, <2>5, <2>6, <2>7, <3>1, <3>2 DEF Settle, Changed
  <2>8. CASE Change(k)
    <3>1. Report(k, FALSE) /\ state[k].settle = Settled /\ state[k].actual # switch[k]  BY <2>8 DEF Change, Changed
    <3> QED BY <2>3, <2>6, <3>1
  <2>9. CASE Bounce(k) \/ Pass(k)
    <3>1. (SoFar(k) /\ state[k].settle = Settled) \in BOOLEAN  OBVIOUS
    <3> QED BY <2>4, <2>9, <3>1 DEF Bounce, Pass
  <2> QED BY <2>1, <2>7, <2>8, <2>9 DEF Scan
<1>2. IInv /\ [Next]_vars => [\A k \in Key : Reports(k) /\ ~glitch[k] /\ ~glitch'[k] => last'[k] # last[k]]_vars
  BY <1>1
<1> QED BY <1>2, Invariant, PTL DEF Spec, Alternates

-----------------------------------------------------------------------------
(***************************************************************************)
(* The time that a key is given to settle.  When the counter d of the      *)
(* debounce is to come to t, Left scans are missing.  A key that settles   *)
(* is on time when the scans it has had and those that are missing come to *)
(* the settle time, but for the scans_max that depend on when it began.    *)
(***************************************************************************)
Rounds(d, t) == IF d.count <= t THEN t - d.count ELSE t - d.count + d.count_max + 1
Left(d, t) == Rounds(d, t) * (d.scans_max + 1) - d.scans
Long(d) == d.count_max * (d.scans_max + 1)

\* n scans since the last bounce, with the one that goes on when it has looked at the key.
OnTime(d, t, n, looked) ==
  /\ t \in 0..d.count_max
  /\ d.count_max = 0 => n = 0
  /\ d.count_max > 0 /\ looked =>
       /\ d.count # t
       /\ n + Left(d, t) \in Long(d) - d.scans_max..Long(d)
  /\ d.count_max > 0 /\ ~ looked =>
       /\ d.count # t \/ d.scans = 0
       /\ n + 1 + Left(d, t) \in Long(d) - d.scans_max..Long(d)

InRange(d) ==
  /\ d \in [count : Nat, count_max : Nat, scans : Nat, scans_max : Nat]
  /\ d.count <= d.count_max /\ d.scans <= d.scans_max

LEMMA LessOne == \A a, b \in Int : (a - 1) * b = a * b - b
OBVIOUS

\* What is left is some number of scans, and at least one when the counter is elsewhere.
LEMMA LeftPositive ==
  ASSUME NEW d, InRange(d), NEW t \in 0..d.count_max
  PROVE  /\ Left(d, t) \in Int
         /\ d.count # t => Rounds(d, t) \in 1..d.count_max /\ Left(d, t) > 0
         /\ d.count = t => Left(d, t) = 0 - d.scans
<1>1. d.count \in Nat /\ d.count_max \in Nat /\ d.scans \in Nat /\ d.scans_max \in Nat  BY DEF InRange
<1>2. Rounds(d, t) \in Int  BY <1>1 DEF Rounds
<1>3. ASSUME d.count # t PROVE Rounds(d, t) \in 1..d.count_max  BY <1>1, <1>3 DEF Rounds, InRange
<1>4. \A r, s \in Nat : r >= 1 => r * (s + 1) >= s + 1
  <2>1. \A r, s \in Nat : r >= 1 => (r - 1) * (s + 1) >= 0  OBVIOUS
  <2> QED BY <2>1
<1>5. ASSUME d.count # t PROVE Left(d, t) > 0
  <2>1. Rounds(d, t) * (d.scans_max + 1) >= d.scans_max + 1  BY <1>1, <1>3, <1>4, <1>5
  <2>2. Rounds(d, t) * (d.scans_max + 1) \in Int  BY <1>1, <1>2
  <2> QED BY <1>1, <2>1, <2>2 DEF Left, InRange
<1>6. Left(d, t) \in Int
  <2>1. Rounds(d, t) * (d.scans_max + 1) \in Int  BY <1>1, <1>2
  <2> QED BY <1>1, <2>1 DEF Left
<1>7. ASSUME d.count = t PROVE Left(d, t) = 0 - d.scans
  <2>1. Rounds(d, t) = 0  BY <1>1, <1>7 DEF Rounds
  <2> QED BY <1>1, <2>1 DEF Left
<1> QED BY <1>3, <1>5, <1>6, <1>7

\* start_debounce gives the key all of the rounds.
LEMMA BegunOnTime ==
  ASSUME NEW d, InRange(d)
  PROVE  OnTime(d, start_debounce(d), 0, TRUE)
<1>1. d.count \in Nat /\ d.count_max \in Nat /\ d.scans \in Nat /\ d.scans_max \in Nat
      /\ d.count <= d.count_max /\ d.scans <= d.scans_max
  BY DEF InRange
<1>2. start_debounce(d) \in 0..d.count_max  BY <1>1 DEF start_debounce
<1>3. Rounds(d, start_debounce(d)) = d.count_max  BY <1>1 DEF Rounds, start_debounce
<1>4. d.count_max > 0 => d.count # start_debounce(d)  BY <1>1 DEF start_debounce
<1>5. Long(d) \in Int  BY <1>1 DEF Long
<1>6. Left(d, start_debounce(d)) = Long(d) - d.scans  BY <1>3 DEF Left, Long
<1> QED BY <1>1, <1>2, <1>4, <1>5, <1>6 DEF OnTime

\* One more scan, and one less to go.
LEMMA NextOnTime ==
  ASSUME NEW d, InRange(d), NEW t, NEW n \in Nat, OnTime(d, t, n, TRUE)
  PROVE  OnTime(NextCount(d), t, n, FALSE)
<1> DEFINE e == NextCount(d)
<1>1. d.count \in Nat /\ d.count_max \in Nat /\ d.scans \in Nat /\ d.scans_max \in Nat
      /\ d.count <= d.count_max /\ d.scans <= d.scans_max /\ t \in 0..d.count_max
  BY DEF InRange, OnTime
<1>2. e.count_max = d.count_max /\ e.scans_max = d.scans_max  BY DEF InRange, NextCount
<1>3. Long(e) = Long(d)  BY <1>2 DEF Long
<1>4. CASE d.count_max = 0  BY <1>1, <1>2, <1>4 DEF OnTime
<1>5. CASE d.count_max > 0
  <2>1. d.count # t /\ n + Left(d, t) \in Long(d) - d.scans_max..Long(d)  BY <1>5 DEF OnTime
  <2>2. Left(d, t) \in Int /\ Rounds(d, t) \in 1..d.count_max  BY <1>1, <2>1, LeftPositive
  <2>3. (e.count # t \/ e.scans = 0) /\ Left(e, t) = Left(d, t) - 1
    <3>1. CASE d.scans + 1 <= d.scans_max
      <4>1. e.count = d.count /\ e.scans = d.scans + 1  BY <3>1 DEF InRange, NextCount
      <4>2. Rounds(e, t) = Rounds(d, t)  BY <1>2, <4>1 DEF Rounds
      <4>3. Rounds(d, t) * (d.scans_max + 1) \in Int  BY <1>1, <2>2
      <4> QED BY <1>1, <1>2, <2>1, <4>1, <4>2, <4>3 DEF Left
    <3>2. CASE ~ d.scans + 1 <= d.scans_max
      <4>1. e.count = (IF d.count + 1 > d.count_max THEN 0 ELSE d.count + 1) /\ e.scans = 0
        BY <3>2 DEF InRange, NextCount
      <4>2. d.scans = d.scans_max  BY <1>1, <3>2
      <4>3. Rounds(e, t) = Rounds(d, t) - 1  BY <1>1, <1>2, <2>1, <4>1 DEF Rounds
      <4>4. Rounds(e, t) * (d.scans_max + 1) = Rounds(d, t) * (d.scans_max + 1) - (d.scans_max + 1)
        BY <1>1, <2>2, <4>3, LessOne
      <4>5. Rounds(d, t) * (d.scans_max + 1) \in Int  BY <1>1, <2>2
      <4> QED BY <1>1, <1>2, <4>1, <4>2, <4>4, <4>5 DEF Left
    <3> QED BY <3>1, <3>2
  <2>4. Long(d) \in Int  BY <1>1 DEF Long
  <2>5. n + 1 + Left(e, t) = n + Left(d, t)  BY <2>2, <2>3
  <2> HIDE DEF e
  <2>6. OnTime(e, t, n, FALSE)  BY <1>1, <1>2, <1>3, <1>5, <2>1, <2>3, <2>5 DEF OnTime
  <2> QED BY <2>6 DEF e
<1>6. d.count_max = 0 \/ d.count_max > 0  BY <1>1
<1> QED BY <1>4, <1>5, <1>6

\* The scan looks at the key and its time is not over.
LEMMA PassedOnTime ==
  ASSUME NEW d, InRange(d), NEW t, NEW n \in Nat, OnTime(d, t, n, FALSE), d.count # t
  PROVE  OnTime(d, t, n + 1, TRUE)
<1>1. d.count \in Nat /\ d.count_max \in Nat /\ d.count <= d.count_max /\ t \in 0..d.count_max
  BY DEF InRange, OnTime
<1>2. d.count_max > 0  BY <1>1
<1> QED BY <1>1, <1>2 DEF OnTime

\* Its time is over: it had the whole of it.
LEMMA EndedOnTime ==
  ASSUME NEW d, InRange(d), NEW t, NEW n \in Nat, OnTime(d, t, n, FALSE), d.count = t
  PROVE  n + 1 \in (IF d.count_max = 0 THEN 1 ELSE Long(d)) - d.scans_max..(IF d.count_max = 0 THEN 1 ELSE Long(d))
<1>1. d.count_max \in Nat /\ d.scans \in Nat /\ d.scans_max \in Nat /\ t \in 0..d.count_max  BY DEF InRange, OnTime
<1>2. CASE d.count_max = 0  BY <1>1, <1>2 DEF OnTime
<1>3. CASE d.count_max > 0
  <2>1. d.scans = 0 /\ n + 1 + Left(d, t) \in Long(d) - d.scans_max..Long(d)  BY <1>3 DEF OnTime
  <2>2. Left(d, t) = 0  BY <1>1, <2>1, LeftPositive
  <2>3. Long(d) \in Int  BY <1>1 DEF Long
  <2> QED BY <1>3, <2>1, <2>2, <2>3
<1> QED BY <1>1, <1>2, <1>3

\* A key that still settles has not had its whole time.
LEMMA OnTimeYoung ==
  ASSUME NEW d, InRange(d), NEW t, NEW n \in Nat, NEW looked \in BOOLEAN, OnTime(d, t, n, looked)
  PROVE  n < (IF d.count_max = 0 THEN 1 ELSE Long(d))
<1>1. d.count_max \in Nat /\ d.scans \in Nat /\ d.scans_max \in Nat /\ t \in 0..d.count_max /\ Long(d) \in Int
  BY DEF InRange, OnTime, Long
<1>2. CASE d.count_max = 0  BY <1>2 DEF OnTime
<1>3. CASE d.count_max > 0 /\ looked
  <2>1. Left(d, t) \in Int /\ Left(d, t) > 0 /\ n + Left(d, t) <= Long(d)
    BY <1>1, <1>3, LeftPositive DEF OnTime
  <2> QED BY <1>1, <1>3, <2>1
<1>4. CASE d.count_max > 0 /\ ~ looked
  <2>1. Left(d, t) \in Int /\ Left(d, t) >= 0 /\ n + 1 + Left(d, t) <= Long(d)
    BY <1>1, <1>4, LeftPositive DEF OnTime
  <2> QED BY <1>1, <1>4, <2>1
<1> QED BY <1>1, <1>2, <1>3, <1>4

\* Every key that settles is on time, and the counter goes round as it should once a scan has begun.
SettleTimes ==
  /\ age \in [Key -> Nat]
  /\ debounce.scans_max > 0 => debounce.count_max = 2^COUNT_BITS - 1
  /\ ~ Waiting => InRange(debounce)
  /\ ~ Waiting => \A k \in Key : state[k].settle # Settled =>
                    /\ Looked(k) => OnTime(debounce, state[k].settle, age[k], TRUE)
                    /\ ~ Looked(k) => OnTime(debounce, state[k].settle, age[k], FALSE)

TInv == IInv /\ SettleTimes

\* The first count of a scan brings the counter back into its range after a new tuning.
LEMMA NextInRange ==
  ASSUME TypeOK, SettleTimes
  PROVE  /\ InRange(NextCount(debounce))
         /\ NextCount(debounce).count_max = debounce.count_max /\ NextCount(debounce).scans_max = debounce.scans_max
<1> DEFINE d == debounce
           e == NextCount(debounce)
           M == 2^COUNT_BITS
<1>1. /\ M \in Nat \ {0} /\ d.count \in 0..M - 1 /\ d.count_max \in 0..M - 1 /\ d.scans \in Nat /\ d.scans_max \in Nat
      /\ d.scans_max > 0 => d.count_max = M - 1
  BY Constants DEF TypeOK, SettleTimes
<1>2. CASE d.scans + 1 <= d.scans_max
  <2>1. e = [d EXCEPT !.scans = @ + 1]  BY <1>2 DEF NextCount
  <2>2. d \in Counter  BY DEF TypeOK
  <2>3. e.count = d.count /\ e.count_max = d.count_max /\ e.scans = d.scans + 1 /\ e.scans_max = d.scans_max
        /\ e = [count |-> e.count, count_max |-> e.count_max, scans |-> e.scans, scans_max |-> e.scans_max]
    BY <2>1, <2>2
  <2>4. d.count <= d.count_max  BY <1>1, <1>2
  <2> HIDE DEF d, e, M
  <2>5. InRange(e)  BY <1>1, <1>2, <2>3, <2>4 DEF InRange
  <2> QED BY <2>3, <2>5 DEF d, e
<1>3. CASE ~ d.scans + 1 <= d.scans_max
  <2> DEFINE c == IF d.count + 1 > d.count_max THEN 0 ELSE d.count + 1
  <2>1. e = [d EXCEPT !.scans = 0, !.count = c]  BY <1>3 DEF NextCount
  <2>2. d \in Counter  BY DEF TypeOK
  <2>3. c \in Nat /\ c <= d.count_max  BY <1>1
  <2> HIDE DEF c
  <2>4. e.count = c /\ e.count_max = d.count_max /\ e.scans = 0 /\ e.scans_max = d.scans_max
        /\ e = [count |-> e.count, count_max |-> e.count_max, scans |-> e.scans, scans_max |-> e.scans_max]
    BY <2>1, <2>2
  <2> HIDE DEF d, e, M
  <2>5. InRange(e)  BY <1>1, <1>3, <2>3, <2>4 DEF InRange
  <2> QED BY <2>4, <2>5 DEF d, e
<1> QED BY <1>2, <1>3

\* A scan begins: every key that settles has one scan less to go.
LEMMA StartTimes ==
  ASSUME IInv, SettleTimes, NEW s \in Place, StartScan(s), s.sending = NoEvent, UNCHANGED <<state, age>>,
         Waiting \/ (scan.sending = NoEvent /\ \A k \in Key : Looked(k))
  PROVE  SettleTimes'
<1>1. debounce' = NextCount(debounce)  BY DEF StartScan
<1>2. scan'.at = 1 /\ scan'.sending = NoEvent /\ ~ Waiting'  BY DEF StartScan, Waiting
<1>3. \A k \in Key : ~ Looked(k)'  BY <1>2, Constants DEF Looked, Key
<1>4. InRange(debounce') /\ debounce'.count_max = debounce.count_max /\ debounce'.scans_max = debounce.scans_max
  BY <1>1, NextInRange DEF IInv
<1>5. ASSUME NEW k \in Key, state[k].settle # Settled
      PROVE  OnTime(debounce', state[k].settle, age[k], FALSE)
  <2>1. ~ Waiting /\ Looked(k)  BY <1>5 DEF IInv, TwoScans
  <2>2. InRange(debounce) /\ OnTime(debounce, state[k].settle, age[k], TRUE) /\ age[k] \in Nat
    BY <1>5, <2>1 DEF SettleTimes
  <2> QED BY <1>1, <2>2, NextOnTime
<1>6. age' \in [Key -> Nat]  BY DEF SettleTimes
<1>7. debounce'.scans_max > 0 => debounce'.count_max = 2^COUNT_BITS - 1  BY <1>4 DEF SettleTimes
<1>8. \A k \in Key : state'[k].settle # Settled => OnTime(debounce', state'[k].settle, age'[k], FALSE)
  BY <1>5
<1> HIDE DEF Looked, Waiting
<1> QED BY <1>3, <1>4, <1>6, <1>7, <1>8 DEF SettleTimes

\* The scan looks at key k; the other keys are where they were.
LEMMA LookTimes ==
  ASSUME IInv, SettleTimes, NEW k \in Key, NEW up \in BOOLEAN, NEW b, Passed(k, up), Look(k, b),
         debounce' = debounce, age' \in [Key -> Nat], \A j \in Key : j # k => age'[j] = age[j],
         b.settle # Settled => OnTime(debounce, b.settle, age'[k], TRUE)
  PROVE  SettleTimes'
<1>1. scan.at = k /\ scan.sending = NoEvent /\ ~ Waiting
  BY Constants DEF Look, Key, Waiting
<1>2. \A j \in Key : state'[j] = IF j = k THEN b ELSE state[j]  BY DEF Look, IInv, TypeOK
<1>3. /\ ~ Waiting'
      /\ \A j \in Key : Looked(j)' <=> (Looked(j) \/ j = k)
  BY <1>1, OneMore DEF Waiting, Looked, IInv
<1>4. InRange(debounce') /\ (debounce'.scans_max > 0 => debounce'.count_max = 2^COUNT_BITS - 1)
  BY <1>1 DEF SettleTimes
<1>5. ASSUME NEW j \in Key, state'[j].settle # Settled
      PROVE  /\ Looked(j)' => OnTime(debounce', state'[j].settle, age'[j], TRUE)
             /\ ~ Looked(j)' => OnTime(debounce', state'[j].settle, age'[j], FALSE)
  <2>1. CASE j = k
    <3>1. OnTime(debounce', state'[j].settle, age'[j], TRUE) /\ Looked(j)'  BY <1>2, <1>3, <1>5, <2>1
    <3> QED BY <3>1
  <2>2. CASE j # k
    <3>1. state'[j] = state[j] /\ age'[j] = age[j] /\ (Looked(j)' <=> Looked(j))  BY <1>2, <1>3, <2>2
    <3>2. /\ Looked(j) => OnTime(debounce, state[j].settle, age[j], TRUE)
          /\ ~ Looked(j) => OnTime(debounce, state[j].settle, age[j], FALSE)
      BY <1>1, <1>5, <3>1 DEF SettleTimes
    <3> HIDE DEF Looked
    <3> QED BY <3>1, <3>2
  <2> QED BY <2>1, <2>2
<1> HIDE DEF Looked, Waiting
<1> QED BY <1>3, <1>4, <1>5 DEF SettleTimes

\* What is known of the key that the scan looks at.
LEMMA AtKey ==
  ASSUME TInv, NEW k \in Key, NEW b, Look(k, b)
  PROVE  /\ scan.at = k /\ ~ Waiting /\ ~ Looked(k) /\ InRange(debounce) /\ age[k] \in Nat
         /\ state[k].settle # Settled => OnTime(debounce, state[k].settle, age[k], FALSE)
<1>1. scan.at = k /\ ~ Waiting /\ ~ Looked(k)  BY Constants DEF Look, Key, Waiting, Looked
<1> QED BY <1>1 DEF TInv, SettleTimes

LEMMA ScanTimes ==
  ASSUME TInv, NEW k \in Key, Scan(k)
  PROVE  SettleTimes'
<1>1. /\ debounce' = debounce /\ TypeOK /\ SoFar(k) \in BOOLEAN /\ age \in [Key -> Nat]
  BY Fields DEF Scan, TInv, IInv, SettleTimes
<1>2. CASE Settle(k)
  <2> DEFINE b == [state[k] EXCEPT !.settle = Settled]
  <2>1. Look(k, b) /\ b.settle = Settled /\ age' = age  BY <1>2 DEF Settle, TInv, IInv, TypeOK
  <2>2. Passed(k, SoFar(k))  BY <1>1, <1>2, ReportPasses, QuietPasses DEF Settle
  <2> HIDE DEF b
  <2> QED BY <1>1, <2>1, <2>2, LookTimes DEF TInv
<1>3. CASE Bounce(k)
  <2> DEFINE b == [settle |-> start_debounce(debounce), reported |-> state[k].reported, actual |-> switch[k]]
  <2>1. Look(k, b) /\ b.settle = start_debounce(debounce) /\ age' = [age EXCEPT ![k] = 0]  BY <1>3 DEF Bounce
  <2>2. Passed(k, FALSE)  BY <1>1, <1>3, QuietPasses DEF Bounce
  <2>3. OnTime(debounce, start_debounce(debounce), 0, TRUE)  BY <2>1, AtKey, BegunOnTime
  <2>4. age' \in [Key -> Nat] /\ age'[k] = 0 /\ \A j \in Key : j # k => age'[j] = age[j]  BY <1>1, <2>1
  <2> HIDE DEF b
  <2> QED BY <1>1, <2>1, <2>2, <2>3, <2>4, LookTimes DEF TInv
<1>4. CASE Change(k)
  <2> DEFINE b == [settle |-> start_debounce(debounce), reported |-> switch[k], actual |-> switch[k]]
  <2>1. Look(k, b) /\ b.settle = start_debounce(debounce) /\ age' = [age EXCEPT ![k] = 0]  BY <1>4 DEF Change
  <2>2. Passed(k, FALSE)  BY <1>1, <1>4, ReportPasses DEF Change
  <2>3. OnTime(debounce, start_debounce(debounce), 0, TRUE)  BY <2>1, AtKey, BegunOnTime
  <2>4. age' \in [Key -> Nat] /\ age'[k] = 0 /\ \A j \in Key : j # k => age'[j] = age[j]  BY <1>1, <2>1
  <2> HIDE DEF b
  <2> QED BY <1>1, <2>1, <2>2, <2>3, <2>4, LookTimes DEF TInv
<1>5. CASE Pass(k)
  <2> DEFINE up == SoFar(k) /\ state[k].settle = Settled
  <2>1. Look(k, state[k]) /\ Passed(k, up) /\ up \in BOOLEAN  BY <1>1, <1>5, QuietPasses DEF Pass
  <2>2. age' = IF state[k].settle # Settled THEN [age EXCEPT ![k] = @ + 1] ELSE age  BY <1>5 DEF Pass
  <2>3. age[k] \in Nat  BY <1>1
  <2>4. age' \in [Key -> Nat] /\ \A j \in Key : j # k => age'[j] = age[j]  BY <1>1, <2>2, <2>3
  <2>5. ASSUME state[k].settle # Settled PROVE OnTime(debounce, state[k].settle, age'[k], TRUE)
    <3>1. OnTime(debounce, state[k].settle, age[k], FALSE) /\ InRange(debounce)  BY <2>1, <2>5, AtKey
    <3>2. debounce.count # state[k].settle  BY <1>5, <2>5 DEF Pass, Ends
    <3>3. OnTime(debounce, state[k].settle, age[k] + 1, TRUE)  BY <2>3, <3>1, <3>2, PassedOnTime
    <3>4. age'[k] = age[k] + 1  BY <1>1, <2>2, <2>5
    <3> QED BY <3>3, <3>4
  <2> HIDE DEF up
  <2> QED BY <1>1, <2>1, <2>4, <2>5, LookTimes DEF TInv
<1> QED BY <1>2, <1>3, <1>4, <1>5 DEF Scan

LEMMA EndScanTimes ==
  ASSUME TInv, EndScan
  PROVE  SettleTimes'
<1>1. IInv /\ SettleTimes  BY DEF TInv
<1>2. /\ ~ Waiting /\ scan.sending = NoEvent /\ \A k \in Key : Looked(k)
  <2>1. scan.at = KEYS + 1 /\ scan.at \notin Key /\ scan.at # 0  BY Constants DEF EndScan, Key
  <2> QED BY <1>1, <2>1, Constants DEF IInv, TwoScans, Waiting, Looked, Key
<1>3. AllUp \in Place /\ AllUp.sending = NoEvent  BY <1>1, <1>2, AllUpPlace DEF IInv
<1>4. UNCHANGED <<state, age>>  BY DEF EndScan
<1>5. CASE CalcDebounceCycle /\ scan' = [AllUp EXCEPT !.at = 0, !.all_up = FALSE]
  <2>1. Waiting'  BY <1>3, <1>5 DEF Waiting
  <2>2. debounce'.scans_max > 0 => debounce'.count_max = 2^COUNT_BITS - 1
    <3>1. CASE UNCHANGED debounce  BY <1>1, <3>1 DEF SettleTimes
    <3>2. CASE ~ UNCHANGED debounce
      <4>1. PICK c \in Cycles :
              debounce' = [debounce EXCEPT !.count_max = Tuned(c)[1], !.scans_max = Tuned(c)[2]]
        BY <1>5, <3>2 DEF CalcDebounceCycle
      <4>2. debounce'.count_max = Tuned(c)[1] /\ debounce'.scans_max = Tuned(c)[2]
        BY <1>1, <4>1 DEF IInv, TypeOK
      <4> QED BY <4>2, TuningAssumption
    <3> QED BY <3>1, <3>2
  <2> QED BY <1>1, <1>4, <2>1, <2>2 DEF SettleTimes
<1>6. CASE AllUp.all_up /\ AllUp.limit > 0 /\ StartScan([AllUp EXCEPT !.limit = @ - 1])
  <2> DEFINE s == [AllUp EXCEPT !.limit = @ - 1]
  <2>1. AllUp.limit - 1 \in 0..IDLE_WAIT_COUNT  BY <1>3, <1>6, Constants
  <2>2. s \in Place /\ s.sending = NoEvent  BY <1>3, <2>1
  <2>3. StartScan(s)  BY <1>6
  <2> HIDE DEF s
  <2> QED BY <1>1, <1>2, <1>4, <2>2, <2>3, StartTimes
<1>7. CASE StartScan(AllUp)  BY <1>1, <1>2, <1>3, <1>4, <1>7, StartTimes
<1> QED BY <1>5, <1>6, <1>7 DEF EndScan

LEMMA WakeTimes ==
  ASSUME TInv, Wake
  PROVE  SettleTimes'
<1>1. scan.sending = NoEvent /\ scan \in Place  BY Constants DEF Wake, TInv, IInv, TypeOK, TwoScans, Waiting, Key
<1> QED BY <1>1, StartTimes DEF TInv, Wake

\* The steps that neither scan a key nor count.
LEMMA OtherTimes ==
  ASSUME TInv, UNCHANGED <<state, debounce, age>>,
         UNCHANGED scan \/ Sent
  PROVE  SettleTimes'
<1>1. CASE UNCHANGED scan  BY <1>1 DEF TInv, SettleTimes, Waiting, Looked
<1>2. CASE Sent
  <2>1. /\ scan.at \in 1..KEYS /\ ~ Waiting
        /\ scan' = [scan EXCEPT !.at = @ + 1, !.sending = NoEvent]
    BY <1>2, Constants DEF TInv, IInv, TwoScans, Sent, Key, Waiting
  <2>2. scan'.at = scan.at + 1 /\ scan'.sending = NoEvent
    BY <2>1, Constants DEF TInv, IInv, TypeOK
  <2>3. \A k \in Key : Looked(k)' <=> Looked(k)
    BY <1>2, <2>1, <2>2, Constants DEF Looked, Sent, Key
  <2> QED BY <2>1, <2>3 DEF TInv, SettleTimes
<1> QED BY <1>1, <1>2

LEMMA TimesInvariant == Spec => []TInv
<1>1. Init => TInv
  <2> SUFFICES ASSUME Init PROVE TInv  OBVIOUS
  <2>1. SettleTimes  BY DEF Init, SettleTimes, Waiting
  <2> QED BY <2>1, InitEstablishes DEF TInv
<1>2. TInv /\ [Next]_vars => TInv'
  <2> SUFFICES ASSUME TInv, [Next]_vars PROVE TInv'  OBVIOUS
  <2>1. IInv'  BY NextKeeps DEF TInv
  <2>2. ASSUME \E k \in Key : Scan(k) PROVE SettleTimes'  BY <2>2, ScanTimes
  <2>3. ASSUME Sent PROVE SettleTimes'  BY <2>3, OtherTimes DEF Sent
  <2>4. ASSUME EndScan PROVE SettleTimes'  BY <2>4, EndScanTimes
  <2>5. ASSUME Wake PROVE SettleTimes'  BY <2>5, WakeTimes
  <2>6. ASSUME Receive PROVE SettleTimes'  BY <2>6, OtherTimes DEF Receive
  <2>7. ASSUME \E k \in Key : Move(k) PROVE SettleTimes'  BY <2>7, OtherTimes DEF Move
  <2>8. ASSUME UNCHANGED vars PROVE SettleTimes'  BY <2>8, OtherTimes DEF vars
  <2>9. SettleTimes'  BY <2>2, <2>3, <2>4, <2>5, <2>6, <2>7, <2>8 DEF Next, Scanner
  <2> QED BY <2>1, <2>9 DEF TInv
<1> QED BY <1>1, <1>2, PTL DEF Spec

\* The maxima change only when the scanner comes to rest.
LEMMA SameMaxima ==
  ASSUME TInv, [Next]_vars, ~ Waiting'
  PROVE  debounce'.count_max = debounce.count_max /\ debounce'.scans_max = debounce.scans_max
<1>1. CASE UNCHANGED debounce  BY <1>1
<1>2. CASE \E s : StartScan(s)
  BY <1>2, NextInRange DEF StartScan, TInv, IInv
<1>3. CASE EndScan
  <2>1. AllUp \in Place  BY AllUpPlace DEF TInv, IInv
  <2>2. ~ scan' = [AllUp EXCEPT !.at = 0, !.all_up = FALSE]  BY <2>1 DEF Waiting
  <2> QED BY <1>2, <1>3, <2>2 DEF EndScan
<1>4. CASE Wake  BY <1>2, <1>4 DEF Wake
<1> QED BY <1>1, <1>3, <1>4 DEF Next, Scanner, Scan, Sent, Receive, Move, vars

\* A key that has changed is left alone for the whole of the settle time since its last bounce, to within
\* the scans that make up one count, and is taken to be settled right then: for any settle time, however
\* the counter goes round and however long the scanner waits for the mapper.
THEOREM SettlesOnTime == Spec => Debounced
<1>1. ASSUME TInv, TInv', [Next]_vars, NEW k \in Key, state[k].settle # Settled
      PROVE  IF state'[k].settle = Settled THEN age[k] + 1 \in Shortest..Longest ELSE age'[k] < Longest
  <2>1. CASE state'[k].settle # Settled
    <3>1. ~ Waiting'  BY <1>1, <2>1 DEF TInv, IInv, TwoScans
    <3>2. PICK looked \in BOOLEAN : OnTime(debounce', state'[k].settle, age'[k], looked)
      <4>1. CASE Looked(k)'  BY <1>1, <2>1, <3>1, <4>1 DEF TInv, SettleTimes
      <4>2. CASE ~ Looked(k)'  BY <1>1, <2>1, <3>1, <4>2 DEF TInv, SettleTimes
      <4> QED BY <4>1, <4>2
    <3>3. InRange(debounce') /\ age'[k] \in Nat  BY <1>1, <3>1 DEF TInv, SettleTimes
    <3>4. age'[k] < (IF debounce'.count_max = 0 THEN 1 ELSE Long(debounce'))  BY <3>2, <3>3, OnTimeYoung
    <3>5. debounce'.count_max = debounce.count_max /\ debounce'.scans_max = debounce.scans_max
      BY <1>1, <3>1, SameMaxima
    <3> QED BY <2>1, <3>4, <3>5 DEF Longest, Long
  <2>2. CASE state'[k].settle = Settled
    <3>1. state' # state  BY <1>1, <2>2
    <3>2. PICK j \in Key : Scan(j)
      BY <1>1, <3>1 DEF Next, Scanner, Sent, EndScan, Wake, Receive, Move, vars
    <3>3. start_debounce(debounce) # Settled  BY <1>1, CounterFits, Constants DEF TInv, IInv, Settled
    <3>4. state \in [Key -> Byte]  BY <1>1 DEF TInv, IInv, TypeOK
    <3>5. j = k /\ Settle(k)
      <4>1. ASSUME NEW b, Look(j, b) PROVE j = k /\ state'[k] = b
        BY <1>1, <2>2, <3>4, <4>1 DEF Look
      <4>2. ~ Bounce(j)
        <5>1. ASSUME Look(j, [settle |-> start_debounce(debounce), reported |-> state[j].reported, actual |-> switch[j]]) PROVE FALSE
          <6>1. state'[k].settle = start_debounce(debounce)  BY <4>1, <5>1
          <6> QED BY <2>2, <3>3, <6>1
        <5> QED BY <5>1 DEF Bounce
      <4>3. ~ Change(j)
        <5>1. ASSUME Look(j, [settle |-> start_debounce(debounce), reported |-> switch[j], actual |-> switch[j]]) PROVE FALSE
          <6>1. state'[k].settle = start_debounce(debounce)  BY <4>1, <5>1
          <6> QED BY <2>2, <3>3, <6>1
        <5> QED BY <5>1 DEF Change
      <4>4. ~ Pass(j)
        <5>1. ASSUME Look(j, state[j]) PROVE FALSE  BY <1>1, <2>2, <4>1, <5>1
        <5> QED BY <5>1 DEF Pass
      <4>5. Settle(j)  BY <3>2, <4>2, <4>3, <4>4 DEF Scan
      <4>6. j = k  BY <4>1, <4>5 DEF Settle
      <4> QED BY <4>5, <4>6
    <3>6. Look(k, [state[k] EXCEPT !.settle = Settled]) /\ debounce.count = state[k].settle
      BY <3>5 DEF Settle, Ends
    <3>7. InRange(debounce) /\ age[k] \in Nat /\ OnTime(debounce, state[k].settle, age[k], FALSE)
      BY <1>1, <3>6, AtKey
    <3>8. age[k] + 1 \in (IF debounce.count_max = 0 THEN 1 ELSE Long(debounce)) - debounce.scans_max
                         ..(IF debounce.count_max = 0 THEN 1 ELSE Long(debounce))
      BY <3>6, <3>7, EndedOnTime
    <3> QED BY <2>2, <3>8 DEF Longest, Shortest, Long
  <2> QED BY <2>1, <2>2
<1>2. TInv /\ TInv' /\ [Next]_vars =>
        [\A k \in Key : state[k].settle # Settled =>
           IF state'[k].settle = Settled THEN age[k] + 1 \in Shortest..Longest ELSE age'[k] < Longest]_vars
  BY <1>1
<1> QED BY <1>2, TimesInvariant, PTL DEF Spec, Debounced
=============================================================================
