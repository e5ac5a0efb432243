---------------------------- MODULE MapperProofs ----------------------------
(***************************************************************************)
(* What the mapper keeps for every keyboard, every program of macros and   *)
(* every interleaving of its tasks.                                        *)
(*                                                                         *)
(* Deadlines.  No wake-up of the mapper is lost: its handlers and the      *)
(* timer task implement the handshake DeadlineTimer, and whatever the      *)
(* mapper waits for has its deadline with the timer or on its way.  The    *)
(* invariant, TimesInv, holds between two handlers.  Inside a handler      *)
(* Handles(z, m) holds of the mapper m, which began as z: each step of a   *)
(* handler keeps it, a call of the list that run_action and macros work    *)
(* off included, and the length of that list is bounded by MAX_CALLS only. *)
(*                                                                         *)
(* Modifiers.  The host's modifiers are those the mapper has counted, once *)
(* the reports are written, if the keyboard KeepsCount.  Between two       *)
(* handlers no change is buffered and both are the same (Agreed).  Inside  *)
(* a handler changes are buffered (Taken, Owing), and the calls still to   *)
(* be made come in an order in which a flush is never late: only those can *)
(* wait that find nothing to put down (Patient), but for a sequence that   *)
(* goes on (Running) or modifiers whose code comes next (Urgent).  The     *)
(* invariant is ModifiersInv.                                              *)
(***************************************************************************)
EXTENDS Mapper, OrderLemmas, SequenceTheorems, TLAPS

Fields == {"keyboard", "stack", "memos", "macro", "frames", "active", "count", "up", "down", "reported", "chan",
           "given_up", "oneshot", "dual", "td", "mouse", "last", "memo_count", "now", "wait_time", "at_sig"}

(***************************************************************************)
(* What has nothing to do with time: reports, modifiers and layers.        *)
(***************************************************************************)
\* b is a, but for what is reported.
SameButReports(a, b) ==
  /\ DOMAIN b = Fields
  /\ b.keyboard = a.keyboard /\ b.stack = a.stack /\ b.memos = a.memos /\ b.macro = a.macro /\ b.frames = a.frames
  /\ b.active = a.active /\ b.oneshot = a.oneshot /\ b.dual = a.dual /\ b.td = a.td /\ b.mouse = a.mouse
  /\ b.last = a.last /\ b.memo_count = a.memo_count
  /\ b.now = a.now /\ b.wait_time = a.wait_time /\ b.at_sig = a.at_sig

LEMMA ButReportsOnce == ASSUME NEW a, DOMAIN a = Fields PROVE SameButReports(a, a)
  BY DEF SameButReports

LEMMA ButReportsTwice ==
  ASSUME NEW a, NEW b, NEW c, SameButReports(a, b), SameButReports(b, c) PROVE SameButReports(a, c)
  BY DEF SameButReports

LEMMA SendKeeps == ASSUME NEW a, DOMAIN a = Fields, NEW event PROVE SameButReports(a, Send(a, event))
  BY DEF Send, SameButReports, Fields

LEMMA SendModsKeeps ==
  ASSUME NEW a, DOMAIN a = Fields, NEW mods, NEW is_down, NEW pending
  PROVE  SameButReports(a, SendMods(a, mods, is_down, pending))
  BY SendKeeps, ButReportsOnce DEF SendMods

LEMMA FlushKeeps == ASSUME NEW a, DOMAIN a = Fields, NEW pending PROVE SameButReports(a, Flush(a, pending))
<1> DEFINE up == a.up \ a.down
           down == a.down \ a.up
           b == SendMods(a, up, FALSE, pending \/ down # {})
           c == SendMods(b, down, TRUE, pending)
<1>1. SameButReports(a, b)  BY SendModsKeeps
<1> HIDE DEF b
<1>2. SameButReports(b, c)
  <2>1. DOMAIN b = Fields  BY <1>1 DEF SameButReports
  <2> QED BY <2>1, SendModsKeeps
<1>3. SameButReports(a, c)  BY <1>1, <1>2, ButReportsTwice
<1>4. Flush(a, pending) = [c EXCEPT !.up = {}, !.down = {}]  BY DEF Flush, FlushChanges, b
<1> HIDE DEF c
<1> QED BY <1>3, <1>4 DEF SameButReports, Fields

LEMMA ReportKeeps == ASSUME NEW a, DOMAIN a = Fields, NEW event PROVE SameButReports(a, Report(a, event))
<1> DEFINE b == [a EXCEPT !.reported = @ + 1]
           c == Flush(b, TRUE)
<1>1. SameButReports(a, b)  BY DEF SameButReports, Fields
<1>2. SameButReports(b, c)  BY <1>1, FlushKeeps DEF SameButReports
<1> HIDE DEF b
<1>3. SameButReports(c, Send(c, event))
  <2>1. DOMAIN c = Fields  BY <1>2 DEF SameButReports
  <2> HIDE DEF c
  <2> QED BY <2>1, SendKeeps
<1>4. Report(a, event) = Send(c, event)  BY DEF Report, b
<1> HIDE DEF c
<1> QED BY <1>1, <1>2, <1>3, <1>4, ButReportsTwice

LEMMA WriteKeeps ==
  ASSUME NEW a, DOMAIN a = Fields, NEW mods, NEW n, NEW pending \in BOOLEAN
  PROVE  SameButReports(a, WriteModifiers(a, mods, n, pending))
<1> SUFFICES ASSUME NEW new PROVE SameButReports(a, Recount(a, new, mods, n, pending))  BY DEF WriteModifiers
<1> DEFINE b == [a EXCEPT !.count = new]
           changed == Changed(a.count, new, mods)
<1>1. SameButReports(a, b) /\ DOMAIN b = Fields  BY DEF SameButReports, Fields
<1>2. SameButReports(b, WriteChanged(b, changed, mods, n, pending))
  <2> HIDE DEF b, changed
  <2>1. CASE changed = {}  BY <1>1, <2>1, ButReportsOnce DEF WriteChanged
  <2>2. CASE changed # {} /\ pending  BY <1>1, <2>2 DEF WriteChanged, SameButReports, Fields
  <2>3. CASE changed # {} /\ ~ pending
    <3>1. PICK event : WriteChanged(b, changed, mods, n, pending) = Report(b, event)  BY <2>3 DEF WriteChanged
    <3> QED BY <1>1, <3>1, ReportKeeps
  <2> QED BY <2>1, <2>2, <2>3
<1> HIDE DEF b, changed
<1>3. Recount(a, new, mods, n, pending) = WriteChanged(b, changed, mods, n, pending)  BY DEF Recount, b, changed
<1> QED BY <1>1, <1>2, <1>3, ButReportsTwice

\* b is a, but for what no deadline depends on.
SameTimes(a, b) ==
  /\ DOMAIN b = Fields
  /\ b.keyboard = a.keyboard /\ b.memos = a.memos
  /\ b.dual = a.dual /\ b.td = a.td /\ b.mouse = a.mouse /\ b.last = a.last
  /\ b.now = a.now /\ b.wait_time = a.wait_time /\ b.at_sig = a.at_sig

LEMMA SameFields == ASSUME NEW a, NEW b, SameTimes(a, b) PROVE DOMAIN b = Fields
  BY DEF SameTimes

LEMMA SameOnce == ASSUME NEW a, DOMAIN a = Fields PROVE SameTimes(a, a)
  BY DEF SameTimes

LEMMA SameTwice ==
  ASSUME NEW a, NEW b, NEW c, SameTimes(a, b), SameTimes(b, c) PROVE SameTimes(a, c)
  BY DEF SameTimes

LEMMA ButReportsSame == ASSUME NEW a, NEW b, SameButReports(a, b) PROVE SameTimes(a, b)
  BY DEF SameButReports, SameTimes

LEMMA SendSame == ASSUME NEW a, DOMAIN a = Fields, NEW event PROVE SameTimes(a, Send(a, event))
  BY SendKeeps, ButReportsSame

LEMMA FlushSame == ASSUME NEW a, DOMAIN a = Fields, NEW pending PROVE SameTimes(a, Flush(a, pending))
  BY FlushKeeps, ButReportsSame

LEMMA ReportSame == ASSUME NEW a, DOMAIN a = Fields, NEW event PROVE SameTimes(a, Report(a, event))
  BY ReportKeeps, ButReportsSame

LEMMA WriteSame ==
  ASSUME NEW a, DOMAIN a = Fields, NEW mods, NEW n, NEW pending \in BOOLEAN
  PROVE  SameTimes(a, WriteModifiers(a, mods, n, pending))
  BY WriteKeeps, ButReportsSame

LEMMA PushWordSame == ASSUME NEW a, DOMAIN a = Fields, NEW w PROVE SameTimes(a, PushWord(a, w))
  BY DEF PushWord, SameTimes, Fields

LEMMA PopWordSame == ASSUME NEW a, DOMAIN a = Fields, NEW layern PROVE SameTimes(a, PopWord(a, layern))
  BY SameOnce DEF PopWord, SameTimes, Fields

LEMMA PushLayerSame == ASSUME NEW a, DOMAIN a = Fields, NEW layern PROVE SameTimes(a, PushLayer(a, layern))
<1> DEFINE b == PushWord(a, layern)
<1>1. SameTimes(a, b)  BY PushWordSame
<1>2. SameTimes(b, WriteModifiers(b, Layer(a, layern).mods, 1, FALSE))  BY <1>1, SameFields, WriteSame
<1> QED BY <1>1, <1>2, SameTwice DEF PushLayer

LEMMA PopLayerSame == ASSUME NEW a, DOMAIN a = Fields, NEW layern PROVE SameTimes(a, PopLayer(a, layern))
<1> DEFINE b == PopWord(a, layern)
<1>1. SameTimes(a, b)  BY PopWordSame
<1>2. SameTimes(b, WriteModifiers(b, Layer(a, layern).mods, -1, FALSE))  BY <1>1, SameFields, WriteSame
<1> QED BY <1>1, <1>2, SameOnce, SameTwice DEF PopLayer

LEMMA ModifierSame ==
  ASSUME NEW a, DOMAIN a = Fields, NEW idx, NEW is_down PROVE SameTimes(a, Modifier(a, idx, is_down))
<1> SUFFICES ASSUME NEW word, NEW layer, NEW n,
                    NEW b, b = IF is_down THEN PushWord(a, word) ELSE PopWord(a, layer)
             PROVE  SameTimes(a, WriteModifiers(b, {idx}, n, FALSE))
  BY DEF Modifier
<1>1. SameTimes(a, b)  BY PushWordSame, PopWordSame
<1>2. SameTimes(b, WriteModifiers(b, {idx}, n, FALSE))  BY <1>1, SameFields, WriteSame
<1> QED BY <1>1, <1>2, SameTwice

LEMMA LayerActionSame ==
  ASSUME NEW a, DOMAIN a = Fields, NEW base, NEW layern, NEW is_down
  PROVE  SameTimes(a, LayerAction(a, base, layern, is_down))
<1> DEFINE b == [a EXCEPT !.reported = @ + 1]
<1>1. SameTimes(a, b) /\ DOMAIN b = Fields  BY DEF SameTimes, Fields
<1>2. LayerAction(a, base, layern, is_down) \in
        {PushLayer(b, layern), PopLayer(b, layern), [b EXCEPT !.stack[1] = layern],
         [b EXCEPT !.oneshot = [type |-> "wait_up", layer |-> layern]], b}
  <2> HIDE DEF b
  <2> SUFFICES ASSUME NEW r, r = LayerAction(a, base, layern, is_down)
               PROVE  r \in {PushLayer(b, layern), PopLayer(b, layern), [b EXCEPT !.stack[1] = layern],
                             [b EXCEPT !.oneshot = [type |-> "wait_up", layer |-> layern]], b}
    OBVIOUS
  <2> QED BY DEF LayerAction, b
<1> HIDE DEF b
<1>3. SameTimes(b, PushLayer(b, layern)) /\ SameTimes(b, PopLayer(b, layern)) /\ SameTimes(b, b)
  BY <1>1, PushLayerSame, PopLayerSame, SameOnce
<1>4. SameTimes(b, [b EXCEPT !.stack[1] = layern])  BY <1>1 DEF SameTimes, Fields
<1>5. SameTimes(b, [b EXCEPT !.oneshot = [type |-> "wait_up", layer |-> layern]])
  BY <1>1 DEF SameTimes, Fields
<1> QED BY <1>1, <1>2, <1>3, <1>4, <1>5, SameTwice

LEMMA ClearsSame ==
  ASSUME NEW a, DOMAIN a = Fields
  PROVE  SameTimes(a, ClearCounts(a)) /\ SameTimes(a, ClearLayers(a)) /\ SameTimes(a, StopActive(a))
<1>1. SameTimes(a, ClearCounts(a))  BY DEF ClearCounts, SameTimes, Fields
<1>2. ASSUME NEW stack, NEW event
      PROVE  SameTimes(a, Report([ClearCounts(a) EXCEPT !.stack = stack], event))
  <2> DEFINE b == [ClearCounts(a) EXCEPT !.stack = stack]
  <2>1. SameTimes(a, b)  BY <1>1 DEF SameTimes, Fields
  <2> QED BY <2>1, SameFields, ReportSame, SameTwice
<1>3. SameTimes(a, ClearLayers(a))  BY <1>2 DEF ClearLayers
<1>4. PICK stack : [ClearCounts(a) EXCEPT !.stack = <<@[1]>> \o SelectSeq(Tail(@), LAMBDA w : w >= 5)]
                     = [ClearCounts(a) EXCEPT !.stack = stack]
  OBVIOUS
<1>5. SameTimes(a, StopActive(a))  BY <1>2, <1>4 DEF StopActive
<1> QED BY <1>1, <1>3, <1>5

-----------------------------------------------------------------------------
(***************************************************************************)
(* The times of a mapper while a handler runs.                             *)
(***************************************************************************)
Times == 0..LAST_TIME

\* How the bounds of the times are related, without their digits.
LEMMA Ends ==
  /\ NEVER \in Nat /\ U16MAX \in Nat /\ LAST_TIME \in Nat \ {0, 1}
  /\ LAST_TIME + U16MAX < NEVER /\ NoEvent = NEVER /\ NoSignal = -1
  BY SMT DEF NEVER, NoEvent, NoSignal, LAST_TIME, U16MAX

KeyOK(k) == DOMAIN k = {"key", "down", "time"} /\ k.time \in Times

DualOK(d) ==
  \/ d = NoDual
  \/ /\ DOMAIN d = {"type", "key", "duration", "tap_timeout", "tap", "hold", "count"}
     /\ d.type \in {"wait", "hold"} /\ KeyOK(d.key)
     /\ d.duration \in 0..U16MAX /\ d.tap_timeout \in 0..U16MAX

DanceOK(td) ==
  /\ DOMAIN td = {"location", "wait_until", "tap_timeout", "rem", "mods"}
  /\ td.wait_until \in 0..NEVER /\ td.tap_timeout \in 0..U16MAX

MouseOK(mouse, now) ==
  /\ DOMAIN mouse = {"keys", "start", "delta", "fraction", "count", "first", "last", "profile"}
  /\ mouse.count \in Nat /\ mouse.first \in Nat /\ mouse.last \in Nat /\ mouse.first + mouse.last <= now

MemoOK(memo) == IF memo.type = "key" THEN memo.time \in Times ELSE memo.down \in BOOLEAN

MemosOK(memos) == \E S : memos \in Seq(S) /\ \A memo \in S : MemoOK(memo)

LEMMA MemosOfSet ==
  ASSUME NEW S, \A memo \in S : MemoOK(memo), NEW memos \in Seq(S) PROVE MemosOK(memos)
  BY DEF MemosOK

TimesOK(m) ==
  /\ DOMAIN m = Fields /\ WellFormed(m.keyboard)
  /\ m.now \in Times \ {0} /\ m.wait_time \in 0..NEVER /\ m.at_sig \in 0..NEVER \cup {NoSignal}
  /\ KeyOK(m.last) /\ DualOK(m.dual) /\ DanceOK(m.td) /\ MouseOK(m.mouse, m.now)
  /\ MemosOK(m.memos)

\* Something is undecided that a deadline decides.
Waiting(m) ==
  \/ m.mouse.first # 0
  \/ m.dual.type = "wait"
  \/ m.td.location # 0 /\ m.td.wait_until # NEVER

\* The mapper waits for no deadline longer than it may.
Timely(m) ==
  /\ m.dual.type = "wait" => m.wait_time <= m.dual.key.time + m.dual.duration \/ m.wait_time <= m.now
  /\ m.td.location # 0 => m.wait_time <= m.td.wait_until \/ m.wait_time <= m.now
  /\ m.mouse.first # 0 => m.wait_time <= NextEventTime(m.mouse) \/ m.wait_time <= m.now

\* What a handler that began with z has told the timer: what it waits for, ...
Asked(m) == m.at_sig = m.wait_time

\* ... or nothing yet.
Silent(z, m) == m.wait_time = z.wait_time /\ m.at_sig = z.at_sig

\* Where a handler that began with z may be: what it changed has its deadline or will get it
\* from set_wait_time.
Tracks(z, m) ==
  /\ TimesOK(m) /\ m.keyboard = z.keyboard /\ m.now = z.now
  /\ Asked(m) \/ Silent(z, m)

\* What holds of the mapper m between two steps of a handler that began with z.
Handles(z, m) ==
  /\ Tracks(z, m) /\ Timely(m)
  /\ \/ Asked(m) /\ (Waiting(m) => m.wait_time # NEVER)
     \/ Silent(z, m) /\ (Waiting(m) => Waiting(z))

LEMMA TracksFields == ASSUME NEW z, NEW m, Tracks(z, m) PROVE DOMAIN m = Fields
  BY DEF Tracks, TimesOK

LEMMA HandlesTracks == ASSUME NEW z, NEW m, Handles(z, m) PROVE Tracks(z, m)
  BY DEF Handles

LEMMA HandlesFields == ASSUME NEW z, NEW m, Handles(z, m) PROVE DOMAIN m = Fields
  BY HandlesTracks, TracksFields

LEMMA SameTracks ==
  ASSUME NEW z, NEW a, NEW b, Tracks(z, a), SameTimes(a, b) PROVE Tracks(z, b)
<1>1. TimesOK(b)  BY DEF Tracks, TimesOK, SameTimes
<1> QED BY <1>1 DEF Tracks, Asked, Silent, SameTimes

LEMMA SameHandles ==
  ASSUME NEW z, NEW a, NEW b, Handles(z, a), SameTimes(a, b) PROVE Handles(z, b)
<1>1. Tracks(z, b)  BY HandlesTracks, SameTracks
<1>2. Timely(b)  BY DEF Handles, Timely, SameTimes
<1>3. (Waiting(b) <=> Waiting(a)) /\ (Asked(b) <=> Asked(a)) /\ (Silent(z, b) <=> Silent(z, a)) /\ b.wait_time = a.wait_time
  BY DEF Waiting, Asked, Silent, SameTimes
<1> QED BY <1>1, <1>2, <1>3 DEF Handles

LEMMA ReportHandles == ASSUME NEW z, NEW a, Handles(z, a), NEW event PROVE Handles(z, Report(a, event))
  BY HandlesFields, ReportSame, SameHandles

LEMMA FlushHandles == ASSUME NEW z, NEW a, Handles(z, a), NEW pending PROVE Handles(z, Flush(a, pending))
  BY HandlesFields, FlushSame, SameHandles

LEMMA WriteHandles ==
  ASSUME NEW z, NEW a, Handles(z, a), NEW mods, NEW n, NEW pending \in BOOLEAN
  PROVE  Handles(z, WriteModifiers(a, mods, n, pending))
  BY HandlesFields, WriteSame, SameHandles

\* When something is undecided the earliest of the deadlines comes before NEVER.
LEMMA EarliestDeadline ==
  ASSUME NEW m, TimesOK(m)
  PROVE  LET t == Earlier(Earlier(NextEventTime(m.mouse), WaitUntil(m.dual)),
                          IF m.td.location # 0 THEN m.td.wait_until ELSE NEVER)
         IN /\ NextEventTime(m.mouse) \in 0..NEVER /\ WaitUntil(m.dual) \in 0..NEVER
            /\ t \in 0..NEVER /\ (Waiting(m) <=> t # NEVER)
            /\ t <= NextEventTime(m.mouse) /\ t <= WaitUntil(m.dual)
            /\ m.td.location # 0 => t <= m.td.wait_until
            /\ m.dual.type = "wait" => WaitUntil(m.dual) <= m.dual.key.time + m.dual.duration
<1> DEFINE a == NextEventTime(m.mouse)
           b == WaitUntil(m.dual)
           c == IF m.td.location # 0 THEN m.td.wait_until ELSE NEVER
<1>1. a \in 0..NEVER /\ (m.mouse.first # 0 <=> a # NEVER)
  <2>1. m.mouse.first \in Nat /\ m.mouse.last \in Nat /\ m.now \in Times /\ m.mouse.first + m.mouse.last <= m.now
    BY DEF TimesOK, MouseOK
  <2>2. MOUSE_REPORT_TIME \in 0..U16MAX  BY TimeoutsAssumption
  <2> QED BY <2>1, <2>2, Ends DEF NextEventTime, Times
<1>2. /\ b \in 0..NEVER /\ (m.dual.type = "wait" <=> b # NEVER)
      /\ m.dual.type = "wait" => b <= m.dual.key.time + m.dual.duration
  <2>1. CASE m.dual.type # "wait"  BY <2>1, Ends DEF WaitUntil
  <2>2. CASE m.dual.type = "wait"
    <3>1. m.dual # NoDual  BY <2>2 DEF NoDual
    <3>2. m.dual.key.time \in 0..LAST_TIME /\ m.dual.duration \in 0..U16MAX /\ m.dual.tap_timeout \in 0..U16MAX
      BY <3>1 DEF TimesOK, DualOK, KeyOK, Times
    <3> QED BY <2>2, <3>2, Ends DEF WaitUntil, Earlier
  <2> QED BY <2>1, <2>2
<1>3. c \in 0..NEVER /\ (m.td.location # 0 /\ m.td.wait_until # NEVER <=> c # NEVER)
  BY Ends DEF TimesOK, DanceOK
<1> HIDE DEF a, b, c
<1>4. Earlier(Earlier(a, b), c) \in 0..NEVER /\ Earlier(Earlier(a, b), c) <= a
      /\ Earlier(Earlier(a, b), c) <= b /\ Earlier(Earlier(a, b), c) <= c
      /\ (Earlier(Earlier(a, b), c) = NEVER <=> a = NEVER /\ b = NEVER /\ c = NEVER)
  BY <1>1, <1>2, <1>3, Ends DEF Earlier
<1>5. Waiting(m) <=> Earlier(Earlier(a, b), c) # NEVER  BY <1>1, <1>2, <1>3, <1>4 DEF Waiting
<1> QED BY <1>1, <1>2, <1>3, <1>4, <1>5 DEF a, b, c

\* set_wait_time puts right what a handler left undecided before.
LEMMA SetWaitTimeHandles ==
  ASSUME NEW z, NEW m, Tracks(z, m)
  PROVE  /\ Handles(z, SetWaitTime(m))
         /\ m.wait_time # NEVER \/ Asked(m) => Asked(SetWaitTime(m))
<1> DEFINE d == IF m.td.location # 0 THEN m.td.wait_until ELSE NEVER
           t == Earlier(Earlier(NextEventTime(m.mouse), WaitUntil(m.dual)), IF m.macro # Noop THEN m.now ELSE d)
           r == WaitFor(m, t)
<1> TimesOK(m)  BY DEF Tracks
<1>0. SetWaitTime(m) = r  BY DEF SetWaitTime
<1>1. /\ NextEventTime(m.mouse) \in 0..NEVER /\ WaitUntil(m.dual) \in 0..NEVER
      /\ Waiting(m) => Earlier(Earlier(NextEventTime(m.mouse), WaitUntil(m.dual)), d) # NEVER
      /\ m.dual.type = "wait" => WaitUntil(m.dual) <= m.dual.key.time + m.dual.duration
  BY EarliestDeadline
<1>2. m.now \in 1..LAST_TIME /\ m.wait_time \in 0..NEVER /\ m.at_sig \in 0..NEVER \cup {NoSignal} /\ DOMAIN m = Fields
  BY Ends DEF TimesOK, Times
<1>3. d \in 0..NEVER /\ (m.td.location # 0 => d = m.td.wait_until)  BY Ends DEF TimesOK, DanceOK
<1> HIDE DEF d
<1>4. /\ t \in 0..NEVER /\ (Waiting(m) => t # NEVER)
      /\ t <= NextEventTime(m.mouse) /\ t <= WaitUntil(m.dual) /\ (t <= d \/ t <= m.now)
  BY <1>1, <1>2, <1>3, Ends DEF Earlier
<1> HIDE DEF t
<1>5. /\ DOMAIN r = Fields /\ r.wait_time = t
      /\ r.at_sig = t \/ (t = NEVER /\ m.wait_time = NEVER /\ r.at_sig = m.at_sig)
      /\ r.keyboard = m.keyboard /\ r.memos = m.memos /\ r.dual = m.dual /\ r.td = m.td
      /\ r.mouse = m.mouse /\ r.last = m.last /\ r.now = m.now
  BY <1>2 DEF WaitFor, Fields
<1> HIDE DEF r
<1>6. TimesOK(r)  BY <1>2, <1>4, <1>5 DEF TimesOK
<1>7. Timely(r)
  <2>1. m.dual.type = "wait" => m.dual.key.time + m.dual.duration \in Int
    <3>1. ASSUME m.dual.type = "wait" PROVE m.dual.key.time \in Int /\ m.dual.duration \in Int
      <4>1. m.dual # NoDual  BY <3>1 DEF NoDual
      <4> QED BY <4>1 DEF TimesOK, DualOK, KeyOK, Times
    <3> QED BY <3>1
  <2> QED BY <1>1, <1>2, <1>3, <1>4, <1>5, <2>1 DEF Timely
<1>8. Waiting(r) <=> Waiting(m)  BY <1>5 DEF Waiting
<1>9. CASE r.at_sig = t  BY <1>0, <1>4, <1>5, <1>6, <1>7, <1>8, <1>9 DEF Handles, Tracks, Asked
<1>10. CASE t = NEVER /\ m.wait_time = NEVER /\ r.at_sig = m.at_sig
  BY <1>0, <1>4, <1>5, <1>6, <1>7, <1>8, <1>10 DEF Handles, Tracks, Asked, Silent
<1>11. m.wait_time # NEVER \/ Asked(m) => Asked(r)  BY <1>5 DEF Asked
<1> QED BY <1>0, <1>5, <1>9, <1>10, <1>11

\* clear_all leaves nothing undecided.
LEMMA ClearAllHandles == ASSUME NEW z, NEW a, Handles(z, a) PROVE Handles(z, ClearAll(a))
<1> DEFINE b == ClearTimes(a)
           c == ClearActive(b)
<1>1. /\ DOMAIN b = Fields /\ b.td = [a.td EXCEPT !.location = 0, !.wait_until = NEVER]
      /\ b.mouse = MouseCleared(a.mouse) /\ b.memos = << >> /\ b.dual = NoDual
      /\ b.keyboard = a.keyboard /\ b.last = a.last /\ b.now = a.now
      /\ b.wait_time = a.wait_time /\ b.at_sig = a.at_sig
  BY HandlesFields DEF ClearTimes, Fields
<1> HIDE DEF b
<1>2. DanceOK(b.td) /\ b.td.location = 0
  <2>1. DanceOK(a.td)  BY DEF Handles, Tracks, TimesOK
  <2> QED BY <1>1, <2>1, Ends DEF DanceOK
<1>3. MouseOK(b.mouse, b.now) /\ b.mouse.first = 0
  <2>1. a.now \in Nat  BY DEF Handles, Tracks, TimesOK, Times
  <2> QED BY <1>1, <2>1 DEF MouseCleared, NoMouse, MouseOK
<1>4. MemosOK(b.memos)
  <2>1. << >> \in Seq({}) /\ \A memo \in {} : MemoOK(memo)  BY EmptySeq
  <2>2. MemosOK(<< >>)  BY <2>1, MemosOfSet
  <2> QED BY <1>1, <2>2
<1>5. TimesOK(b)  BY <1>1, <1>2, <1>3, <1>4 DEF Handles, Tracks, TimesOK, DualOK
<1>6. ~ Waiting(b) /\ Timely(b)  BY <1>1, <1>2, <1>3 DEF Waiting, Timely, NoDual
<1>7. Handles(z, b)  BY <1>1, <1>5, <1>6 DEF Handles, Tracks, Asked, Silent
<1>8. SameTimes(b, c)  BY <1>1 DEF ClearActive, ClearCounts, SameTimes, Fields
<1> HIDE DEF c
<1>9. Handles(z, c)  BY <1>7, <1>8, SameHandles
<1> QED BY <1>9, ReportHandles DEF ClearAll, b, c

LEMMA FirmwareActionHandles ==
  ASSUME NEW z, NEW a, Handles(z, a), NEW action, NEW is_down
  PROVE  Handles(z, FirmwareAction(a, action, is_down))
<1> DEFINE b == Cleared(a, action)
<1>1. DOMAIN a = Fields  BY HandlesFields
<1>2. Handles(z, ClearLayers(a)) /\ Handles(z, StopActive(a))  BY <1>1, ClearsSame, SameHandles
<1>3. Handles(z, b)  BY <1>2, ClearAllHandles DEF Cleared
<1> HIDE DEF b
<1>4. SameTimes(b, [b EXCEPT !.reported = IF is_down THEN @ ELSE a.reported])
  BY <1>3, HandlesFields DEF SameTimes, Fields
<1> QED BY <1>3, <1>4, SameHandles DEF FirmwareAction, b

-----------------------------------------------------------------------------
(***************************************************************************)
(* The actions.                                                            *)
(***************************************************************************)
LEMMA MoveOK ==
  ASSUME NEW now \in Nat \ {0}, NEW mouse, MouseOK(mouse, now), NEW code, NEW is_down \in BOOLEAN
  PROVE  MouseOK(Move(mouse, code, is_down, now), now)
<1> DEFINE a == Axis(code)
           b == Steer(mouse, a, Direction(code), is_down)
<1>1. MouseOK(b, now)  BY DEF Steer, MouseOK
<1> HIDE DEF a, b
<1>2. MouseOK(Count(b, a, is_down, now), now)
  <2>0. b.count \in Nat  BY <1>1 DEF MouseOK
  <2>1. CASE is_down /\ b.count < 4
    <3> DEFINE c == FirstDown(b, now)
    <3>1. MouseOK(c, now)  BY <1>1 DEF FirstDown, MouseOK
    <3>2. Count(b, a, is_down, now) = [c EXCEPT !.count = @ + 1, !.start[a] = now - c.first]
      BY <2>0, <2>1 DEF Count
    <3> HIDE DEF c
    <3> QED BY <3>1, <3>2 DEF MouseOK
  <2>2. CASE is_down /\ b.count >= 4  BY <1>1, <2>2 DEF Count, MouseOK
  <2>3. CASE ~ is_down /\ b.count > 1  BY <1>1, <2>3 DEF Count, MouseOK
  <2>4. CASE ~ is_down /\ b.count <= 1  BY <1>1, <2>4 DEF Count, MouseOK
  <2> QED BY <2>0, <2>1, <2>2, <2>3, <2>4
<1> QED BY <1>2 DEF Move, a, b

LEMMA SetWaitTimeOK == ASSUME NEW z, NEW m, Tracks(z, m) PROVE Handles(z, SetWaitTime(m))
  BY SetWaitTimeHandles

\* A handler that changes the mouse, the dual action or the tap dance and then sets the time.
LEMMA MouseTracks ==
  ASSUME NEW z, NEW m, Tracks(z, m), NEW mouse, MouseOK(mouse, m.now)
  PROVE  Tracks(z, [m EXCEPT !.mouse = mouse])
<1> DEFINE b == [m EXCEPT !.mouse = mouse]
<1>1. /\ DOMAIN b = Fields /\ b.mouse = mouse /\ b.keyboard = m.keyboard /\ b.memos = m.memos
      /\ b.dual = m.dual /\ b.td = m.td /\ b.last = m.last
      /\ b.now = m.now /\ b.wait_time = m.wait_time /\ b.at_sig = m.at_sig
  BY TracksFields DEF Fields
<1> HIDE DEF b
<1>2. TimesOK(b)  BY <1>1 DEF Tracks, TimesOK
<1> QED BY <1>1, <1>2 DEF Tracks, Asked, Silent, b

LEMMA DualTracks ==
  ASSUME NEW z, NEW m, Tracks(z, m), NEW dual, DualOK(dual)
  PROVE  Tracks(z, [m EXCEPT !.dual = dual])
<1> DEFINE b == [m EXCEPT !.dual = dual]
<1>1. /\ DOMAIN b = Fields /\ b.mouse = m.mouse /\ b.keyboard = m.keyboard /\ b.memos = m.memos
      /\ b.dual = dual /\ b.td = m.td /\ b.last = m.last
      /\ b.now = m.now /\ b.wait_time = m.wait_time /\ b.at_sig = m.at_sig
  BY TracksFields DEF Fields
<1> HIDE DEF b
<1>2. TimesOK(b)  BY <1>1 DEF Tracks, TimesOK
<1> QED BY <1>1, <1>2 DEF Tracks, Asked, Silent, b

LEMMA DanceTracks ==
  ASSUME NEW z, NEW m, Tracks(z, m), NEW td, DanceOK(td)
  PROVE  Tracks(z, [m EXCEPT !.td = td])
<1> DEFINE b == [m EXCEPT !.td = td]
<1>1. /\ DOMAIN b = Fields /\ b.mouse = m.mouse /\ b.keyboard = m.keyboard /\ b.memos = m.memos
      /\ b.dual = m.dual /\ b.td = td /\ b.last = m.last
      /\ b.now = m.now /\ b.wait_time = m.wait_time /\ b.at_sig = m.at_sig
  BY TracksFields DEF Fields
<1> HIDE DEF b
<1>2. TimesOK(b)  BY <1>1 DEF Tracks, TimesOK
<1> QED BY <1>1, <1>2 DEF Tracks, Asked, Silent, b

LEMMA TracksNow == ASSUME NEW z, NEW m, Tracks(z, m) PROVE m.now \in Nat \ {0} /\ m.now \in Times
  BY Ends DEF Tracks, TimesOK, Times

\* The mouse keys: a button and an acceleration change no deadline.
LEMMA MouseKeyHandles ==
  ASSUME NEW z, NEW m, Handles(z, m), NEW code \in 0..18, NEW is_down \in BOOLEAN
  PROVE  Handles(z, MouseKey(m, code, is_down))
<1>0. Tracks(z, m) /\ DOMAIN m = Fields  BY HandlesTracks, TracksFields
<1>1. ASSUME NEW mouse, DOMAIN mouse = DOMAIN m.mouse, mouse.count = m.mouse.count,
             mouse.first = m.mouse.first, mouse.last = m.mouse.last
      PROVE  Handles(z, [m EXCEPT !.mouse = mouse])
  <2> DEFINE b == [m EXCEPT !.mouse = mouse]
  <2>1. MouseOK(mouse, m.now)  BY <1>0, <1>1 DEF Tracks, TimesOK, MouseOK
  <2>2. Tracks(z, b)  BY <1>0, <2>1, MouseTracks
  <2>3. /\ b.mouse = mouse /\ b.dual = m.dual /\ b.td = m.td
        /\ b.now = m.now /\ b.wait_time = m.wait_time /\ b.at_sig = m.at_sig
    BY <1>0 DEF Fields
  <2> HIDE DEF b
  <2>4. Timely(b)  BY <1>1, <2>3 DEF Handles, Timely, NextEventTime
  <2>5. Waiting(b) <=> Waiting(m)  BY <1>1, <2>3 DEF Waiting
  <2> QED BY <2>2, <2>3, <2>4, <2>5 DEF Handles, Tracks, Asked, Silent, b
<1>2. MouseOK(m.mouse, m.now)  BY <1>0 DEF Tracks, TimesOK
<1>3. CASE code < MOUSE_DELTA
  <2> DEFINE mouse == Button(m.mouse, code, is_down)
  <2>1. /\ DOMAIN mouse = DOMAIN m.mouse /\ mouse.count = m.mouse.count
        /\ mouse.first = m.mouse.first /\ mouse.last = m.mouse.last
    BY <1>2 DEF Button, MouseOK
  <2>2. MouseKey(m, code, is_down) = Report([m EXCEPT !.mouse = mouse], MouseButton(mouse.keys))
    BY <1>3 DEF MouseKey, MOUSE_DELTA, MOUSE_ACCEL
  <2> HIDE DEF mouse
  <2> QED BY <1>1, <2>1, <2>2, ReportHandles
<1>4. CASE code \in MOUSE_DELTA..(MOUSE_DELTA + 7)
  <2> DEFINE mouse == Move(m.mouse, code, is_down, m.now)
  <2>1. MouseOK(mouse, m.now)  BY <1>0, <1>2, MoveOK, TracksNow
  <2>2. MouseKey(m, code, is_down) = SetWaitTime([m EXCEPT !.mouse = mouse])
    BY <1>4 DEF MouseKey, MOUSE_DELTA, MOUSE_ACCEL
  <2> HIDE DEF mouse
  <2> QED BY <1>0, <2>1, <2>2, MouseTracks, SetWaitTimeOK
<1>5. CASE code \in MOUSE_ACCEL..(MOUSE_ACCEL + 2)
  <2> DEFINE mouse == [m.mouse EXCEPT !.profile = code - MOUSE_ACCEL]
  <2>1. /\ DOMAIN mouse = DOMAIN m.mouse /\ mouse.count = m.mouse.count
        /\ mouse.first = m.mouse.first /\ mouse.last = m.mouse.last
    BY <1>2 DEF MouseOK
  <2>2. MouseKey(m, code, is_down) = [m EXCEPT !.mouse = mouse]
    BY <1>5 DEF MouseKey, MOUSE_DELTA, MOUSE_ACCEL
  <2> HIDE DEF mouse
  <2> QED BY <1>1, <2>1, <2>2
<1> QED BY <1>3, <1>4, <1>5 DEF MOUSE_DELTA, MOUSE_ACCEL

LEMMA DanceStepHandles ==
  ASSUME NEW z, NEW m, Handles(z, m), NEW location, NEW len, m.keyboard.codes[location] \in 0..U16MAX
  PROVE  Handles(z, DanceStep(m, location, len))
<1> DEFINE a == IF m.td.location + m.td.rem = location + len THEN m ELSE StartTapDance(m, location, len)
           timeout == IF a.td.tap_timeout = U16MAX THEN TAPDANCE_TAP_TIMEOUT ELSE a.td.tap_timeout
           next == [a.td EXCEPT !.location = @ + 1, !.rem = @ - 1]
           td == CASE a.td.rem = 0 -> [a.td EXCEPT !.wait_until = m.now]
                   [] a.td.rem = 1 -> [next EXCEPT !.wait_until = m.now]
                   [] OTHER -> IF next.rem % 2 = 1 THEN [next EXCEPT !.wait_until = m.now + timeout]
                               ELSE next
<1>0. Tracks(z, m) /\ m.now \in Times  BY HandlesTracks, TracksNow
<1>1. Tracks(z, a) /\ a.now = m.now
  <2>1. CASE a = m  BY <1>0, <2>1
  <2>2. CASE a = StartTapDance(m, location, len)
    <3> DEFINE started == [wait_until |-> NEVER, location |-> location + 1, tap_timeout |-> MacroCode(m, location),
                           rem |-> len - 1, mods |-> m.active[m.last.key].mods]
    <3>1. DanceOK(started)  BY Ends DEF DanceOK, MacroCode
    <3>2. a = [m EXCEPT !.td = started]  BY <2>2 DEF StartTapDance
    <3> HIDE DEF started, a
    <3>3. Tracks(z, a)  BY <1>0, <3>1, <3>2, DanceTracks
    <3>4. a.now = m.now  BY <1>0, <3>2, TracksFields DEF Fields
    <3> QED BY <3>3, <3>4
  <2> QED BY <2>1, <2>2
<1> HIDE DEF a
<1>2. DanceOK(a.td)  BY <1>1 DEF Tracks, TimesOK
<1>3. timeout \in 0..U16MAX  BY <1>2, TimeoutsAssumption DEF DanceOK
<1>4. DanceOK(next) /\ next.tap_timeout = a.td.tap_timeout  BY <1>2 DEF DanceOK
<1> HIDE DEF timeout, next
<1>5. m.now \in 0..NEVER /\ m.now + timeout \in 0..NEVER  BY <1>0, <1>3, Ends DEF Times
<1>6. DanceOK(td)  BY <1>2, <1>4, <1>5 DEF DanceOK
<1> HIDE DEF td
<1>7. DanceStep(m, location, len) = SetWaitTime([a EXCEPT !.td = td])
  BY DEF DanceStep, a, td, next, timeout
<1> QED BY <1>1, <1>6, <1>7, DanceTracks, SetWaitTimeOK

LEMMA DualStartsHandles ==
  ASSUME NEW z, NEW m, Handles(z, m), NEW mac, mac.time1 \in 0..U16MAX, mac.time2 \in 0..U16MAX
  PROVE  Handles(z, DualStarts(m, mac))
<1> DEFINE t1 == IF mac.time1 = U16MAX THEN DUAL_ACTION_TIMEOUT ELSE mac.time1
           t2 == IF mac.time1 = U16MAX \/ mac.time2 = U16MAX THEN DUAL_ACTION_TIMEOUT2 ELSE mac.time2
           dual == [type |-> "wait", key |-> m.last, duration |-> t1, tap_timeout |-> t2,
                    tap |-> mac.tap, hold |-> mac.hold, count |-> 2]
           b == [m EXCEPT !.dual = dual]
<1>1. t1 \in 0..U16MAX /\ t2 \in 0..U16MAX  BY TimeoutsAssumption
<1>2. DualStarts(m, mac) = SetWaitTime(Flush(b, FALSE))  BY DEF DualStarts
<1> HIDE DEF t1, t2
<1>3. KeyOK(m.last)  BY DEF Handles, Tracks, TimesOK
<1>4. DualOK(dual)  BY <1>1, <1>3 DEF DualOK
<1> HIDE DEF dual
<1>5. Tracks(z, b)  BY <1>4, HandlesTracks, DualTracks
<1> HIDE DEF b
<1>6. Tracks(z, Flush(b, FALSE))  BY <1>5, TracksFields, FlushSame, SameTracks
<1> QED BY <1>2, <1>6, SetWaitTimeOK

LEMMA PopMacroHandles == ASSUME NEW z, NEW m, Handles(z, m) PROVE Handles(z, PopMacro(m))
<1> DEFINE b == [m EXCEPT !.macro = Head(m.frames), !.frames = Tail(@)]
<1>1. SameTimes(m, b)  BY HandlesFields DEF SameTimes, Fields
<1>2. Tracks(z, b)  BY <1>1, HandlesTracks, SameTracks
<1> HIDE DEF b
<1>3. Handles(z, SetWaitTime(b))  BY <1>2, SetWaitTimeOK
<1> QED BY <1>3 DEF PopMacro, b

LEMMA BasicActionHandles ==
  ASSUME NEW z, NEW m, Handles(z, m), NEW action, NEW is_down \in BOOLEAN
  PROVE  Handles(z, BasicAction(m, action, is_down))
<1>1. ASSUME NEW b, SameTimes(m, b) PROVE Handles(z, b)  BY <1>1, SameHandles
<1>2. Handles(z, Modifier(m, action - 224, is_down))  BY <1>1, HandlesFields, ModifierSame
<1>3. \A event : Handles(z, Report(m, event))  BY ReportHandles
<1>4. action \in MOUSE_MIN..(MOUSE_MIN + 18) => Handles(z, MouseKey(m, action - MOUSE_MIN, is_down))
  <2>1. action \in MOUSE_MIN..(MOUSE_MIN + 18) => action - MOUSE_MIN \in 0..18  BY SMT DEF MOUSE_MIN
  <2> QED BY <2>1, MouseKeyHandles
<1>5. \A base, layern : Handles(z, LayerAction(m, base, layern, is_down))
  BY <1>1, HandlesFields, LayerActionSame
<1>6. Handles(z, FirmwareAction(m, action, is_down))  BY FirmwareActionHandles
<1> QED BY <1>2, <1>3, <1>4, <1>5, <1>6 DEF BasicAction

-----------------------------------------------------------------------------
(***************************************************************************)
(* Macros: a list of calls, each well formed.                              *)
(***************************************************************************)
CallOK(keyboard, c) ==
  /\ c.call \in {"run_action", "macros", "write_modifiers", "start", "set_wait_time", "sequence", "code_run"}
  /\ c.call \in {"run_action", "macros"} => c.down \in BOOLEAN
  /\ c.call = "macros" => MacroWellFormed(keyboard, c.mac)
  /\ c.call = "start" => c.mac.time1 \in 0..U16MAX /\ c.mac.time2 \in 0..U16MAX
  /\ c.call = "sequence" => "call" \in DOMAIN c

CallsOK(keyboard, calls) == \E S : calls \in Seq(S) /\ \A c \in S : CallOK(keyboard, c)

ResultOK(z, r) == Handles(z, r.s) /\ CallsOK(z.keyboard, r.calls)

LEMMA CallsOfSet ==
  ASSUME NEW keyboard, NEW S, \A c \in S : CallOK(keyboard, c), NEW q \in Seq(S) PROVE CallsOK(keyboard, q)
  BY DEF CallsOK

LEMMA NoCallsOK == ASSUME NEW keyboard PROVE CallsOK(keyboard, << >>)
<1>1. << >> \in Seq({}) /\ \A c \in {} : CallOK(keyboard, c)  BY EmptySeq
<1> QED BY <1>1, CallsOfSet

LEMMA OneCallOK == ASSUME NEW keyboard, NEW c, CallOK(keyboard, c) PROVE CallsOK(keyboard, <<c>>)
<1>1. <<c>> \in Seq({c}) /\ \A x \in {c} : CallOK(keyboard, x)  OBVIOUS
<1> QED BY <1>1, CallsOfSet

LEMMA TwoCallsOK ==
  ASSUME NEW keyboard, NEW c, CallOK(keyboard, c), NEW d, CallOK(keyboard, d) PROVE CallsOK(keyboard, <<c, d>>)
<1>1. <<c, d>> \in Seq({c, d}) /\ \A x \in {c, d} : CallOK(keyboard, x)  OBVIOUS
<1> QED BY <1>1, CallsOfSet

LEMMA ConcatCallsOK ==
  ASSUME NEW keyboard, NEW p, CallsOK(keyboard, p), NEW q, CallsOK(keyboard, q) PROVE CallsOK(keyboard, p \o q)
<1>1. PICK S : p \in Seq(S) /\ \A c \in S : CallOK(keyboard, c)  BY Zenon DEF CallsOK
<1>2. PICK T : q \in Seq(T) /\ \A c \in T : CallOK(keyboard, c)  BY Zenon DEF CallsOK
<1>3. p \in Seq(S \cup T) /\ q \in Seq(S \cup T)  BY <1>1, <1>2, SeqMonotonic, Zenon
<1>4. p \o q \in Seq(S \cup T)  BY <1>3, ConcatProperties
<1>5. \A c \in S \cup T : CallOK(keyboard, c)  BY <1>1, <1>2
<1> QED BY <1>4, <1>5, Zenon DEF CallsOK

LEMMA HeadTailCallsOK ==
  ASSUME NEW keyboard, NEW q, CallsOK(keyboard, q), q # << >>
  PROVE  CallOK(keyboard, Head(q)) /\ CallsOK(keyboard, Tail(q))
<1>1. PICK S : q \in Seq(S) /\ \A c \in S : CallOK(keyboard, c)  BY Zenon DEF CallsOK
<1>2. Head(q) \in S /\ Tail(q) \in Seq(S)  BY <1>1, HeadTailProperties
<1> QED BY <1>1, <1>2, Zenon DEF CallsOK

LEMMA ActionCallOK ==
  ASSUME NEW keyboard, NEW action, NEW is_down \in BOOLEAN PROVE CallOK(keyboard, ActionCall(action, is_down))
  BY DEF CallOK, ActionCall

LEMMA ReturnOK == ASSUME NEW z, NEW m, Handles(z, m) PROVE ResultOK(z, Return(m))
  BY NoCallsOK DEF ResultOK, Return, Calls

LEMMA StartDualActionOK ==
  ASSUME NEW z, NEW m, Handles(z, m), NEW mac, MacroWellFormed(z.keyboard, mac), mac.type = "dual_action",
         NEW is_down \in BOOLEAN
  PROVE  ResultOK(z, StartDualAction(m, is_down, mac))
<1> DEFINE calls == CASE ~ is_down -> <<ActionCall(mac.hold, FALSE), DualUpCall>>
                      [] is_down /\ m.dual.type = "wait" -> <<ActionCall(m.dual.hold, TRUE), DualCall(mac)>>
                      [] is_down /\ m.dual.type # "wait" -> <<DualCall(mac)>>
<1>1. CallOK(z.keyboard, DualUpCall)  BY DEF CallOK, DualUpCall
<1>2. CallOK(z.keyboard, DualCall(mac))
  <2>1. mac.time1 \in 0..U16MAX /\ mac.time2 \in 0..U16MAX  BY DEF MacroWellFormed
  <2> QED BY <2>1 DEF CallOK, DualCall
<1>3. CallOK(z.keyboard, ActionCall(mac.hold, FALSE)) /\ CallOK(z.keyboard, ActionCall(m.dual.hold, TRUE))
  BY ActionCallOK
<1>4. /\ CallsOK(z.keyboard, <<ActionCall(mac.hold, FALSE), DualUpCall>>)
      /\ CallsOK(z.keyboard, <<ActionCall(m.dual.hold, TRUE), DualCall(mac)>>)
      /\ CallsOK(z.keyboard, <<DualCall(mac)>>)
  BY <1>1, <1>2, <1>3, OneCallOK, TwoCallsOK
<1>5. CallsOK(z.keyboard, calls)  BY <1>4
<1>6. StartDualAction(m, is_down, mac) = Calls(m, calls)  BY DEF StartDualAction
<1> HIDE DEF calls
<1> QED BY <1>5, <1>6 DEF ResultOK, Calls

LEMMA NextCodeOK ==
  ASSUME NEW z, NEW m, Handles(z, m), NEW q, CallOK(z.keyboard, q), q.call = "sequence"
  PROVE  ResultOK(z, NextCode(m, q))
<1> DEFINE b == IF q.rem > 1 THEN [m EXCEPT !.macro = Sequence(q.mode, q.location + 1, q.rem - 1)] ELSE PopMacro(m)
           code == MacroCode(m, q.location)
           calls == PressCalls(code, q.mode) \o ReleaseCalls(code, q.mode) \o <<CodeRunCall(q)>>
<1>1. CASE ~ RoomToReport(m)
  <2>1. Handles(z, SetWaitTime(m))  BY HandlesTracks, SetWaitTimeOK
  <2> QED BY <1>1, <2>1, ReturnOK DEF NextCode
<1>2. CASE RoomToReport(m)
  <2>1. Handles(z, b)
    <3>1. SameTimes(m, [m EXCEPT !.macro = Sequence(q.mode, q.location + 1, q.rem - 1)])
      BY HandlesFields DEF SameTimes, Fields
    <3> QED BY <3>1, SameHandles, PopMacroHandles
  <2>2. CallOK(z.keyboard, CodeRunCall(q))
    <3>1. CodeRunCall(q).call = "code_run"  BY DEF CodeRunCall, CallOK
    <3> QED BY <3>1 DEF CallOK
  <2>3. CallsOK(z.keyboard, PressCalls(code, q.mode)) /\ CallsOK(z.keyboard, ReleaseCalls(code, q.mode))
    BY NoCallsOK, OneCallOK, ActionCallOK DEF PressCalls, ReleaseCalls
  <2>4. CallsOK(z.keyboard, calls)  BY <2>2, <2>3, OneCallOK, ConcatCallsOK
  <2>5. NextCode(m, q) = Calls(b, calls)  BY <1>2 DEF NextCode
  <2> HIDE DEF b, calls
  <2> QED BY <2>1, <2>4, <2>5 DEF ResultOK, Calls
<1> QED BY <1>1, <1>2

LEMMA CodeRunOK ==
  ASSUME NEW z, NEW m, Handles(z, m), NEW q
  PROVE  ResultOK(z, CodeRun(m, q))
<1> DEFINE b == Flush(m, FALSE)
           location == IF q.rem > 1 THEN q.location + 1 ELSE q.location
           rem == IF q.rem > 1 THEN q.rem - 1 ELSE q.rem
           c == SequenceCall(location, rem, q.mode, q.depth)
<1>1. Handles(z, b)  BY FlushHandles
<1>2. Handles(z, SetWaitTime(b))  BY <1>1, HandlesTracks, SetWaitTimeOK
<1>3. CallsOK(z.keyboard, <<c>>)
  <2>1. CallOK(z.keyboard, c)  BY DEF CallOK, SequenceCall
  <2> HIDE DEF c
  <2> QED BY <2>1, OneCallOK
<1>4. CodeRun(m, q) \in {Return(SetWaitTime(b)), Calls(b, <<c>>)}  BY DEF CodeRun
<1> HIDE DEF b, c
<1>5. ResultOK(z, Calls(b, <<c>>))  BY <1>1, <1>3 DEF ResultOK, Calls
<1> QED BY <1>2, <1>4, <1>5, ReturnOK

LEMMA RunMacroOK ==
  ASSUME NEW z, NEW m, Handles(z, m), NEW mac, MacroWellFormed(z.keyboard, mac), NEW is_down \in BOOLEAN
  PROVE  ResultOK(z, RunMacro(m, mac, is_down))
<1>0. m.keyboard = z.keyboard /\ WellFormed(z.keyboard)  BY DEF Handles, Tracks, TimesOK
<1>1. CASE mac.type = "modifier"
  <2>1. CASE is_down
    <3> DEFINE b == WriteModifiers(m, mac.mods, 10, TRUE)
    <3>1. Handles(z, b)  BY WriteHandles
    <3>2. CallsOK(z.keyboard, <<ActionCall(mac.code, TRUE)>>)  BY ActionCallOK, OneCallOK
    <3>3. RunMacro(m, mac, is_down) = Calls(b, <<ActionCall(mac.code, TRUE)>>)  BY <1>1, <2>1 DEF RunMacro
    <3> HIDE DEF b
    <3> QED BY <3>1, <3>2, <3>3 DEF ResultOK, Calls
  <2>2. CASE ~ is_down
    <3> DEFINE calls == <<ActionCall(mac.code, FALSE), ModifiersCall(mac.mods)>>
    <3>1. CallOK(z.keyboard, ModifiersCall(mac.mods))  BY DEF CallOK, ModifiersCall
    <3>2. CallsOK(z.keyboard, calls)  BY <3>1, ActionCallOK, TwoCallsOK
    <3>3. RunMacro(m, mac, is_down) = Calls(m, calls)  BY <1>1, <2>2 DEF RunMacro
    <3> HIDE DEF calls
    <3> QED BY <3>2, <3>3 DEF ResultOK, Calls
  <2> QED BY <2>1, <2>2
<1>2. CASE mac.type = "dual_action"  BY <1>2, StartDualActionOK DEF RunMacro
<1>3. CASE mac.type = "tapdance" /\ mac.len > 2
  <2>1. m.keyboard.codes[mac.location] \in 0..U16MAX  BY <1>0, <1>3 DEF MacroWellFormed
  <2>2. Handles(z, DanceStep(m, mac.location, mac.len))  BY <2>1, DanceStepHandles
  <2>3. RunMacro(m, mac, is_down) = Return(DanceStep(m, mac.location, mac.len))  BY <1>3 DEF RunMacro
  <2> QED BY <2>2, <2>3, ReturnOK
<1>4. CASE mac.type = "sequence" /\ mac.rem > 0 /\ (is_down <=> mac.mode \in {"tap", "hold"})
  <2> DEFINE b == PushMacro(m, mac)
             c == SequenceCall(mac.location, mac.rem, mac.mode, Len(m.frames) + 1)
  <2>1. SameTimes(m, b)  BY HandlesFields DEF PushMacro, SameTimes, Fields
  <2>2. Handles(z, b)  BY <2>1, SameHandles
  <2>3. CallOK(z.keyboard, c)  BY DEF CallOK, SequenceCall
  <2>4. RunMacro(m, mac, is_down) = Calls(b, <<c>>)  BY <1>4 DEF RunMacro
  <2> HIDE DEF b, c
  <2> QED BY <2>2, <2>3, <2>4, OneCallOK DEF ResultOK, Calls
<1>5. CASE mac.type = "hold_release"
  <2> DEFINE id == IF is_down THEN mac.hold ELSE mac.release
             c == MacroCall(Macros(m)[id], is_down)
  <2>1. id \in DOMAIN z.keyboard.macros  BY <1>5 DEF MacroWellFormed
  <2> HIDE DEF id
  <2>2. MacroWellFormed(z.keyboard, Macros(m)[id])  BY <1>0, <2>1 DEF WellFormed, Macros
  <2>3. CallOK(z.keyboard, c)  BY <2>2 DEF CallOK, MacroCall
  <2>4. RunMacro(m, mac, is_down) = Calls(m, <<c>>)  BY <1>5 DEF RunMacro, id
  <2> HIDE DEF c
  <2> QED BY <2>3, <2>4, OneCallOK DEF ResultOK, Calls
<1>6. CASE mac.type = "delay" /\ is_down
  <2>1. RunMacro(m, mac, is_down) = Return(Report(m, Delay(mac.n)))  BY <1>6 DEF RunMacro
  <2> QED BY <2>1, ReportHandles, ReturnOK
<1>7. ResultOK(z, Return(m))  BY ReturnOK
<1> QED BY <1>1, <1>2, <1>3, <1>4, <1>5, <1>6, <1>7 DEF RunMacro

LEMMA MakeCallOK ==
  ASSUME NEW z, NEW m, Handles(z, m), NEW c, CallOK(z.keyboard, c)
  PROVE  ResultOK(z, MakeCall(m, c))
<1>0. m.keyboard = z.keyboard /\ WellFormed(z.keyboard)  BY DEF Handles, Tracks, TimesOK
<1>1. CASE c.call = "run_action"
  <2>1. c.down \in BOOLEAN  BY <1>1 DEF CallOK
  <2>2. CASE IsMacro(m, c.action)
    <3>1. MacroWellFormed(z.keyboard, Macros(m)[c.action - 4096])
      BY <1>0, <2>2 DEF IsMacro, WellFormed, Macros
    <3>2. MakeCall(m, c) = RunMacro(m, Macros(m)[c.action - 4096], c.down)  BY <1>1, <2>2 DEF MakeCall
    <3> QED BY <2>1, <3>1, <3>2, RunMacroOK
  <2>3. CASE ~ IsMacro(m, c.action)
    <3>1. MakeCall(m, c) = Return(BasicAction(m, c.action, c.down))  BY <1>1, <2>3 DEF MakeCall
    <3> QED BY <2>1, <3>1, BasicActionHandles, ReturnOK
  <2> QED BY <2>2, <2>3
<1>2. CASE c.call = "macros"
  <2>1. c.down \in BOOLEAN /\ MacroWellFormed(z.keyboard, c.mac)  BY <1>2 DEF CallOK
  <2> QED BY <1>2, <2>1, RunMacroOK DEF MakeCall
<1>3. CASE c.call = "write_modifiers"
  <2>1. MakeCall(m, c) = Return(WriteModifiers(m, c.mods, -10, TRUE))  BY <1>3 DEF MakeCall
  <2> QED BY <2>1, WriteHandles, ReturnOK
<1>4. CASE c.call = "start"
  <2>1. c.mac.time1 \in 0..U16MAX /\ c.mac.time2 \in 0..U16MAX  BY <1>4 DEF CallOK
  <2>2. MakeCall(m, c) = Return(DualStarts(m, c.mac))  BY <1>4 DEF MakeCall
  <2> QED BY <2>1, <2>2, DualStartsHandles, ReturnOK
<1>5. CASE c.call = "set_wait_time"
  <2>1. Handles(z, SetWaitTime(Flush(m, FALSE)))  BY FlushHandles, HandlesTracks, SetWaitTimeOK
  <2>2. MakeCall(m, c) = Return(SetWaitTime(Flush(m, FALSE)))  BY <1>5 DEF MakeCall
  <2> QED BY <2>1, <2>2, ReturnOK
<1>6. CASE c.call = "sequence"  BY <1>6, NextCodeOK DEF MakeCall
<1>7. CASE c.call = "code_run"  BY <1>7, CodeRunOK DEF MakeCall
<1> QED BY <1>1, <1>2, <1>3, <1>4, <1>5, <1>6, <1>7 DEF CallOK

LEMMA NextCallOK == ASSUME NEW z, NEW r, ResultOK(z, r) PROVE ResultOK(z, NextCall(r))
<1>1. CASE r.calls = << >>  BY <1>1 DEF NextCall
<1>2. CASE r.calls # << >>
  <2> DEFINE made == MakeCall(r.s, Head(r.calls))
             calls == made.calls \o Tail(r.calls)
  <2>1. CallOK(z.keyboard, Head(r.calls)) /\ CallsOK(z.keyboard, Tail(r.calls))
    BY <1>2, HeadTailCallsOK DEF ResultOK
  <2>2. ResultOK(z, made)  BY <2>1, MakeCallOK DEF ResultOK
  <2> HIDE DEF made
  <2>3. CallsOK(z.keyboard, calls)  BY <2>1, <2>2, ConcatCallsOK DEF ResultOK
  <2>4. NextCall(r) = Calls(made.s, calls)  BY <1>2 DEF NextCall, made
  <2> HIDE DEF calls
  <2> QED BY <2>2, <2>3, <2>4 DEF ResultOK, Calls
<1> QED BY <1>1, <1>2

\* The recursion of RunCall has a value: the first k results, for every k.
LEMMA ResultsExist ==
  ASSUME NEW r0
  PROVE  \E run : run = [n \in 0..MAX_CALLS |-> IF n = 0 THEN r0 ELSE NextCall(run[n - 1])]
<1> DEFINE Results(k, run) == run = [n \in 0..k |-> IF n = 0 THEN r0 ELSE NextCall(run[n - 1])]
           T == {k \in Nat : \E run : Results(k, run)}
<1>1. 0 \in T
  <2> DEFINE run == [n \in 0..0 |-> r0]
  <2>1. run = [n \in 0..0 |-> IF n = 0 THEN r0 ELSE NextCall(run[n - 1])]  OBVIOUS
  <2> QED BY <2>1
<1>2. ASSUME NEW k \in Nat, k \in T PROVE k + 1 \in T
  <2>1. PICK old : Results(k, old)  BY <1>2
  <2> DEFINE run == [n \in 0..(k + 1) |-> IF n \in 0..k THEN old[n] ELSE NextCall(old[k])]
  <2>2. ASSUME NEW n \in 0..(k + 1) PROVE run[n] = IF n = 0 THEN r0 ELSE NextCall(run[n - 1])
    <3>1. CASE n = 0  BY <2>1, <3>1
    <3>2. CASE n # 0 /\ n \in 0..k
      <4>1. n - 1 \in 0..k /\ n - 1 \in 0..(k + 1)  BY <3>2
      <4>2. run[n] = old[n] /\ run[n - 1] = old[n - 1]  BY <3>2, <4>1
      <4> HIDE DEF run
      <4>3. old[n] = NextCall(old[n - 1])  BY <2>1, <3>2
      <4> QED BY <3>2, <4>2, <4>3
    <3>3. CASE n # 0 /\ n \notin 0..k
      <4>1. n = k + 1 /\ n - 1 = k /\ k \in 0..k /\ k \in 0..(k + 1)  BY <3>3
      <4>2. run[n] = NextCall(old[k]) /\ run[n - 1] = old[k]  BY <3>3, <4>1
      <4> HIDE DEF run
      <4> QED BY <3>3, <4>2
    <3> QED BY <3>1, <3>2, <3>3
  <2>3. run = [n \in 0..(k + 1) |-> run[n]]  OBVIOUS
  <2> HIDE DEF run
  <2>4. Results(k + 1, run)  BY <2>2, <2>3
  <2> HIDE DEF Results
  <2> QED BY <2>4
<1>3. MAX_CALLS \in T
  <2> HIDE DEF T
  <2>1. \A k \in Nat : k \in T  BY <1>1, <1>2, Induction
  <2> QED BY <2>1, CallsAssumption
<1> QED BY <1>3

LEMMA RunCallHandles ==
  ASSUME NEW z, NEW m, Handles(z, m), NEW call, CallOK(z.keyboard, call)
  PROVE  Handles(z, RunCall(m, call))
<1> DEFINE run[n \in 0..MAX_CALLS] == IF n = 0 THEN Calls(m, <<call>>) ELSE NextCall(run[n - 1])
<1>1. run = [n \in 0..MAX_CALLS |-> IF n = 0 THEN Calls(m, <<call>>) ELSE NextCall(run[n - 1])]
  <2>1. \E f : f = [n \in 0..MAX_CALLS |-> IF n = 0 THEN Calls(m, <<call>>) ELSE NextCall(f[n - 1])]
    BY ResultsExist
  <2> QED BY <2>1, Zenon
<1> DEFINE made == run[MAX_CALLS]
<1>2. RunCall(m, call) \in {made.s, [made.s EXCEPT !.given_up = TRUE]}  BY DEF RunCall, CutOff
<1> HIDE DEF run
<1> DEFINE T == {n \in Nat : n \in 0..MAX_CALLS => ResultOK(z, run[n])}
<1>3. 0 \in T
  <2>1. ResultOK(z, Calls(m, <<call>>))  BY OneCallOK DEF ResultOK, Calls
  <2> QED BY <1>1, <2>1, CallsAssumption
<1>4. ASSUME NEW n \in Nat, n \in T PROVE n + 1 \in T
  <2>1. n + 1 \in 0..MAX_CALLS => n \in 0..MAX_CALLS /\ run[n + 1] = NextCall(run[n])
    BY <1>1, CallsAssumption
  <2>2. n + 1 \in 0..MAX_CALLS => ResultOK(z, run[n + 1])  BY <1>4, <2>1, NextCallOK
  <2> QED BY <2>2
<1>5. ResultOK(z, run[MAX_CALLS])
  <2> HIDE DEF T
  <2>1. \A n \in Nat : n \in T  BY <1>3, <1>4, Induction
  <2>2. MAX_CALLS \in T  BY <2>1, CallsAssumption
  <2> QED BY <2>2, CallsAssumption DEF T
<1> HIDE DEF made
<1>6. Handles(z, made.s)  BY <1>5 DEF ResultOK, made
<1>7. SameTimes(made.s, [made.s EXCEPT !.given_up = TRUE])  BY <1>6, HandlesFields DEF SameTimes, Fields
<1> QED BY <1>2, <1>6, <1>7, SameHandles

LEMMA RunActionHandles ==
  ASSUME NEW z, NEW m, Handles(z, m), NEW action, NEW is_down \in BOOLEAN
  PROVE  Handles(z, RunAction(m, action, is_down))
  BY ActionCallOK, RunCallHandles, BasicActionHandles DEF RunAction

LEMMA NextMacroSeqHandles ==
  ASSUME NEW z, NEW m, Handles(z, m), NEW location, NEW rem, NEW mode
  PROVE  Handles(z, NextMacroSeq(m, location, rem, mode))
<1> DEFINE c == SequenceCall(location, rem, mode, Len(m.frames))
<1>1. CallOK(z.keyboard, c)  BY DEF CallOK, SequenceCall
<1> HIDE DEF c
<1>2. Handles(z, RunCall(m, c))  BY <1>1, RunCallHandles
<1> QED BY <1>2 DEF NextMacroSeq, c

-----------------------------------------------------------------------------
(***************************************************************************)
(* Key events, memos and time.                                             *)
(***************************************************************************)
\* A step that decides something, or puts off an event, needs no new deadline.
LEMMA DecidesHandles ==
  ASSUME NEW z, NEW m, Handles(z, m), NEW b, DOMAIN b = Fields,
         b.keyboard = m.keyboard, b.now = m.now, b.wait_time = m.wait_time, b.at_sig = m.at_sig,
         b.mouse = m.mouse, KeyOK(b.last), DualOK(b.dual), DanceOK(b.td), MemosOK(b.memos),
         b.dual.type = "wait" =>
           m.dual.type = "wait" /\ b.dual.key = m.dual.key /\ b.dual.duration = m.dual.duration,
         b.td = m.td \/ b.td.location = 0
  PROVE  Handles(z, b)
<1>1. TimesOK(b)  BY DEF Handles, Tracks, TimesOK
<1>2. Tracks(z, b)  BY <1>1 DEF Handles, Tracks, Asked, Silent
<1>3. Timely(b)  BY DEF Handles, Timely
<1>4. Waiting(b) => Waiting(m)  BY DEF Waiting
<1> QED BY <1>2, <1>3, <1>4 DEF Handles, Asked, Silent

LEMMA HandlesParts ==
  ASSUME NEW z, NEW m, Handles(z, m)
  PROVE  KeyOK(m.last) /\ DualOK(m.dual) /\ DanceOK(m.td) /\ MemosOK(m.memos) /\ TimesOK(m)
  BY DEF Handles, Tracks, TimesOK

LEMMA LastHandles ==
  ASSUME NEW z, NEW m, Handles(z, m), NEW k, KeyOK(k) PROVE Handles(z, [m EXCEPT !.last = k])
<1> DEFINE b == [m EXCEPT !.last = k]
<1>1. /\ DOMAIN b = Fields /\ b.keyboard = m.keyboard /\ b.now = m.now /\ b.wait_time = m.wait_time
      /\ b.at_sig = m.at_sig /\ b.mouse = m.mouse /\ b.last = k /\ b.dual = m.dual /\ b.td = m.td
      /\ b.memos = m.memos
  BY HandlesFields DEF Fields
<1> HIDE DEF b
<1>2. Handles(z, b)  BY <1>1, HandlesParts, DecidesHandles
<1> QED BY <1>2 DEF b

\* The dual action is decided, or waits on as it did.
LEMMA DualHandles ==
  ASSUME NEW z, NEW m, Handles(z, m), NEW dual, DualOK(dual),
         dual.type = "wait" =>
           m.dual.type = "wait" /\ dual.key = m.dual.key /\ dual.duration = m.dual.duration
  PROVE  Handles(z, [m EXCEPT !.dual = dual])
<1> DEFINE b == [m EXCEPT !.dual = dual]
<1>1. /\ DOMAIN b = Fields /\ b.keyboard = m.keyboard /\ b.now = m.now /\ b.wait_time = m.wait_time
      /\ b.at_sig = m.at_sig /\ b.mouse = m.mouse /\ b.last = m.last /\ b.dual = dual /\ b.td = m.td
      /\ b.memos = m.memos
  BY HandlesFields DEF Fields
<1> HIDE DEF b
<1>2. Handles(z, b)  BY <1>1, HandlesParts, DecidesHandles
<1> QED BY <1>2 DEF b

LEMMA NoDualHandles ==
  ASSUME NEW z, NEW m, Handles(z, m), NEW k, KeyOK(k)
  PROVE  Handles(z, [m EXCEPT !.dual = NoDual, !.last = k])
<1>1. Handles(z, [m EXCEPT !.dual = NoDual])  BY DualHandles DEF DualOK, NoDual
<1> QED BY <1>1, LastHandles

LEMMA MemosHandles ==
  ASSUME NEW z, NEW m, Handles(z, m), NEW memos, MemosOK(memos), NEW n
  PROVE  Handles(z, [m EXCEPT !.memos = memos, !.memo_count = n])
<1> DEFINE b == [m EXCEPT !.memos = memos, !.memo_count = n]
<1>1. /\ DOMAIN b = Fields /\ b.keyboard = m.keyboard /\ b.now = m.now /\ b.wait_time = m.wait_time
      /\ b.at_sig = m.at_sig /\ b.mouse = m.mouse /\ b.last = m.last /\ b.dual = m.dual /\ b.td = m.td
      /\ b.memos = memos
  BY HandlesFields DEF Fields
<1> HIDE DEF b
<1>2. Handles(z, b)  BY <1>1, HandlesParts, DecidesHandles
<1> QED BY <1>2 DEF b

\* An event is put off, or everything is cleared.
LEMMA PushMemoHandles ==
  ASSUME NEW z, NEW m, Handles(z, m), NEW memo, MemoOK(memo) PROVE Handles(z, PushMemo(m, memo).s)
<1>1. MemosOK(Append(m.memos, memo))
  <2>1. PICK S : m.memos \in Seq(S) /\ \A x \in S : MemoOK(x)  BY HandlesParts DEF MemosOK
  <2>2. m.memos \in Seq(S \cup {memo})  BY <2>1, SeqMonotonic, Zenon
  <2>3. Append(m.memos, memo) \in Seq(S \cup {memo})  BY <2>2
  <2>4. \A x \in S \cup {memo} : MemoOK(x)  BY <2>1
  <2> QED BY <2>3, <2>4, MemosOfSet
<1>2. PushMemo(m, memo).s \in
        {ClearAll(m), [m EXCEPT !.memos = Append(m.memos, memo), !.memo_count = m.memo_count + 1]}
  BY DEF PushMemo
<1>3. Handles(z, [m EXCEPT !.memos = Append(m.memos, memo), !.memo_count = m.memo_count + 1])
  BY <1>1, MemosHandles
<1>4. Handles(z, ClearAll(m))  BY ClearAllHandles
<1> QED BY <1>2, <1>3, <1>4, Zenon

LEMMA KeyMemoOK == ASSUME NEW k, KeyOK(k) PROVE MemoOK(KeyMemo(k))
  BY DEF KeyOK, MemoOK, KeyMemo

LEMMA ReportedHandles == ASSUME NEW z, NEW m, Handles(z, m) PROVE Handles(z, [m EXCEPT !.reported = 0])
<1>1. SameTimes(m, [m EXCEPT !.reported = 0])  BY HandlesFields DEF SameTimes, Fields
<1> QED BY <1>1, SameHandles

LEMMA KeyDownHandles ==
  ASSUME NEW z, NEW m, Handles(z, m), NEW k, NEW kc PROVE Handles(z, KeyDown(m, k, kc))
<1> DEFINE a == [m EXCEPT !.active[k.key] = kc, !.reported = 0]
           b == RunAction(WriteModifiers(a, kc.mods, -1, TRUE), kc.code, TRUE)
           c == LeaveModifiers(b, kc.mods)
<1>1. SameTimes(m, a)  BY HandlesFields DEF SameTimes, Fields
<1>2. Handles(z, a)  BY <1>1, SameHandles
<1> HIDE DEF a
<1>3. Handles(z, b)  BY <1>2, WriteHandles, RunActionHandles
<1> HIDE DEF b
<1>4. Handles(z, c)  BY <1>3, WriteHandles DEF LeaveModifiers
<1> HIDE DEF c
<1>5. Handles(z, Flush([c EXCEPT !.reported = 0], FALSE))  BY <1>4, ReportedHandles, FlushHandles
<1>6. KeyDown(m, k, kc) \in {m, Flush([c EXCEPT !.reported = 0], FALSE)}  BY DEF KeyDown, a, b, c
<1> QED BY <1>5, <1>6

LEMMA OneshotUpHandles == ASSUME NEW z, NEW m, Handles(z, m) PROVE Handles(z, OneshotUp(m))
<1>1. SameTimes(m, [m EXCEPT !.oneshot = [@ EXCEPT !.type = "ready"]])  BY HandlesFields DEF SameTimes, Fields
<1>2. SameTimes(m, PopLayer([m EXCEPT !.oneshot = NoOneshot], m.oneshot.layer))
  <2>1. SameTimes(m, [m EXCEPT !.oneshot = NoOneshot])  BY HandlesFields DEF SameTimes, Fields
  <2> QED BY <2>1, SameFields, PopLayerSame, SameTwice
<1>3. CASE m.oneshot.type \notin {"wait_up", "ready"}  BY <1>3 DEF OneshotUp
<1>4. CASE m.oneshot.type = "wait_up"  BY <1>1, <1>4, SameHandles DEF OneshotUp
<1>5. CASE m.oneshot.type = "ready"  BY <1>2, <1>5, SameHandles DEF OneshotUp
<1> QED BY <1>3, <1>4, <1>5

LEMMA KeyUpHandles ==
  ASSUME NEW z, NEW m, Handles(z, m), NEW k, NEW kc PROVE Handles(z, KeyUp(m, k, kc))
<1> DEFINE a == [m EXCEPT !.active[k.key] = NoAction, !.reported = 0]
           b == RunAction(a, kc.code, FALSE)
           c == OneshotUp(RestoreModifiers(b, kc.mods))
<1>1. SameTimes(m, a)  BY HandlesFields DEF SameTimes, Fields
<1>2. Handles(z, a)  BY <1>1, SameHandles
<1> HIDE DEF a
<1>3. Handles(z, b)  BY <1>2, RunActionHandles
<1> HIDE DEF b
<1>4. Handles(z, RestoreModifiers(b, kc.mods))  BY <1>3, WriteHandles DEF RestoreModifiers
<1>5. Handles(z, c)  BY <1>4, OneshotUpHandles
<1> HIDE DEF c
<1>6. Handles(z, Flush([c EXCEPT !.reported = 0], FALSE))  BY <1>5, ReportedHandles, FlushHandles
<1> QED BY <1>6 DEF KeyUp, Up, a, b, c

LEMMA KeySwitch1Handles ==
  ASSUME NEW z, NEW m, Handles(z, m), NEW k PROVE Handles(z, KeySwitch1(m, k))
  BY KeyDownHandles, KeyUpHandles DEF KeySwitch1

LEMMA RunWhenPutHandles ==
  ASSUME NEW z, NEW put, Handles(z, put.s), NEW code PROVE Handles(z, RunWhenPut(put, code))
  BY RunActionHandles DEF RunWhenPut

LEMMA TapDanceTimeoutHandles ==
  ASSUME NEW z, NEW m, Handles(z, m) PROVE Handles(z, TapDanceTimeout(m))
<1> DEFINE action == MacroCode(m, m.td.location - 1)
           a == [m EXCEPT !.td.location = 0, !.td.wait_until = NEVER]
           b == WriteModifiers(SetWaitTime(a), m.td.mods, -1, TRUE)
           c == [b EXCEPT !.active[b.last.key] = [code |-> action, mods |-> b.td.mods]]
           put == DanceKey(b, action)
<1>1. Tracks(z, a)
  <2> DEFINE td == [m.td EXCEPT !.location = 0, !.wait_until = NEVER]
  <2>1. DanceOK(td)  BY HandlesParts, Ends DEF DanceOK
  <2>2. a = [m EXCEPT !.td = td]  BY HandlesFields DEF Fields
  <2> HIDE DEF td, a
  <2> QED BY <2>1, <2>2, HandlesTracks, DanceTracks
<1> HIDE DEF a
<1>2. Handles(z, b)  BY <1>1, SetWaitTimeOK, WriteHandles
<1> HIDE DEF b
<1>3. Handles(z, c)
  <2>1. SameTimes(b, c)  BY <1>2, HandlesFields DEF SameTimes, Fields
  <2> QED BY <1>2, <2>1, SameHandles
<1>4. KeyOK(b.last)  BY <1>2, HandlesParts
<1>5. MemoOK(KeyMemo([b.last EXCEPT !.down = FALSE]))
  <2>1. KeyOK([b.last EXCEPT !.down = FALSE])  BY <1>4 DEF KeyOK
  <2> QED BY <2>1, KeyMemoOK
<1>6. put \in {[ok |-> TRUE, s |-> c], PushMemo(c, KeyMemo([b.last EXCEPT !.down = FALSE]))}  BY DEF DanceKey
<1> HIDE DEF c
<1>7. Handles(z, put.s)  BY <1>3, <1>5, <1>6, PushMemoHandles
<1> HIDE DEF put
<1>8. Handles(z, Flush(RunWhenPut(put, action), FALSE))  BY <1>7, RunWhenPutHandles, FlushHandles
<1> QED BY <1>8 DEF TapDanceTimeout, put, b, a

LEMMA HoldDualHandles ==
  ASSUME NEW z, NEW m, Handles(z, m), NEW k, KeyOK(k), m.dual.type # "no_dual"
  PROVE  Handles(z, HoldDual(m, k))
<1> DEFINE a == IF m.dual.key.key = k.key THEN m ELSE PushMemo(m, KeyMemo(k)).s
           b == [a EXCEPT !.dual = NoDual, !.last = m.dual.key]
<1>1. Handles(z, a)  BY KeyMemoOK, PushMemoHandles
<1> HIDE DEF a
<1>2. KeyOK(m.dual.key)  BY HandlesParts DEF DualOK, NoDual
<1>3. Handles(z, b)  BY <1>1, <1>2, NoDualHandles
<1> HIDE DEF b
<1>4. Handles(z, Flush(RunAction(b, m.dual.hold, TRUE), FALSE))  BY <1>3, RunActionHandles, FlushHandles
<1> QED BY <1>4 DEF HoldDual, b, a

LEMMA TapDualHandles ==
  ASSUME NEW z, NEW m, Handles(z, m), m.dual.type = "wait" PROVE Handles(z, TapDual(m))
<1> DEFINE b == [m EXCEPT !.dual = NoDual, !.last = m.dual.key]
           put == PushMemo(b, ActionMemo(m.dual.tap, FALSE))
<1>1. KeyOK(m.dual.key)  BY HandlesParts DEF DualOK, NoDual
<1>2. Handles(z, b)  BY <1>1, NoDualHandles
<1> HIDE DEF b
<1>3. MemoOK(ActionMemo(m.dual.tap, FALSE))  BY DEF MemoOK, ActionMemo
<1>4. Handles(z, put.s)  BY <1>2, <1>3, PushMemoHandles
<1> HIDE DEF put
<1>5. Handles(z, Flush(RunWhenPut(put, m.dual.tap), FALSE))  BY <1>4, RunWhenPutHandles, FlushHandles
<1> QED BY <1>5 DEF TapDual, put, b

\* What is left of a number in 16 bits.
LEMMA WrapsToWord == ASSUME NEW x \in Int PROVE x % 65536 \in 0..U16MAX
<1> DEFINE n == 65536
<1>1. n \in Nat /\ n > 0 /\ n - 1 = U16MAX  BY SMT DEF U16MAX
<1> HIDE DEF n
<1>2. x % n \in 0..U16MAX  BY <1>1, Remainder, SMT
<1> QED BY <1>2, SMT DEF n

LEMMA CountEventOK ==
  ASSUME NEW d, DualOK(d), d.type = "wait", NEW k, KeyOK(k)
  PROVE  /\ DualOK(CountEvent(d, k))
         /\ CountEvent(d, k).key = d.key /\ CountEvent(d, k).duration = d.duration
<1>1. /\ DOMAIN d = {"type", "key", "duration", "tap_timeout", "tap", "hold", "count"}
      /\ KeyOK(d.key) /\ d.duration \in 0..U16MAX /\ d.tap_timeout \in 0..U16MAX
  BY DEF DualOK, NoDual
<1> DEFINE late == (d.tap_timeout + k.time - d.key.time) % 65536
           r == CountEvent(d, k)
<1>2. late \in 0..U16MAX
  <2>1. d.tap_timeout \in Int /\ k.time \in Int /\ d.key.time \in Int  BY <1>1, Ends DEF KeyOK, Times
  <2> HIDE <1>1
  <2>2. d.tap_timeout + k.time - d.key.time \in Int  BY <2>1
  <2> QED BY <2>2, WrapsToWord
<1> HIDE DEF late
<1>3. /\ DOMAIN r = DOMAIN d /\ r.type = d.type /\ r.key = d.key /\ r.duration = d.duration
      /\ r.tap_timeout \in {d.tap_timeout, late}
  BY <1>1 DEF CountEvent, late
<1> HIDE DEF r
<1> QED BY <1>1, <1>2, <1>3 DEF DualOK, r

LEMMA DualKeyHandles ==
  ASSUME NEW z, NEW m, Handles(z, m), NEW k, KeyOK(k) PROVE Handles(z, DualKey(m, k))
<1> DEFINE a == [m EXCEPT !.last = k]
           b == [a EXCEPT !.dual = CountEvent(@, k)]
<1>1. Handles(z, a) /\ a.dual = m.dual  BY LastHandles, HandlesFields DEF Fields
<1> HIDE DEF a
<1>2. CASE m.dual.type = "no_dual"  BY <1>1, <1>2, KeySwitch1Handles DEF DualKey, a
<1>3. CASE m.dual.type = "wait" /\ m.dual.key.key = k.key  BY <1>1, <1>3, TapDualHandles DEF DualKey, a
<1>4. CASE m.dual.type = "wait" /\ m.dual.key.key # k.key /\ m.dual.count # 0
  <2>1. /\ DualOK(CountEvent(a.dual, k)) /\ CountEvent(a.dual, k).key = a.dual.key
        /\ CountEvent(a.dual, k).duration = a.dual.duration
    BY <1>1, <1>4, HandlesParts, CountEventOK
  <2>2. Handles(z, b)  BY <1>1, <1>4, <2>1, DualHandles
  <2> HIDE DEF b
  <2>3. Handles(z, PushMemo(b, KeyMemo(k)).s)  BY <2>2, KeyMemoOK, PushMemoHandles
  <2> QED BY <1>4, <2>3 DEF DualKey, b, a
<1>5. CASE m.dual.type # "no_dual"
  <2>1. Handles(z, HoldDual(a, k))  BY <1>1, <1>5, HoldDualHandles
  <2> QED BY <1>3, <1>4, <1>5, <2>1 DEF DualKey, a
<1> QED BY <1>2, <1>5

LEMMA KeySwitchHandles ==
  ASSUME NEW z, NEW m, Handles(z, m), NEW k, KeyOK(k) PROVE Handles(z, KeySwitch(m, k))
<1>1. Handles(z, DualKey(m, k))  BY DualKeyHandles
<1>2. Handles(z, PushMemo(TapDanceTimeout(m), KeyMemo(k)).s)
  BY TapDanceTimeoutHandles, KeyMemoOK, PushMemoHandles
<1>3. Handles(z, KeySwitch1([m EXCEPT !.last = k], k))  BY LastHandles, KeySwitch1Handles
<1> QED BY <1>1, <1>2, <1>3 DEF KeySwitch

LEMMA DualExpiredHandles ==
  ASSUME NEW z, NEW m, Handles(z, m), m.dual.type = "wait" PROVE Handles(z, DualExpired(m))
<1> DEFINE dual == [m.dual EXCEPT !.type = "hold"]
           b == [m EXCEPT !.dual = dual]
<1>1. DualOK(m.dual) /\ m.dual # NoDual  BY HandlesParts DEF NoDual
<1>2. DualOK(dual) /\ dual.type = "hold"  BY <1>1 DEF DualOK
<1> HIDE DEF dual
<1>3. Handles(z, b)  BY <1>2, DualHandles
<1>4. b = [m EXCEPT !.dual.type = "hold"]  BY HandlesFields DEF Fields, dual
<1> HIDE DEF b
<1>5. KeyOK(m.dual.key)  BY <1>1 DEF DualOK
<1> QED BY <1>3, <1>4, <1>5, KeySwitchHandles DEF DualExpired

LEMMA MouseMovesTracks ==
  ASSUME NEW z, NEW m, Handles(z, m), m.mouse.first # 0 PROVE Tracks(z, MouseMoves(m))
<1> DEFINE pending == Pending(m.mouse, m.now)
           a == [m EXCEPT !.mouse = pending.mouse]
           Sent(b, axis) == SendTicks(b, axis, pending.ticks[axis])
<1>1. MouseOK(pending.mouse, m.now)
  <2>1. MouseOK(m.mouse, m.now) /\ m.now \in Nat  BY HandlesParts, HandlesTracks, TracksNow DEF TimesOK
  <2>2. PICK fraction : pending.mouse = [m.mouse EXCEPT !.last = m.now - m.mouse.first, !.fraction = fraction]
    BY DEF Pending
  <2> HIDE DEF pending
  <2> QED BY <2>1, <2>2 DEF MouseOK
<1> HIDE DEF pending
<1>2. Tracks(z, a)  BY <1>1, HandlesTracks, MouseTracks
<1>3. ASSUME NEW b, Tracks(z, b), NEW axis PROVE Tracks(z, Sent(b, axis))
  <2>1. DOMAIN b = Fields  BY <1>3, TracksFields
  <2>2. SameTimes(b, Sent(b, axis))  BY <2>1, SendSame, SameOnce DEF SendTicks
  <2> HIDE DEF Sent
  <2> QED BY <1>3, <2>2, SameTracks
<1>4. MouseMoves(m) = Sent(Sent(Sent(Sent(a, 0), 1), 2), 3)  BY DEF MouseMoves, pending
<1> HIDE DEF Sent, a
<1> QED BY <1>2, <1>3, <1>4, Zenon

\* check_time between two macro steps: a mapper that waits asks anew.
LEMMA CheckTimeHandles ==
  ASSUME NEW z, Handles(z, z)
  PROVE  /\ Handles(z, CheckTime(z))
         /\ z.wait_time # NEVER /\ z.macro = Noop => Asked(CheckTime(z))
         /\ z.wait_time = NEVER => CheckTime(z) = z
<1>1. CASE z.wait_time = NEVER  BY <1>1 DEF CheckTime
<1>2. CASE z.wait_time # NEVER /\ z.macro = Noop
  <2> DEFINE r == IF z.now < z.wait_time THEN z
                  ELSE IF NextEventTime(z.mouse) <= z.now THEN MouseMoves(z)
                  ELSE IF WaitUntil(z.dual) <= z.now THEN DualExpired(z)
                  ELSE IF z.td.wait_until <= z.now THEN TapDanceTimeout(z) ELSE z
  <2>1. Tracks(z, z) /\ z.now < NEVER /\ z.now \in Nat
    <3>1. Tracks(z, z)  BY HandlesTracks
    <3>2. z.now \in Times  BY <3>1, TracksNow
    <3> QED BY <3>1, <3>2, Ends DEF Times
  <2>2. NextEventTime(z.mouse) <= z.now => z.mouse.first # 0
    BY <2>1, Ends DEF NextEventTime
  <2>3. WaitUntil(z.dual) <= z.now => z.dual.type = "wait"
    BY <2>1, Ends DEF WaitUntil
  <2>4. Tracks(z, r)
    BY <2>1, <2>2, <2>3, MouseMovesTracks, DualExpiredHandles, TapDanceTimeoutHandles, HandlesTracks
  <2>5. CheckTime(z) = SetWaitTime(r)  BY <1>2 DEF CheckTime
  <2> HIDE DEF r
  <2>6. r.wait_time # NEVER \/ Asked(r)  BY <1>2, <2>4 DEF Tracks, Silent
  <2> QED BY <1>2, <2>4, <2>5, <2>6, SetWaitTimeHandles
<1>3. CASE z.wait_time # NEVER /\ z.macro # Noop
  <2>1. CheckTime(z) = NextMacroSeq(z, z.macro.location, z.macro.rem, z.macro.mode)  BY <1>3 DEF CheckTime
  <2> QED BY <1>3, <2>1, NextMacroSeqHandles
<1> QED BY <1>1, <1>2, <1>3

LEMMA RunMemoHandles == ASSUME NEW z, NEW m, Handles(z, m) PROVE Handles(z, RunMemo(m))
<1> DEFINE memos == IF m.memos = << >> THEN m.memos ELSE Tail(m.memos)
           a == [m EXCEPT !.memos = memos, !.memo_count = m.memo_count - 1]
           memo == Head(m.memos)
           k == [key |-> memo.key, down |-> memo.down, time |-> memo.time]
<1>1. MemosOK(memos) /\ (m.memos # << >> => MemoOK(memo))
  <2>1. PICK S : m.memos \in Seq(S) /\ \A x \in S : MemoOK(x)  BY HandlesParts DEF MemosOK
  <2>2. CASE m.memos = << >>  BY <2>2, HandlesParts
  <2>3. CASE m.memos # << >>
    <3>1. memo \in S /\ Tail(m.memos) \in Seq(S)  BY <2>1, <2>3, HeadTailProperties
    <3> QED BY <2>1, <2>3, <3>1, MemosOfSet
  <2> QED BY <2>2, <2>3
<1> HIDE DEF memos
<1>2. Handles(z, a)  BY <1>1, MemosHandles
<1>3. a = [m EXCEPT !.memo_count = @ - 1, !.memos = IF @ = << >> THEN @ ELSE Tail(@)]
  BY HandlesFields DEF Fields, memos
<1> HIDE DEF a
<1>4. CASE m.memos = << >>  BY <1>2, <1>3, <1>4 DEF RunMemo
<1>5. CASE m.memos # << >> /\ memo.type = "key"
  <2>1. KeyOK(k)  BY <1>1, <1>5 DEF MemoOK, KeyOK
  <2>2. RunMemo(m) = KeySwitch(a, k)  BY <1>3, <1>5 DEF RunMemo
  <2> HIDE DEF k
  <2> QED BY <1>2, <2>1, <2>2, KeySwitchHandles
<1>6. CASE m.memos # << >> /\ memo.type # "key"
  <2>1. memo.down \in BOOLEAN  BY <1>1, <1>6 DEF MemoOK
  <2>2. RunMemo(m) = Flush(RunAction(a, memo.code, memo.down), FALSE)  BY <1>3, <1>6 DEF RunMemo
  <2> QED BY <1>2, <2>1, <2>2, RunActionHandles, FlushHandles
<1> QED BY <1>4, <1>5, <1>6

-----------------------------------------------------------------------------
(***************************************************************************)
(* The steps of the tasks.                                                 *)
(***************************************************************************)
\* The times of the mapper between two handlers, and of the timer.
TimesInv ==
  /\ s.keyboard \in Boards /\ TimesOK(Begun(s)) /\ Timely(Begun(s))
  /\ clock \in Times /\ s.now <= clock
  /\ expires_at \in 0..NEVER /\ ctl_sig \in {"none", "timer_expired"}

LEMMA BegunParts ==
  ASSUME DOMAIN s = Fields \/ DOMAIN Begun(s) = Fields
  PROVE  LET b == Begun(s)
         IN /\ DOMAIN s = Fields /\ DOMAIN b = Fields /\ b.keyboard = Board
            /\ b.memos = s.memos /\ b.dual = s.dual /\ b.td = s.td /\ b.mouse = s.mouse /\ b.last = s.last
            /\ b.now = s.now /\ b.wait_time = s.wait_time /\ b.at_sig = s.at_sig /\ b.macro = s.macro
<1>1. DOMAIN Begun(s) = DOMAIN s  BY DEF Begun
<1> QED BY <1>1 DEF Begun, Fields

\* Something is undecided, as Timer sees it.
LEMMA WaitingDeadline == TimesInv => (NextDeadline # NEVER <=> Waiting(Begun(s)))
<1> SUFFICES ASSUME TimesInv PROVE NextDeadline # NEVER <=> Waiting(Begun(s))  OBVIOUS
<1>1. TimesOK(Begun(s)) /\ DOMAIN Begun(s) = Fields  BY DEF TimesInv, TimesOK
<1>2. Begun(s).mouse = s.mouse /\ Begun(s).dual = s.dual /\ Begun(s).td = s.td  BY <1>1, BegunParts
<1>3. NextDeadline = LET m == Begun(s)
                     IN Earlier(Earlier(NextEventTime(m.mouse), WaitUntil(m.dual)),
                                IF m.td.location # 0 THEN m.td.wait_until ELSE NEVER)
  BY <1>2 DEF NextDeadline
<1> QED BY <1>1, <1>3, EarliestDeadline

LEMMA InitTimes == Init => TimesInv
<1> SUFFICES ASSUME Init PROVE TimesInv  OBVIOUS
<1>1. PICK b \in Boards : s = NewMapper(b)  BY DEF Init
<1>2. /\ DOMAIN s = Fields /\ s.keyboard = b /\ s.memos = << >> /\ s.dual = NoDual /\ s.td = NoTapDance
      /\ s.mouse = NoMouse /\ s.last = [key |-> 255, down |-> TRUE, time |-> 0]
      /\ s.now = 1 /\ s.wait_time = NEVER /\ s.at_sig = NoSignal
  BY <1>1 DEF NewMapper, Fields
<1>3. WellFormed(Board)  BY <1>2, MapperAssumption, KeyboardsAssumption DEF Board
<1>4. MemosOK(<< >>)
  <2>1. << >> \in Seq({}) /\ \A memo \in {} : MemoOK(memo)  BY EmptySeq
  <2> QED BY <2>1, MemosOfSet
<1>5. DanceOK(NoTapDance)  BY Ends DEF NoTapDance, DanceOK
<1>6. MouseOK(NoMouse, 1)  BY DEF NoMouse, MouseOK
<1>7. KeyOK(s.last)  BY <1>2, Ends DEF KeyOK, Times
<1>8. TimesOK(Begun(s))  BY <1>2, <1>3, <1>4, <1>5, <1>6, <1>7, BegunParts, Ends DEF TimesOK, DualOK, Times
<1>9. Timely(Begun(s))  BY <1>2, BegunParts DEF Timely, NoDual, NoTapDance, NoMouse
<1>10. clock \in Times /\ s.now <= clock
  <2>1. 2 \in Times  BY Ends DEF Times
  <2> QED BY <1>2, <2>1 DEF Init
<1> QED BY <1>1, <1>2, <1>8, <1>9, <1>10, Ends DEF Init, TimesInv

\* A handler may begin, now or after it looked at the clock.
LEMMA HandlerBegins ==
  ASSUME TimesInv
  PROVE  /\ Handles(Begun(s), Begun(s))
         /\ Handles([Begun(s) EXCEPT !.now = clock], [Begun(s) EXCEPT !.now = clock])
<1> DEFINE a == Begun(s)
           b == [a EXCEPT !.now = clock]
<1>1. TimesOK(a) /\ Timely(a) /\ DOMAIN a = Fields /\ a.now <= clock /\ clock \in Times
  <2>1. TimesOK(a) /\ Timely(a) /\ DOMAIN a = Fields /\ s.now <= clock /\ clock \in Times  BY DEF TimesInv, TimesOK
  <2> QED BY <2>1, BegunParts
<1> HIDE DEF a
<1>2. Handles(a, a)  BY <1>1 DEF Handles, Tracks, Silent
<1>3. /\ DOMAIN b = Fields /\ b.keyboard = a.keyboard /\ b.memos = a.memos /\ b.dual = a.dual /\ b.td = a.td
      /\ b.mouse = a.mouse /\ b.last = a.last /\ b.wait_time = a.wait_time /\ b.at_sig = a.at_sig
      /\ b.now = clock
  BY <1>1 DEF Fields
<1> HIDE DEF b
<1>4. a.now \in Nat \ {0} /\ clock \in Nat \ {0} /\ a.wait_time \in Nat
  BY <1>1, Ends DEF TimesOK, Times
<1>5. MouseOK(b.mouse, b.now)
  <2>1. MouseOK(a.mouse, a.now)  BY <1>1 DEF TimesOK
  <2> QED BY <1>1, <1>3, <1>4, <2>1 DEF MouseOK
<1>6. TimesOK(b)  BY <1>1, <1>3, <1>4, <1>5 DEF TimesOK
<1>7. Timely(b)  BY <1>1, <1>3, <1>4 DEF Timely
<1>8. Handles(b, b)  BY <1>6, <1>7 DEF Handles, Tracks, Silent
<1> QED BY <1>2, <1>8 DEF a, b

\* A handler ends: what it leaves, and what it has told the timer.
LEMMA HandlerEnds ==
  ASSUME TimesInv, NEW z, z \in {Begun(s), [Begun(s) EXCEPT !.now = clock]},
         NEW m, Handles(z, m), s' = Settled(m), UNCHANGED <<clock, expires_at>>,
         ctl_sig' \in {"none", "timer_expired"}
  PROVE  /\ TimesInv'
         /\ \/ s'.at_sig = s'.wait_time /\ (NextDeadline' # NEVER => s'.wait_time # NEVER)
            \/ /\ s'.wait_time = s.wait_time /\ s'.at_sig = s.at_sig
               /\ NextDeadline' # NEVER => NextDeadline # NEVER
         /\ Asked(m) => s'.at_sig = s'.wait_time
         /\ s'.wait_time \in 0..NEVER
<1> DEFINE n == Begun(s)'
<1>0. /\ DOMAIN Begun(s) = Fields /\ s.keyboard \in Boards /\ clock \in Times /\ s.now <= clock /\ s.now \in Nat
  <2>1. TimesOK(Begun(s)) /\ s.keyboard \in Boards /\ clock \in Times /\ s.now <= clock  BY DEF TimesInv
  <2>2. DOMAIN Begun(s) = Fields /\ Begun(s).now \in Times  BY <2>1 DEF TimesOK
  <2> QED BY <2>1, <2>2, BegunParts, Ends DEF Times
<1>1. /\ z.keyboard = Board /\ z.now \in {s.now, clock} /\ z.wait_time = s.wait_time /\ z.at_sig = s.at_sig
      /\ z.mouse = s.mouse /\ z.dual = s.dual /\ z.td = s.td
  <2>1. CASE z = Begun(s)  BY <1>0, <2>1, BegunParts
  <2>2. CASE z = [Begun(s) EXCEPT !.now = clock]
    <3> DEFINE b == Begun(s)
    <3>1. /\ DOMAIN b = Fields /\ b.keyboard = Board /\ b.wait_time = s.wait_time /\ b.at_sig = s.at_sig
          /\ b.mouse = s.mouse /\ b.dual = s.dual /\ b.td = s.td
      BY <1>0, BegunParts
    <3>2. z = [b EXCEPT !.now = clock]  BY <2>2
    <3> HIDE DEF b
    <3> QED BY <3>1, <3>2 DEF Fields
  <2> QED BY <2>1, <2>2
<1>2. m.keyboard = Board /\ m.now = z.now /\ DOMAIN m = Fields  BY <1>1, HandlesFields DEF Handles, Tracks
<1>3. /\ DOMAIN s' = Fields /\ s'.keyboard = s.keyboard
      /\ s'.memos = m.memos /\ s'.dual = m.dual /\ s'.td = m.td /\ s'.mouse = m.mouse /\ s'.last = m.last
      /\ s'.now = m.now /\ s'.wait_time = m.wait_time /\ s'.at_sig = m.at_sig
  BY <1>2 DEF Settled, Fields
<1>4. Board' = Board  BY <1>3 DEF Board
<1>5. n = [s' EXCEPT !.keyboard = Board]  BY <1>4 DEF Begun
<1>6. SameTimes(m, n)
  <2> HIDE DEF n
  <2> QED BY <1>2, <1>3, <1>5 DEF SameTimes, Fields
<1>7. Handles(z, n)  BY <1>6, SameHandles
<1>8. TimesOK(n) /\ Timely(n)  BY <1>7 DEF Handles, Tracks
<1>9. TimesInv'
  <2>1. s'.keyboard \in Boards /\ clock' \in Times /\ s'.now <= clock'  BY <1>0, <1>1, <1>2, <1>3, Ends DEF Times
  <2>2. expires_at' \in 0..NEVER  BY DEF TimesInv
  <2> QED BY <1>8, <2>1, <2>2 DEF TimesInv
<1>10. NextDeadline' # NEVER <=> Waiting(n)
  <2>1. (TimesInv => (NextDeadline # NEVER <=> Waiting(Begun(s))))'  BY WaitingDeadline, PTL
  <2> QED BY <1>9, <2>1
<1>11. NextDeadline # NEVER <=> Waiting(z)
  <2>1. Begun(s).mouse = s.mouse /\ Begun(s).dual = s.dual /\ Begun(s).td = s.td  BY <1>0, BegunParts
  <2>2. Waiting(z) <=> Waiting(Begun(s))  BY <1>1, <2>1 DEF Waiting
  <2> QED BY <2>2, WaitingDeadline
<1>12. n.wait_time = s'.wait_time /\ n.at_sig = s'.at_sig  BY <1>3, <1>6 DEF SameTimes
<1> HIDE DEF n
<1>13. Asked(m) => s'.at_sig = s'.wait_time  BY <1>3 DEF Asked
<1>14. s'.wait_time \in 0..NEVER  BY <1>8, <1>12 DEF TimesOK
<1> QED BY <1>1, <1>7, <1>9, <1>10, <1>11, <1>12, <1>13, <1>14 DEF Handles, Asked, Silent

-----------------------------------------------------------------------------
(***************************************************************************)
(* The steps.                                                              *)
(***************************************************************************)
\* A step of a handler is one of Timer, or changes nothing that Timer has.
LEMMA HandlerStep ==
  ASSUME TimesInv, NEW z, z \in {Begun(s), [Begun(s) EXCEPT !.now = clock]},
         NEW m, Handles(z, m), s' = Settled(m), UNCHANGED <<clock, expires_at, ctl_sig>>
  PROVE  TimesInv' /\ [Timer!Next]_(Timer!vars)
<1>1. ctl_sig' \in {"none", "timer_expired"}  BY DEF TimesInv
<1>2. /\ TimesInv'
      /\ \/ s'.at_sig = s'.wait_time /\ (NextDeadline' # NEVER => s'.wait_time # NEVER)
         \/ /\ s'.wait_time = s.wait_time /\ s'.at_sig = s.at_sig
            /\ NextDeadline' # NEVER => NextDeadline # NEVER
      /\ s'.wait_time \in 0..NEVER
  BY <1>1, HandlerEnds
<1>3. CASE s'.at_sig = s'.wait_time /\ (NextDeadline' # NEVER => s'.wait_time # NEVER)
  <2>1. Timer!Asks  BY <1>2, <1>3 DEF Timer!Asks, Timer!SetWaitTime
  <2> QED BY <1>2, <2>1 DEF Timer!Next
<1>4. CASE /\ s'.wait_time = s.wait_time /\ s'.at_sig = s.at_sig
           /\ NextDeadline' # NEVER => NextDeadline # NEVER
  <2>1. CASE NextDeadline' # NEVER
    <3>1. Timer!vars' = Timer!vars  BY <1>4, <2>1 DEF Timer!vars, Timer!mapper
    <3> QED BY <1>2, <3>1
  <2>2. CASE NextDeadline' = NEVER
    <3>1. Timer!Decides  BY <1>4, <2>2 DEF Timer!Decides
    <3> QED BY <1>2, <3>1 DEF Timer!Next
  <2> QED BY <2>1, <2>2
<1> QED BY <1>2, <1>3, <1>4

\* The handler that takes the message of the timer asks anew, or waits for nothing.
LEMMA TakeTimerStep == ASSUME TimesInv, TakeTimer PROVE TimesInv' /\ Timer!CheckTime
<1> DEFINE z == [Begun(s) EXCEPT !.now = clock]
           m == CheckTime(z)
<1>1. Handles(z, z)  BY HandlerBegins
<1>2. /\ Handles(z, m)
      /\ z.wait_time # NEVER /\ z.macro = Noop => Asked(m)
      /\ z.wait_time = NEVER => m = z
  BY <1>1, CheckTimeHandles
<1>3. s' = Settled(m) /\ UNCHANGED <<clock, expires_at>> /\ ctl_sig = "timer_expired" /\ ctl_sig' = "none"
      /\ s.macro = Noop
  BY DEF TakeTimer, typist, output, Selecting, RunningMacro
<1>4. /\ DOMAIN z = Fields
      /\ z.wait_time = s.wait_time /\ z.at_sig = s.at_sig /\ z.macro = s.macro
      /\ z.mouse = s.mouse /\ z.dual = s.dual /\ z.td = s.td
  <2> DEFINE b == Begun(s)
  <2>1. DOMAIN b = Fields  BY DEF TimesInv, TimesOK
  <2>2. /\ b.wait_time = s.wait_time /\ b.at_sig = s.at_sig /\ b.macro = s.macro
        /\ b.mouse = s.mouse /\ b.dual = s.dual /\ b.td = s.td
    BY <2>1, BegunParts
  <2>3. z = [b EXCEPT !.now = clock]  OBVIOUS
  <2> HIDE DEF b, z
  <2> QED BY <2>1, <2>2, <2>3 DEF Fields
<1> HIDE DEF m
<1>5. /\ TimesInv'
      /\ \/ s'.at_sig = s'.wait_time /\ (NextDeadline' # NEVER => s'.wait_time # NEVER)
         \/ /\ s'.wait_time = s.wait_time /\ s'.at_sig = s.at_sig
            /\ NextDeadline' # NEVER => NextDeadline # NEVER
      /\ Asked(m) => s'.at_sig = s'.wait_time
      /\ s'.wait_time \in 0..NEVER
  BY <1>2, <1>3, HandlerEnds
<1> HIDE DEF z
<1>6. CASE s.wait_time # NEVER
  BY <1>2, <1>3, <1>4, <1>5, <1>6 DEF Timer!CheckTime, Timer!SetWaitTime
<1>7. CASE s.wait_time = NEVER
  <2>1. s' = Settled(z)  BY <1>2, <1>3, <1>4, <1>7
  <2>2. /\ s'.wait_time = s.wait_time /\ s'.at_sig = s.at_sig
        /\ s'.mouse = s.mouse /\ s'.dual = s.dual /\ s'.td = s.td
    BY <1>4, <2>1 DEF Settled, Fields
  <2>3. NextDeadline' = NextDeadline  BY <2>2 DEF NextDeadline
  <2> QED BY <1>3, <1>5, <1>7, <2>2, <2>3 DEF Timer!CheckTime, Timer!mapper
<1> QED BY <1>6, <1>7

\* The reporter and the timer change nothing of the mapper but the channel and the signal.
LEMMA OthersStep ==
  ASSUME TimesInv, NEW c, NEW g, g \in 0..NEVER \cup {NoSignal},
         s' = [s EXCEPT !.chan = c, !.at_sig = g], UNCHANGED clock,
         expires_at' \in 0..NEVER, ctl_sig' \in {"none", "timer_expired"}
  PROVE  /\ TimesInv' /\ s'.wait_time = s.wait_time /\ s'.at_sig = g
         /\ (NextDeadline' # NEVER <=> NextDeadline # NEVER)
<1> DEFINE b == Begun(s)
           n == Begun(s)'
<1>1. TimesOK(b) /\ Timely(b) /\ DOMAIN b = Fields  BY DEF TimesInv, TimesOK
<1>2. DOMAIN s = Fields /\ b.now = s.now  BY <1>1, BegunParts
<1>3. /\ DOMAIN s' = Fields /\ s'.keyboard = s.keyboard /\ s'.now = s.now
      /\ s'.mouse = s.mouse /\ s'.dual = s.dual /\ s'.td = s.td
      /\ s'.wait_time = s.wait_time /\ s'.at_sig = g
  BY <1>2 DEF Fields
<1>4. n = [b EXCEPT !.chan = c, !.at_sig = g]
  <2>1. Board' = Board  BY <1>3 DEF Board
  <2> QED BY <1>2, <2>1 DEF Begun, Fields
<1> HIDE DEF b, n
<1>5. /\ DOMAIN n = Fields /\ n.keyboard = b.keyboard /\ n.memos = b.memos /\ n.dual = b.dual /\ n.td = b.td
      /\ n.mouse = b.mouse /\ n.last = b.last /\ n.now = b.now /\ n.wait_time = b.wait_time /\ n.at_sig = g
  BY <1>1, <1>4 DEF Fields
<1>6. TimesOK(n) /\ Timely(n)  BY <1>1, <1>5 DEF TimesOK, Timely
<1>7. TimesInv'  BY <1>3, <1>6 DEF TimesInv, b, n
<1>8. NextDeadline' = NextDeadline  BY <1>3 DEF NextDeadline
<1> QED BY <1>3, <1>7, <1>8

\* Every step keeps the times, and is one of Timer or changes nothing that Timer has.
LEMMA TimesStep == TimesInv /\ [Next]_vars => TimesInv' /\ [Timer!Next]_(Timer!vars)
<1> SUFFICES ASSUME TimesInv, [Next]_vars PROVE TimesInv' /\ [Timer!Next]_(Timer!vars)  OBVIOUS
<1> DEFINE Unmoved == UNCHANGED tasks /\ clock' \in Times /\ clock <= clock'
<1>0. DOMAIN s = Fields /\ clock \in Times /\ clock \in Nat /\ s.now \in Nat /\ s.now <= clock
      /\ expires_at \in 0..NEVER /\ ctl_sig \in {"none", "timer_expired"} /\ s.at_sig \in 0..NEVER \cup {NoSignal}
  <2>1. TimesOK(Begun(s)) /\ clock \in Times /\ s.now <= clock /\ expires_at \in 0..NEVER /\ ctl_sig \in {"none", "timer_expired"}
    BY DEF TimesInv
  <2>2. DOMAIN Begun(s) = Fields /\ Begun(s).now \in Times /\ Begun(s).at_sig \in 0..NEVER \cup {NoSignal}
    BY <2>1 DEF TimesOK
  <2>3. DOMAIN s = Fields /\ s.now \in Times /\ s.at_sig \in 0..NEVER \cup {NoSignal}  BY <2>2, BegunParts
  <2> QED BY <2>1, <2>3, Ends DEF Times
<1>1. ASSUME Unmoved PROVE TimesInv' /\ [Timer!Next]_(Timer!vars)
  <2>1. s' = s /\ expires_at' = expires_at /\ ctl_sig' = ctl_sig  BY <1>1 DEF tasks
  <2>2. Begun(s)' = Begun(s)  BY <2>1 DEF Begun, Board
  <2>3. TimesInv'  BY <1>0, <1>1, <2>1, <2>2, Ends DEF TimesInv, Times
  <2>4. Timer!vars' = Timer!vars  BY <2>1 DEF Timer!vars, Timer!mapper, NextDeadline
  <2> QED BY <2>3, <2>4
<1>2. CASE \E k \in Board.keys : Press(k) \/ Release(k)
  <2>1. Unmoved  BY <1>0, <1>2 DEF Press, Release, Scan
  <2> QED BY <1>1, <2>1
<1>3. CASE Tick
  <2>1. Unmoved
    <3>1. clock < LAST_TIME /\ clock' = clock + 1 /\ UNCHANGED tasks  BY <1>3 DEF Tick
    <3> QED BY <1>0, <3>1, Ends DEF Times
  <2> QED BY <1>1, <2>1
<1>4. CASE MacroStep
  <2>1. Handles(Begun(s), Begun(s))  BY HandlerBegins
  <2>2. Handles(Begun(s), CheckTime(Begun(s)))  BY <2>1, CheckTimeHandles
  <2> QED BY <1>4, <2>2, HandlerStep DEF MacroStep
<1>5. CASE MemoStep
  <2>1. Handles(Begun(s), Begun(s))  BY HandlerBegins
  <2>2. Handles(Begun(s), RunMemo(Begun(s)))  BY <2>1, RunMemoHandles
  <2> QED BY <1>5, <2>2, HandlerStep DEF MemoStep
<1>6. CASE TakeKey
  <2> DEFINE z == [Begun(s) EXCEPT !.now = clock]
  <2>1. PICK e : s' = Settled(KeySwitch(z, [key |-> e.key, down |-> e.down, time |-> clock]))
                 /\ UNCHANGED <<clock, expires_at, ctl_sig>>
    BY <1>6 DEF TakeKey, output
  <2>2. KeyOK([key |-> e.key, down |-> e.down, time |-> clock])  BY <1>0 DEF KeyOK
  <2>3. Handles(z, z)  BY HandlerBegins
  <2>4. Handles(z, KeySwitch(z, [key |-> e.key, down |-> e.down, time |-> clock]))
    BY <2>2, <2>3, KeySwitchHandles
  <2> QED BY <2>1, <2>4, HandlerStep
<1>7. CASE TakeTimer  BY <1>7, TakeTimerStep DEF Timer!Next
<1>8. CASE TimerSet
  <2>1. s.at_sig # NoSignal /\ expires_at' = s.at_sig /\ s' = [s EXCEPT !.at_sig = NoSignal]
        /\ UNCHANGED <<clock, ctl_sig>>
    BY <1>8 DEF TimerSet
  <2>2. s' = [s EXCEPT !.chan = s.chan, !.at_sig = NoSignal]  BY <1>0, <2>1 DEF Fields
  <2>3. /\ TimesInv' /\ s'.wait_time = s.wait_time /\ s'.at_sig = NoSignal
        /\ (NextDeadline' # NEVER <=> NextDeadline # NEVER)
    BY <1>0, <2>1, <2>2, OthersStep
  <2>4. Timer!TimerSet  BY <2>1, <2>3 DEF Timer!TimerSet, Timer!mapper
  <2> QED BY <2>3, <2>4 DEF Timer!Next
<1>9. CASE TimerExpires
  <2>1. TimerDue /\ expires_at' = NEVER /\ ctl_sig' = "timer_expired" /\ UNCHANGED <<clock, s>>
    BY <1>9 DEF TimerExpires
  <2>2. Begun(s)' = Begun(s) /\ NextDeadline' = NextDeadline  BY <2>1 DEF Begun, Board, NextDeadline
  <2>3. TimesInv'  BY <2>1, <2>2, Ends DEF TimesInv
  <2>4. Timer!TimerExpires  BY <2>1, <2>2 DEF Timer!TimerExpires, Timer!mapper, TimerDue
  <2> QED BY <2>3, <2>4 DEF Timer!Next
<1>10. CASE Reporter
  <2>1. s' = [s EXCEPT !.chan = Tail(@)] /\ UNCHANGED <<clock, expires_at, ctl_sig>>  BY <1>10 DEF Reporter
  <2>2. s' = [s EXCEPT !.chan = Tail(s.chan), !.at_sig = s.at_sig]  BY <1>0, <2>1 DEF Fields
  <2>3. /\ TimesInv' /\ s'.wait_time = s.wait_time /\ s'.at_sig = s.at_sig
        /\ (NextDeadline' # NEVER <=> NextDeadline # NEVER)
    BY <1>0, <2>1, <2>2, OthersStep
  <2>4. Timer!vars' = Timer!vars  BY <2>1, <2>3 DEF Timer!vars, Timer!mapper
  <2> QED BY <2>3, <2>4
<1>11. CASE UNCHANGED vars
  <2>1. Unmoved  BY <1>0, <1>11 DEF vars, tasks
  <2> QED BY <1>1, <2>1
<1> QED
  BY <1>2, <1>3, <1>4, <1>5, <1>6, <1>7, <1>8, <1>9, <1>10, <1>11 DEF Next, MapperTask, TimerTask

-----------------------------------------------------------------------------
(***************************************************************************)
(* The theorems.                                                           *)
(***************************************************************************)
\* The times and deadlines of mapper and timer are times and deadlines, and what the mapper
\* asked for (set_wait_time) comes no later than what it waits for.
THEOREM TimesCorrect == Spec => []TimesInv
<1> QED BY InitTimes, TimesStep, PTL DEF Spec

\* A new mapper waits for nothing.
LEMMA InitTimer == Init => Timer!Init
<1> SUFFICES ASSUME Init PROVE Timer!Init  OBVIOUS
<1>1. PICK b \in Boards : s = NewMapper(b)  BY DEF Init
<1>2. s.dual = NoDual /\ s.td = NoTapDance /\ s.mouse = NoMouse /\ s.wait_time = NEVER /\ s.at_sig = NoSignal
  BY <1>1 DEF NewMapper
<1>3. NextDeadline = NEVER
  BY <1>2, Ends DEF NextDeadline, NoDual, NoTapDance, NoMouse, NextEventTime, WaitUntil, Earlier
<1> QED BY <1>2, <1>3 DEF Init, Timer!Init

\* The handlers of the mapper and the timer task implement DeadlineTimer: no handler leaves
\* something undecided that needs a deadline without telling the timer (set_wait_time), and
\* none takes the message of the timer without asking anew (check_time).
THEOREM TimerImplemented == Spec => WakesAsPromised
<1>1. Init => Timer!Init  BY InitTimer
<1>2. TimesInv /\ [Next]_vars => [Timer!Next]_(Timer!vars)  BY TimesStep
<1> QED BY <1>1, <1>2, TimesCorrect, PTL DEF Spec, WakesAsPromised, Timer!Spec

\* The deadlines of the mapper are a set that the theorems about DeadlineTimer are about.
LEMMA TimerKinds == Timer!DeadlineKinds
  BY Ends DEF Timer!DeadlineKinds

\* No wake-up of the mapper is lost: while something is undecided the deadline it asked for is
\* on its way to the timer, with the timer, or its message on the way back
\* (set_wait_time, MapperTimer::run, ControlSignal).
THEOREM NoWakeLost == Spec => []Timer!WakeComing
<1>1. Timer!Spec => []Timer!WakeComing  BY TimerKinds, Timer!WakesComing
<1> QED BY <1>1, TimerImplemented, PTL DEF WakesAsPromised

\* The timer of the mapper does not run for a deadline that was withdrawn: what is on its way is
\* what the mapper asked for last (set_wait_time, MapperTimer::run).
THEOREM NoDeadlineStale == Spec => []Timer!NoStaleDeadline
<1>1. Timer!Spec => []Timer!NoStaleDeadline  BY TimerKinds, Timer!DeadlinesWanted
<1> QED BY <1>1, TimerImplemented, PTL DEF WakesAsPromised

\* Whatever a mapper waits for, be it a dual action, a tap dance or a mouse key that is down, the
\* timer will wake it in time, or at once when it is late already (set_wait_time, check_time).
THEOREM DeadlinesArmed == Spec => []DeadlineArmed
<1>1. ASSUME TimesInv, Timer!WakeComing PROVE DeadlineArmed
  <2> DEFINE b == Begun(s)
  <2>1. TimesOK(b) /\ Timely(b) /\ DOMAIN b = Fields /\ s.now <= clock /\ clock \in Times
        /\ expires_at \in 0..NEVER /\ ctl_sig \in {"none", "timer_expired"}
    BY <1>1 DEF TimesInv, TimesOK
  <2>2. /\ b.mouse = s.mouse /\ b.dual = s.dual /\ b.td = s.td
        /\ b.now = s.now /\ b.wait_time = s.wait_time
    BY <2>1, BegunParts
  <2>3. b.now \in Nat /\ b.wait_time \in Nat /\ clock \in Nat  BY <2>1, Ends DEF TimesOK, Times
  <2>4. Waiting(b) => NextDeadline # NEVER  BY <1>1, WaitingDeadline
  <2> HIDE DEF b
  \* Whatever the mapper waits for, what it asked for is early enough, and on its way.
  <2>5. ASSUME NEW t, t \in Nat, Waiting(b), s.wait_time <= t \/ s.wait_time <= s.now PROVE Deadline(t)
    <3>1. InTime(s.wait_time, t)  BY <2>1, <2>2, <2>3, <2>5 DEF InTime
    <3>2. NoSignal # s.wait_time  BY <2>2, <2>3, Ends
    <3>3. \/ s.at_sig = s.wait_time
          \/ expires_at = s.wait_time
          \/ ctl_sig = "timer_expired"
      BY <1>1, <2>1, <2>4, <2>5 DEF Timer!WakeComing
    <3> QED BY <3>1, <3>2, <3>3 DEF Deadline
  <2>6. s.dual.type = "wait" => Deadline(s.dual.key.time + s.dual.duration)
    <3> SUFFICES ASSUME s.dual.type = "wait" PROVE Deadline(s.dual.key.time + s.dual.duration)  OBVIOUS
    <3>1. DualOK(s.dual) /\ s.dual # NoDual  BY <2>1, <2>2 DEF TimesOK, NoDual
    <3>2. s.dual.key.time + s.dual.duration \in Nat  BY <3>1, Ends DEF DualOK, KeyOK, Times
    <3> QED BY <2>1, <2>2, <2>5, <3>2 DEF Waiting, Timely
  <2>7. s.td.location # 0 => Deadline(s.td.wait_until)
    <3> SUFFICES ASSUME s.td.location # 0, s.td.wait_until # NEVER PROVE Deadline(s.td.wait_until)
      BY DEF Deadline
    <3>1. s.td.wait_until \in Nat  BY <2>1, <2>2, Ends DEF TimesOK, DanceOK
    <3> QED BY <2>1, <2>2, <2>5, <3>1 DEF Waiting, Timely
  <2>8. s.mouse.count > 0 => Deadline(NextEventTime(s.mouse))
    <3>1. CASE s.mouse.first = 0
      <4>1. NextEventTime(s.mouse) = NEVER  BY <3>1, Ends DEF NextEventTime
      <4> QED BY <4>1 DEF Deadline
    <3>2. CASE s.mouse.first # 0
      <4>1. NextEventTime(s.mouse) \in Nat  BY <2>1, <2>2, EarliestDeadline, Ends
      <4> QED BY <2>1, <2>2, <2>5, <3>2, <4>1 DEF Waiting, Timely
    <3> QED BY <3>1, <3>2
  <2> QED BY <2>6, <2>7, <2>8 DEF DeadlineArmed
<1> QED BY <1>1, TimesCorrect, NoWakeLost, PTL

-----------------------------------------------------------------------------
(***************************************************************************)
(* The report that comes of the events in the channel.                     *)
(***************************************************************************)
\* The reports after the first n events of the channel, for every n up to k.
ReportsTo(r, chan, k, f) == f = [n \in 0..k |-> IF n = 0 THEN r ELSE Apply(f[n - 1], chan[n])]

LEMMA ReportsToSteps ==
  ASSUME NEW r, NEW chan, NEW k \in Nat, NEW f, ReportsTo(r, chan, k, f)
  PROVE  f[0] = r /\ \A n \in 1..k : f[n] = Apply(f[n - 1], chan[n])
<1>1. \A n \in 0..k : f[n] = IF n = 0 THEN r ELSE Apply(f[n - 1], chan[n])  BY DEF ReportsTo
<1> QED BY <1>1

LEMMA ReportsExist == ASSUME NEW r, NEW chan, NEW k \in Nat PROVE \E f : ReportsTo(r, chan, k, f)
<1> DEFINE T == {n \in Nat : \E f : ReportsTo(r, chan, n, f)}
<1>1. 0 \in T
  <2> DEFINE f == [n \in 0..0 |-> r]
  <2>1. f = [n \in 0..0 |-> IF n = 0 THEN r ELSE Apply(f[n - 1], chan[n])]  OBVIOUS
  <2> QED BY <2>1 DEF ReportsTo
<1>2. ASSUME NEW n \in Nat, n \in T PROVE n + 1 \in T
  <2>1. PICK old : ReportsTo(r, chan, n, old)  BY <1>2
  <2>2. old[0] = r /\ \A i \in 1..n : old[i] = Apply(old[i - 1], chan[i])  BY <2>1 DEF ReportsTo
  <2> DEFINE f == [i \in 0..(n + 1) |-> IF i \in 0..n THEN old[i] ELSE Apply(old[n], chan[n + 1])]
  <2>3. ASSUME NEW i \in 0..(n + 1) PROVE f[i] = IF i = 0 THEN r ELSE Apply(f[i - 1], chan[i])
    <3>1. CASE i = 0  BY <2>2, <3>1
    <3>2. CASE i \in 1..n
      <4>1. f[i] = old[i] /\ f[i - 1] = old[i - 1]  BY <3>2
      <4> HIDE DEF f
      <4> QED BY <2>2, <3>2, <4>1
    <3>3. CASE i = n + 1
      <4>1. f[i] = Apply(old[n], chan[n + 1]) /\ f[i - 1] = old[n]  BY <3>3
      <4> HIDE DEF f
      <4> QED BY <3>3, <4>1
    <3> QED BY <3>1, <3>2, <3>3
  <2>4. f = [i \in 0..(n + 1) |-> f[i]]  OBVIOUS
  <2> HIDE DEF f
  <2>5. ReportsTo(r, chan, n + 1, f)  BY <2>3, <2>4 DEF ReportsTo
  <2> QED BY <2>5
<1> HIDE DEF T
<1>3. k \in T  BY <1>1, <1>2, Induction
<1> QED BY <1>3 DEF T

\* Two channels that agree as far as k lead to the same reports so far.
LEMMA ReportsAgree ==
  ASSUME NEW r, NEW c, NEW d, NEW k \in Nat, NEW l \in Nat, k <= l, NEW f, NEW g,
         ReportsTo(r, c, k, f), ReportsTo(r, d, l, g), \A n \in 1..k : c[n] = d[n]
  PROVE  f[k] = g[k]
<1> DEFINE T == {n \in Nat : n <= k => f[n] = g[n]}
<1>1. /\ f[0] = r /\ \A n \in 1..k : f[n] = Apply(f[n - 1], c[n])
      /\ g[0] = r /\ \A n \in 1..l : g[n] = Apply(g[n - 1], d[n])
  BY ReportsToSteps
<1>2. 0 \in T  BY <1>1
<1>3. ASSUME NEW n \in Nat, n \in T PROVE n + 1 \in T
  <2> SUFFICES ASSUME n + 1 <= k PROVE f[n + 1] = g[n + 1]  OBVIOUS
  <2>1. n + 1 \in 1..k /\ n + 1 \in 1..l /\ n + 1 - 1 = n  OBVIOUS
  <2>2. f[n + 1] = Apply(f[n], c[n + 1]) /\ g[n + 1] = Apply(g[n], d[n + 1])  BY <1>1, <2>1
  <2> QED BY <1>3, <2>1, <2>2
<1> HIDE DEF T
<1>4. k \in T  BY <1>2, <1>3, Induction
<1> QED BY <1>4 DEF T

LEMMA OutcomeIs ==
  ASSUME NEW r, NEW S, NEW chan \in Seq(S), NEW f, ReportsTo(r, chan, Len(chan), f)
  PROVE  Outcome(r, chan) = f[Len(chan)]
<1> DEFINE after[n \in 0..Len(chan)] == IF n = 0 THEN r ELSE Apply(after[n - 1], chan[n])
<1>1. Len(chan) \in Nat  OBVIOUS
<1>2. after = [n \in 0..Len(chan) |-> IF n = 0 THEN r ELSE Apply(after[n - 1], chan[n])]
  <2>1. \E g : g = [n \in 0..Len(chan) |-> IF n = 0 THEN r ELSE Apply(g[n - 1], chan[n])]
    BY <1>1, ReportsExist DEF ReportsTo
  <2> QED BY <2>1, Zenon
<1>3. Outcome(r, chan) = after[Len(chan)]  BY DEF Outcome
<1> HIDE DEF after
<1>4. ReportsTo(r, chan, Len(chan), after)  BY <1>2 DEF ReportsTo
<1>5. after[Len(chan)] = f[Len(chan)]  BY <1>1, <1>4, ReportsAgree
<1> QED BY <1>3, <1>5

LEMMA OutcomeOfNothing == ASSUME NEW r PROVE Outcome(r, << >>) = r
<1>1. << >> \in Seq({}) /\ Len(<< >>) = 0  BY EmptySeq
<1>2. PICK f : ReportsTo(r, << >>, 0, f)  BY ReportsExist
<1>3. f[0] = r  BY <1>2, ReportsToSteps
<1> QED BY <1>1, <1>2, <1>3, OutcomeIs

LEMMA OutcomeAppend ==
  ASSUME NEW r, NEW S, NEW chan \in Seq(S), NEW event
  PROVE  Outcome(r, Append(chan, event)) = Apply(Outcome(r, chan), event)
<1> DEFINE k == Len(chan)
           d == Append(chan, event)
<1>1. chan \in Seq(S \cup {event})  BY SeqMonotonic, Zenon
<1>2. d \in Seq(S \cup {event}) /\ Len(d) = k + 1 /\ d[k + 1] = event
      /\ k \in Nat /\ \A n \in 1..k : chan[n] = d[n]
  BY <1>1
<1> HIDE DEF d, k
<1>3. PICK f : ReportsTo(r, chan, k, f)  BY <1>2, ReportsExist
<1>4. PICK g : ReportsTo(r, d, k + 1, g)
  <2>1. k + 1 \in Nat  BY <1>2
  <2> QED BY <2>1, ReportsExist
<1>5. f[k] = g[k]  BY <1>2, <1>3, <1>4, ReportsAgree
<1>6. g[k + 1] = Apply(g[k], d[k + 1])  BY <1>2, <1>4, ReportsToSteps
<1>7. Outcome(r, chan) = f[k]  BY <1>3, OutcomeIs DEF k
<1>8. Outcome(r, d) = g[k + 1]  BY <1>2, <1>4, OutcomeIs
<1> QED BY <1>2, <1>5, <1>6, <1>7, <1>8 DEF d

\* The reporter takes the first event: what comes in the end stays the same.
LEMMA OutcomeTail ==
  ASSUME NEW r, NEW S, NEW chan \in Seq(S), chan # << >>
  PROVE  Outcome(Apply(r, Head(chan)), Tail(chan)) = Outcome(r, chan)
<1> DEFINE k == Len(chan)
           q == Tail(chan)
           r1 == Apply(r, Head(chan))
<1>1. k \in Nat \ {0} /\ k - 1 \in Nat /\ q \in Seq(S) /\ Len(q) = k - 1 /\ Head(chan) = chan[1]
      /\ \A n \in 1..(k - 1) : q[n] = chan[n + 1]
  BY HeadTailProperties
<1> HIDE DEF q, k
<1>2. PICK f : ReportsTo(r, chan, k, f)  BY <1>1, ReportsExist
<1>3. PICK g : ReportsTo(r1, q, k - 1, g)  BY <1>1, ReportsExist
<1>4. f[0] = r /\ \A n \in 1..k : f[n] = Apply(f[n - 1], chan[n])  BY <1>1, <1>2, ReportsToSteps
<1>5. g[0] = r1 /\ \A n \in 1..(k - 1) : g[n] = Apply(g[n - 1], q[n])  BY <1>1, <1>3, ReportsToSteps
<1> DEFINE T == {n \in Nat : n <= k - 1 => g[n] = f[n + 1]}
<1>6. 0 \in T  BY <1>1, <1>4, <1>5
<1>7. ASSUME NEW n \in Nat, n \in T PROVE n + 1 \in T
  <2> SUFFICES ASSUME n + 1 <= k - 1 PROVE g[n + 1] = f[n + 2]  OBVIOUS
  <2>1. n + 1 \in 1..(k - 1) /\ n + 2 \in 1..k /\ n + 1 - 1 = n /\ n + 2 - 1 = n + 1 /\ n + 1 + 1 = n + 2
    BY <1>1
  <2>2. g[n + 1] = Apply(g[n], q[n + 1]) /\ f[n + 2] = Apply(f[n + 1], chan[n + 2])  BY <1>4, <1>5, <2>1
  <2>3. q[n + 1] = chan[n + 2] /\ g[n] = f[n + 1]  BY <1>1, <1>7, <2>1
  <2> QED BY <2>2, <2>3
<1> HIDE DEF T, r1
<1>8. k - 1 \in T  BY <1>1, <1>6, <1>7, Induction
<1>9. g[k - 1] = f[k]  BY <1>1, <1>8 DEF T
<1>10. Outcome(r, chan) = f[k]  BY <1>2, OutcomeIs DEF k
<1>11. Outcome(r1, q) = g[k - 1]  BY <1>1, <1>3, OutcomeIs
<1> QED BY <1>9, <1>10, <1>11 DEF r1, q

-----------------------------------------------------------------------------
(***************************************************************************)
(* Counting modifiers.                                                     *)
(***************************************************************************)
Positive(count) == {b \in Modifiers : count[b] > 0}

Counts == [Modifiers -> I8MIN..I8MAX]

LEMMA CountedOK ==
  ASSUME NEW c \in I8MIN..I8MAX, NEW n \in {1, 10, -1, -10}
  PROVE  /\ Counted(c, n) \in I8MIN..I8MAX
         /\ n > 0 /\ c > 0 => Counted(c, n) > 0
         /\ n < 0 /\ Counted(c, n) > 0 => c > 0
  BY DEF Counted, I8MIN, I8MAX

Recounted(count, mods, n) == [b \in Modifiers |-> IF b \in mods THEN Counted(count[b], n) ELSE count[b]]

\* Counting up makes modifiers positive that were not, counting down the other way round.
LEMMA RecountedOK ==
  ASSUME NEW count \in Counts, NEW mods \in SUBSET Modifiers, NEW n \in {1, 10, -1, -10}
  PROVE  LET new == Recounted(count, mods, n)
             changed == Changed(count, new, mods)
         IN /\ new \in Counts /\ changed \in SUBSET mods
            /\ n > 0 => changed \cap Positive(count) = {} /\ Positive(new) = Positive(count) \cup changed
            /\ n < 0 => changed \in SUBSET Positive(count) /\ Positive(new) = Positive(count) \ changed
<1> DEFINE new == Recounted(count, mods, n)
           changed == Changed(count, new, mods)
<1>1. \A b \in Modifiers : count[b] \in I8MIN..I8MAX  BY DEF Counts
<1>2. \A b \in mods : new[b] = Counted(count[b], n)  BY DEF Recounted
<1>3. \A b \in Modifiers \ mods : new[b] = count[b]  BY DEF Recounted
<1>4. \A b \in Modifiers : new[b] \in I8MIN..I8MAX  BY <1>1, <1>2, <1>3, CountedOK
<1>5. new \in Counts  BY <1>4 DEF Counts, Recounted
<1>6. changed = {b \in mods : (count[b] > 0) # (new[b] > 0)}  BY DEF Changed
<1> HIDE DEF new, changed
<1>7. n > 0 => \A b \in mods : count[b] > 0 => new[b] > 0  BY <1>1, <1>2, CountedOK
<1>8. n < 0 => \A b \in mods : new[b] > 0 => count[b] > 0  BY <1>1, <1>2, CountedOK
<1>9. n > 0 => changed \cap Positive(count) = {} /\ Positive(new) = Positive(count) \cup changed
  BY <1>3, <1>6, <1>7 DEF Positive
<1>10. n < 0 => changed \in SUBSET Positive(count) /\ Positive(new) = Positive(count) \ changed
  BY <1>3, <1>6, <1>8 DEF Positive
<1> QED BY <1>5, <1>6, <1>9, <1>10 DEF new, changed

-----------------------------------------------------------------------------
(***************************************************************************)
(* What the host is told.  A handler runs with z: the keyboard, and the    *)
(* report that the reporter has so far.                                    *)
(***************************************************************************)
IsReport(r) == DOMAIN r = {"mods", "keys"}

LEMMA ApplyIsReport == ASSUME NEW r, IsReport(r), NEW event PROVE IsReport(Apply(r, event))
  BY DEF Apply, IsReport, NoReport

\* An event that says nothing of modifiers.
Neutral(event) == \A r : IsReport(r) => Apply(r, event).mods = r.mods

ComingReport(z, m) == Outcome(z.report, m.chan)
Told(z, m) == ComingReport(z, m).mods

ReportsOK(z, m) ==
  /\ DOMAIN m = Fields
  /\ m.count \in Counts /\ m.up \in SUBSET Modifiers /\ m.down \in SUBSET Modifiers
  /\ m.given_up \in BOOLEAN /\ IsReport(ComingReport(z, m))
  /\ \E S : m.chan \in Seq(S)

\* The modifiers counted are those the host has or will have, once the changes that are
\* buffered are flushed, ...
Owing(z, m) ==
  /\ ReportsOK(z, m)
  /\ m.given_up \/ Positive(m.count) = (Told(z, m) \ (m.up \ m.down)) \cup (m.down \ m.up)

\* ... where only such as the host has are to be taken away, ...
Taken(z, m) ==
  /\ ReportsOK(z, m)
  /\ m.given_up \/ /\ m.down = {} /\ m.up \in SUBSET Told(z, m)
                   /\ Positive(m.count) = Told(z, m) \ m.up

\* ... or no change is buffered.
Agreed(z, m) ==
  /\ ReportsOK(z, m)
  /\ m.given_up \/ (m.down = {} /\ m.up = {} /\ Positive(m.count) = Told(z, m))

LEMMA AgreedTaken == ASSUME NEW z, NEW m, Agreed(z, m) PROVE Taken(z, m)
<1> DEFINE told == Told(z, m)
           positive == Positive(m.count)
<1> HIDE DEF told, positive
<1> QED BY DEF Agreed, Taken, told, positive

LEMMA TakenOwing == ASSUME NEW z, NEW m, Taken(z, m) PROVE Owing(z, m)
<1> DEFINE told == Told(z, m)
           positive == Positive(m.count)
<1>1. ReportsOK(z, m) /\ (m.given_up \/ (m.down = {} /\ positive = told \ m.up))  BY DEF Taken
<1> HIDE DEF told, positive
<1>2. m.down = {} /\ positive = told \ m.up => positive = (told \ (m.up \ m.down)) \cup (m.down \ m.up)  OBVIOUS
<1> QED BY <1>1, <1>2 DEF Owing, told, positive

\* What a handler may change without a word to the host.
SameReports(a, b) ==
  /\ DOMAIN b = Fields
  /\ b.count = a.count /\ b.up = a.up /\ b.down = a.down /\ b.given_up = a.given_up /\ b.chan = a.chan

LEMMA SameReportsKeep ==
  ASSUME NEW z, NEW a, NEW b, SameReports(a, b)
  PROVE  /\ ReportsOK(z, a) => ReportsOK(z, b)
         /\ Owing(z, a) => Owing(z, b)
         /\ Taken(z, a) => Taken(z, b)
         /\ Agreed(z, a) => Agreed(z, b)
<1>1. ReportsOK(z, a) => ReportsOK(z, b)  BY DEF SameReports, ReportsOK, ComingReport
<1>2. Told(z, b) = Told(z, a)  BY DEF SameReports, Told, ComingReport
<1> QED BY <1>1, <1>2 DEF SameReports, Owing, Taken, Agreed

LEMMA SendOK ==
  ASSUME NEW z, NEW m, ReportsOK(z, m), NEW event
  PROVE  LET b == Send(m, event)
         IN /\ ReportsOK(z, b) /\ b.count = m.count /\ b.up = m.up /\ b.down = m.down
            /\ b.given_up \/ (~ m.given_up /\ ComingReport(z, b) = Apply(ComingReport(z, m), event))
<1> DEFINE b == Send(m, event)
<1>0. DOMAIN m = Fields /\ m.given_up \in BOOLEAN /\ IsReport(ComingReport(z, m))  BY DEF ReportsOK
<1>1. CASE Len(m.chan) < REPORT_BUFFER_SIZE
  <2>1. PICK S : m.chan \in Seq(S)  BY DEF ReportsOK
  <2>2. /\ DOMAIN b = Fields /\ b.count = m.count /\ b.up = m.up /\ b.down = m.down
        /\ b.given_up = m.given_up /\ b.chan = Append(m.chan, event)
    BY <1>0, <1>1 DEF Send, Fields
  <2> HIDE DEF b
  <2>3. ComingReport(z, b) = Apply(ComingReport(z, m), event)
    BY <2>1, <2>2, OutcomeAppend DEF ComingReport
  <2>4. IsReport(ComingReport(z, b))  BY <1>0, <2>3, ApplyIsReport
  <2>5. \E T : b.chan \in Seq(T)
    <3>1. m.chan \in Seq(S \cup {event})  BY <2>1, SeqMonotonic, Zenon
    <3>2. Append(m.chan, event) \in Seq(S \cup {event})  BY <3>1
    <3> QED BY <2>2, <3>2, Zenon
  <2>6. ReportsOK(z, b)  BY <2>2, <2>4, <2>5 DEF ReportsOK
  <2> QED BY <1>0, <2>2, <2>3, <2>6 DEF b
<1>2. CASE ~ (Len(m.chan) < REPORT_BUFFER_SIZE)
  <2>1. /\ DOMAIN b = Fields /\ b.count = m.count /\ b.up = m.up /\ b.down = m.down
        /\ b.given_up = TRUE /\ b.chan = <<Clear>>
    BY <1>0, <1>2 DEF Send, Fields
  <2> HIDE DEF b
  <2>2. IsReport(ComingReport(z, b))
    <3>1. << >> \in Seq({}) /\ Append(<< >>, Clear) = <<Clear>>  BY EmptySeq
    <3>2. Outcome(z.report, Append(<< >>, Clear)) = Apply(Outcome(z.report, << >>), Clear)
      BY <3>1, OutcomeAppend, Zenon
    <3>3. Apply(Outcome(z.report, << >>), Clear) = NoReport  BY DEF Apply, Clear
    <3>4. ComingReport(z, b) = NoReport  BY <2>1, <3>1, <3>2, <3>3 DEF ComingReport
    <3> QED BY <3>4 DEF IsReport, NoReport
  <2>3. \E T : b.chan \in Seq(T)
    <3>1. <<Clear>> \in Seq({Clear})  OBVIOUS
    <3> QED BY <2>1, <3>1, Zenon
  <2>4. ReportsOK(z, b)  BY <2>1, <2>2, <2>3 DEF ReportsOK
  <2> QED BY <2>1, <2>4 DEF b
<1> QED BY <1>1, <1>2

LEMMA ModsApplied ==
  ASSUME NEW r, IsReport(r), NEW mods, NEW pending
  PROVE  /\ Apply(r, Mods(mods, TRUE, pending)).mods = r.mods \cup mods
         /\ Apply(r, Mods(mods, FALSE, pending)).mods = r.mods \ mods
<1>1. ASSUME NEW is_down
      PROVE  LET event == Mods(mods, is_down, pending)
             IN event.type \in {"pending_modifiers", "modifiers"} /\ event.mods = mods /\ event.down = is_down
  BY DEF Mods
<1>2. Apply(r, Mods(mods, TRUE, pending)).mods = r.mods \cup mods
  <2> DEFINE event == Mods(mods, TRUE, pending)
  <2>1. event.type \in {"pending_modifiers", "modifiers"} /\ event.mods = mods /\ event.down = TRUE  BY <1>1
  <2> HIDE DEF event
  <2> QED BY <2>1 DEF Apply, IsReport, event
<1>3. Apply(r, Mods(mods, FALSE, pending)).mods = r.mods \ mods
  <2> DEFINE event == Mods(mods, FALSE, pending)
  <2>1. event.type \in {"pending_modifiers", "modifiers"} /\ event.mods = mods /\ event.down = FALSE  BY <1>1
  <2> HIDE DEF event
  <2> QED BY <2>1 DEF Apply, IsReport, event
<1> QED BY <1>2, <1>3

\* What is sent of a set of modifiers, up or down.
SendsMods(z, m, b, told) ==
  /\ ReportsOK(z, b) /\ b.count = m.count
  /\ b.given_up \/ (~ m.given_up /\ Told(z, b) = told)

LEMMA SendModsOK ==
  ASSUME NEW z, NEW m, ReportsOK(z, m), NEW mods, NEW pending
  PROVE  /\ SendsMods(z, m, SendMods(m, mods, TRUE, pending), Told(z, m) \cup mods)
         /\ SendsMods(z, m, SendMods(m, mods, FALSE, pending), Told(z, m) \ mods)
<1>1. m.given_up \in BOOLEAN /\ IsReport(ComingReport(z, m))  BY DEF ReportsOK
<1>2. CASE mods = {}
  <2>1. SendMods(m, mods, TRUE, pending) = m /\ SendMods(m, mods, FALSE, pending) = m  BY <1>2 DEF SendMods
  <2>2. Told(z, m) \cup mods = Told(z, m) /\ Told(z, m) \ mods = Told(z, m)  BY <1>2
  <2>3. SendsMods(z, m, m, Told(z, m))  BY <1>1 DEF SendsMods
  <2> QED BY <2>1, <2>2, <2>3
<1>3. CASE mods # {}
  <2>1. ASSUME NEW event PROVE SendsMods(z, m, Send(m, event), Apply(ComingReport(z, m), event).mods)
    BY SendOK DEF SendsMods, Told
  <2>2. SendMods(m, mods, TRUE, pending) = Send(m, Mods(mods, TRUE, pending))
        /\ SendMods(m, mods, FALSE, pending) = Send(m, Mods(mods, FALSE, pending))
    BY <1>3 DEF SendMods
  <2>3. /\ Apply(ComingReport(z, m), Mods(mods, TRUE, pending)).mods = Told(z, m) \cup mods
        /\ Apply(ComingReport(z, m), Mods(mods, FALSE, pending)).mods = Told(z, m) \ mods
    BY <1>1, ModsApplied DEF Told
  <2> QED BY <2>1, <2>2, <2>3
<1> QED BY <1>2, <1>3

\* flush_modifiers tells the host all that was buffered.
Flushed(z, m, b) ==
  /\ ReportsOK(z, b) /\ b.count = m.count /\ b.up = {} /\ b.down = {}
  /\ b.given_up \/ (~ m.given_up /\ Told(z, b) = (Told(z, m) \ (m.up \ m.down)) \cup (m.down \ m.up))

LEMMA FlushTells == ASSUME NEW z, NEW m, ReportsOK(z, m), NEW pending PROVE Flushed(z, m, Flush(m, pending))
<1> DEFINE up == m.up \ m.down
           down == m.down \ m.up
           both == pending \/ down # {}
           a == SendMods(m, up, FALSE, both)
           c == SendMods(a, down, TRUE, pending)
           b == [c EXCEPT !.up = {}, !.down = {}]
<1>2. Flush(m, pending) = b  BY DEF Flush, FlushChanges
<1> HIDE DEF up, down, both
<1>1. SendsMods(z, m, a, Told(z, m) \ up)  BY SendModsOK
<1> HIDE DEF a
<1>3. SendsMods(z, a, c, Told(z, a) \cup down)
  <2>1. ReportsOK(z, a)  BY <1>1 DEF SendsMods
  <2> QED BY <2>1, SendModsOK
<1> HIDE DEF c
<1>4. /\ DOMAIN b = Fields /\ b.count = c.count /\ b.up = {} /\ b.down = {}
      /\ b.given_up = c.given_up /\ b.chan = c.chan
  <2>1. DOMAIN c = Fields  BY <1>3 DEF SendsMods, ReportsOK
  <2> QED BY <2>1 DEF Fields
<1> HIDE DEF b
<1>5. ComingReport(z, b) = ComingReport(z, c) /\ Told(z, b) = Told(z, c)  BY <1>4 DEF ComingReport, Told
<1>6. ReportsOK(z, b)  BY <1>3, <1>4, <1>5 DEF SendsMods, ReportsOK
<1>7. a.given_up \in BOOLEAN  BY <1>1 DEF SendsMods, ReportsOK
<1> QED BY <1>1, <1>2, <1>3, <1>4, <1>5, <1>6, <1>7 DEF SendsMods, Flushed, up, down

LEMMA FlushAgrees == ASSUME NEW z, NEW m, Owing(z, m), NEW pending PROVE Agreed(z, Flush(m, pending))
<1> DEFINE b == Flush(m, pending)
<1>1. Flushed(z, m, b)  BY FlushTells DEF Owing
<1> HIDE DEF b
<1>2. b.given_up \/ Positive(b.count) = Told(z, b)  BY <1>1 DEF Owing, Flushed
<1> QED BY <1>1, <1>2 DEF Agreed, Flushed, b

LEMMA SendNeutral ==
  ASSUME NEW z, NEW m, Agreed(z, m), NEW event, Neutral(event) PROVE Agreed(z, Send(m, event))
<1> DEFINE b == Send(m, event)
<1>1. /\ ReportsOK(z, b) /\ b.count = m.count /\ b.up = m.up /\ b.down = m.down
      /\ b.given_up \/ (~ m.given_up /\ ComingReport(z, b) = Apply(ComingReport(z, m), event))
  BY SendOK DEF Agreed
<1> HIDE DEF b
<1>2. IsReport(ComingReport(z, m))  BY DEF Agreed, ReportsOK
<1>3. b.given_up \/ (~ m.given_up /\ Told(z, b) = Told(z, m))  BY <1>1, <1>2 DEF Neutral, Told
<1> QED BY <1>1, <1>3 DEF Agreed, b

LEMMA ReportAgrees ==
  ASSUME NEW z, NEW m, Owing(z, m), NEW event, Neutral(event) PROVE Agreed(z, Report(m, event))
<1> DEFINE b == [m EXCEPT !.reported = @ + 1]
           c == Flush(b, TRUE)
<1>1. SameReports(m, b)  BY DEF Owing, ReportsOK, SameReports, Fields
<1>2. Owing(z, b)  BY <1>1, SameReportsKeep
<1> HIDE DEF b
<1>3. Agreed(z, c)  BY <1>2, FlushAgrees
<1> HIDE DEF c
<1>4. Report(m, event) = Send(c, event)  BY DEF Report, c, b
<1> QED BY <1>3, <1>4, SendNeutral

LEMMA ModifierApplied ==
  ASSUME NEW r, IsReport(r), NEW h \in Modifiers
  PROVE  /\ Apply(r, Basic(MODIFIER_MIN + h, TRUE)).mods = r.mods \cup {h}
         /\ Apply(r, Basic(MODIFIER_MIN + h, FALSE)).mods = r.mods \ {h}
<1>2. ASSUME NEW key, NEW is_down
      PROVE  Basic(key, is_down).type = "basic" /\ Basic(key, is_down).key = key /\ Basic(key, is_down).down = is_down
  BY DEF Basic
<1> DEFINE key == MODIFIER_MIN + h
<1>3. IsModifier(key) /\ key - MODIFIER_MIN = h  BY DEF IsModifier, MODIFIER_MIN, Modifiers
<1> HIDE DEF key
<1>4. Apply(r, Basic(key, TRUE)).mods = r.mods \cup {h}
  <2> DEFINE event == Basic(key, TRUE)
  <2>1. event.type = "basic" /\ event.key = key /\ event.down = TRUE  BY <1>2
  <2> HIDE DEF event
  <2> QED BY <1>3, <2>1 DEF Apply, IsReport, event
<1>5. Apply(r, Basic(key, FALSE)).mods = r.mods \ {h}
  <2> DEFINE event == Basic(key, FALSE)
  <2>1. event.type = "basic" /\ event.key = key /\ event.down = FALSE  BY <1>2
  <2> HIDE DEF event
  <2> QED BY <1>3, <2>1 DEF Apply, IsReport, event
<1> QED BY <1>4, <1>5 DEF key

-----------------------------------------------------------------------------
(***************************************************************************)
(* write_modifiers.                                                        *)
(***************************************************************************)
\* The mapper with new counts, of which nobody has been told yet.
LEMMA NewCounts ==
  ASSUME NEW z, NEW m, ReportsOK(z, m), NEW new \in Counts
  PROVE  LET b == [m EXCEPT !.count = new]
         IN /\ ReportsOK(z, b) /\ b.count = new /\ b.up = m.up /\ b.down = m.down
            /\ b.given_up = m.given_up /\ Told(z, b) = Told(z, m)
<1> DEFINE b == [m EXCEPT !.count = new]
<1>1. /\ DOMAIN b = Fields /\ b.count = new /\ b.up = m.up /\ b.down = m.down
      /\ b.given_up = m.given_up /\ b.chan = m.chan
  BY DEF ReportsOK, Fields
<1> HIDE DEF b
<1>2. ComingReport(z, b) = ComingReport(z, m)  BY <1>1 DEF ComingReport
<1>3. ReportsOK(z, b)  BY <1>1, <1>2 DEF ReportsOK
<1> QED BY <1>1, <1>2, <1>3 DEF Told, b

\* A change that is kept back.
KeptUp(m, changed) == [m EXCEPT !.up = @ \cup changed]
KeptDown(m, changed) == [m EXCEPT !.down = @ \cup changed]

LEMMA ChangeKept ==
  ASSUME NEW m, NEW changed, NEW mods, NEW n \in Int
  PROVE  /\ changed = {} => WriteChanged(m, changed, mods, n, TRUE) = m
         /\ changed # {} /\ n > 0 =>
              WriteChanged(m, changed, mods, n, TRUE) = KeptDown(m, changed)
         /\ changed # {} /\ ~ (n > 0) =>
              WriteChanged(m, changed, mods, n, TRUE) = KeptUp(m, changed)
<1>1. CASE changed = {}  BY <1>1 DEF WriteChanged
<1>2. CASE changed # {} /\ n > 0
  <2>1. (changed = {}) = FALSE /\ (n > 0) = TRUE  BY <1>2
  <2> QED BY <2>1, Zenon DEF WriteChanged, KeptUp, KeptDown
<1>3. CASE changed # {} /\ ~ (n > 0)
  <2>1. (changed = {}) = FALSE /\ (n > 0) = FALSE  BY <1>3
  <2> QED BY <2>1, Zenon DEF WriteChanged, KeptUp, KeptDown
<1> QED BY <1>1, <1>2, <1>3

\* What is taken away is kept back.
LEMMA WriteTakes ==
  ASSUME NEW z, NEW m, Taken(z, m), NEW mods \in SUBSET Modifiers, NEW n \in {-1, -10}
  PROVE  Taken(z, WriteModifiers(m, mods, n, TRUE))
<1> DEFINE new == Recounted(m.count, mods, n)
           changed == Changed(m.count, new, mods)
           b == [m EXCEPT !.count = new]
           c == KeptUp(b, changed)
<1>1. m.count \in Counts /\ ReportsOK(z, m)  BY DEF Taken, ReportsOK
<1>2. /\ new \in Counts /\ changed \in SUBSET mods
      /\ changed \in SUBSET Positive(m.count) /\ Positive(new) = Positive(m.count) \ changed
  BY <1>1, RecountedOK
<1>3. WriteModifiers(m, mods, n, TRUE) = WriteChanged(b, changed, mods, n, TRUE)
  BY DEF WriteModifiers, Recount, Recounted
<1> HIDE DEF new, changed
<1>4. /\ ReportsOK(z, b) /\ b.count = new /\ b.up = m.up /\ b.down = m.down
      /\ b.given_up = m.given_up /\ Told(z, b) = Told(z, m)
  BY <1>1, <1>2, NewCounts
<1> HIDE DEF b
<1>10. WriteModifiers(m, mods, n, TRUE) = IF changed = {} THEN b ELSE c
  <2>1. n \in Int /\ ~ (n > 0)  OBVIOUS
  <2>2. /\ changed = {} => WriteChanged(b, changed, mods, n, TRUE) = b
        /\ changed # {} => WriteChanged(b, changed, mods, n, TRUE) = c
    BY <2>1, ChangeKept
  <2> HIDE DEF c
  <2> QED BY <1>3, <2>2
<1>5. /\ DOMAIN c = Fields /\ c.count = new /\ c.up = m.up \cup changed /\ c.down = m.down
      /\ c.given_up = m.given_up /\ c.chan = b.chan
  BY <1>4 DEF ReportsOK, Fields, KeptUp, KeptDown
<1> HIDE DEF c
<1>6. ComingReport(z, c) = ComingReport(z, b) /\ Told(z, c) = Told(z, m)  BY <1>4, <1>5 DEF ComingReport, Told
<1>7. ReportsOK(z, c)  BY <1>1, <1>2, <1>4, <1>5, <1>6 DEF ReportsOK
<1>8. Taken(z, b) \/ changed # {}  BY <1>2, <1>4 DEF Taken
<1>9. Taken(z, c)
  <2>1. \/ m.given_up
        \/ /\ m.down = {} /\ m.up \in SUBSET Told(z, m) /\ Positive(m.count) = Told(z, m) \ m.up
    BY DEF Taken
  <2>2. CASE m.given_up  BY <1>5, <1>7, <2>2 DEF Taken
  <2>3. CASE m.down = {} /\ m.up \in SUBSET Told(z, m) /\ Positive(m.count) = Told(z, m) \ m.up
    <3> DEFINE told == Told(z, m)
               positive == Positive(m.count)
    <3>1. m.up \in SUBSET told /\ positive = told \ m.up /\ changed \in SUBSET positive  BY <1>2, <2>3
    <3> HIDE DEF told, positive
    <3>2. m.up \cup changed \in SUBSET told /\ positive \ changed = told \ (m.up \cup changed)  BY <3>1
    <3> QED BY <1>2, <1>5, <1>6, <1>7, <2>3, <3>2 DEF Taken, told, positive
  <2> QED BY <2>1, <2>2, <2>3
<1> QED BY <1>8, <1>9, <1>10

\* What is given back after something was taken away cancels out.
LEMMA WriteOwes ==
  ASSUME NEW z, NEW m, Taken(z, m), NEW mods \in SUBSET Modifiers, NEW n \in {1, 10}
  PROVE  Owing(z, WriteModifiers(m, mods, n, TRUE))
<1> DEFINE new == Recounted(m.count, mods, n)
           changed == Changed(m.count, new, mods)
           b == [m EXCEPT !.count = new]
           c == KeptDown(b, changed)
<1>1. m.count \in Counts /\ ReportsOK(z, m)  BY DEF Taken, ReportsOK
<1>2. /\ new \in Counts /\ changed \in SUBSET mods
      /\ changed \cap Positive(m.count) = {} /\ Positive(new) = Positive(m.count) \cup changed
  BY <1>1, RecountedOK
<1>3. WriteModifiers(m, mods, n, TRUE) = WriteChanged(b, changed, mods, n, TRUE)
  BY DEF WriteModifiers, Recount, Recounted
<1> HIDE DEF new, changed
<1>4. /\ ReportsOK(z, b) /\ b.count = new /\ b.up = m.up /\ b.down = m.down
      /\ b.given_up = m.given_up /\ Told(z, b) = Told(z, m)
  BY <1>1, <1>2, NewCounts
<1> HIDE DEF b
<1>10. WriteModifiers(m, mods, n, TRUE) = IF changed = {} THEN b ELSE c
  <2>1. n \in Int /\ n > 0  OBVIOUS
  <2>2. /\ changed = {} => WriteChanged(b, changed, mods, n, TRUE) = b
        /\ changed # {} => WriteChanged(b, changed, mods, n, TRUE) = c
    BY <2>1, ChangeKept
  <2> HIDE DEF c
  <2> QED BY <1>3, <2>2
<1>5. /\ DOMAIN c = Fields /\ c.count = new /\ c.up = m.up /\ c.down = m.down \cup changed
      /\ c.given_up = m.given_up /\ c.chan = b.chan
  BY <1>4 DEF ReportsOK, Fields, KeptUp, KeptDown
<1> HIDE DEF c
<1>6. ComingReport(z, c) = ComingReport(z, b) /\ Told(z, c) = Told(z, m)  BY <1>4, <1>5 DEF ComingReport, Told
<1>7. ReportsOK(z, c)  BY <1>1, <1>2, <1>4, <1>5, <1>6 DEF ReportsOK
<1>8. Taken(z, b) \/ changed # {}  BY <1>2, <1>4 DEF Taken
<1>9. Owing(z, c)
  <2>1. \/ m.given_up
        \/ /\ m.down = {} /\ m.up \in SUBSET Told(z, m) /\ Positive(m.count) = Told(z, m) \ m.up
    BY DEF Taken
  <2>2. CASE m.given_up  BY <1>5, <1>7, <2>2 DEF Owing
  <2>3. CASE m.down = {} /\ m.up \in SUBSET Told(z, m) /\ Positive(m.count) = Told(z, m) \ m.up
    <3> DEFINE told == Told(z, m)
               positive == Positive(m.count)
    <3>1. m.up \in SUBSET told /\ positive = told \ m.up /\ changed \cap positive = {}  BY <1>2, <2>3
    <3> HIDE DEF told, positive
    <3>2. positive \cup changed = (told \ (m.up \ changed)) \cup (changed \ m.up)  BY <3>1
    <3> QED BY <1>2, <1>5, <1>6, <1>7, <2>3, <3>2 DEF Owing, told, positive
  <2> QED BY <2>1, <2>2, <2>3
<1> QED BY <1>8, <1>9, <1>10, TakenOwing

Single(mods) == \A a, b \in mods : a = b

\* One modifier that changes is reported at once, after all that was buffered.
LEMMA WriteTells ==
  ASSUME NEW z, NEW m, Owing(z, m), NEW mods \in SUBSET Modifiers, Single(mods), NEW n \in {1, -1}
  PROVE  /\ Owing(z, WriteModifiers(m, mods, n, FALSE))
         /\ Taken(z, m) => Taken(z, WriteModifiers(m, mods, n, FALSE))
<1> DEFINE new == Recounted(m.count, mods, n)
           changed == Changed(m.count, new, mods)
           b == [m EXCEPT !.count = new]
           r == WriteModifiers(m, mods, n, FALSE)
<1>1. m.count \in Counts /\ ReportsOK(z, m)  BY DEF Owing, ReportsOK
<1>2. /\ new \in Counts /\ changed \in SUBSET mods
      /\ n > 0 => Positive(new) = Positive(m.count) \cup changed
      /\ n < 0 => Positive(new) = Positive(m.count) \ changed
  BY <1>1, RecountedOK
<1>3. r = WriteChanged(b, changed, mods, n, FALSE)  BY DEF WriteModifiers, Recount, Recounted
<1> HIDE DEF new, changed, r
<1>4. /\ ReportsOK(z, b) /\ b.count = new /\ b.up = m.up /\ b.down = m.down
      /\ b.given_up = m.given_up /\ Told(z, b) = Told(z, m)
  BY <1>1, <1>2, NewCounts
<1> HIDE DEF b
<1>5. CASE changed = {}
  <2>1. r = b  BY <1>3, <1>5 DEF WriteChanged
  <2>2. Positive(b.count) = Positive(m.count)  BY <1>2, <1>4, <1>5
  <2> QED BY <1>4, <2>1, <2>2 DEF Owing, Taken, r
<1>6. CASE changed # {}
  <2>1. PICK h \in Modifiers : mods = {h} /\ changed = {h}  BY <1>2, <1>6 DEF Single
  <2>2. Highest(mods) = h  BY <2>1 DEF Highest, Modifiers
  <2> DEFINE event == IF Cardinality(changed) = 1 THEN Basic(MODIFIER_MIN + Highest(mods), n > 0)
                                                  ELSE Mods(mods, n > 0, FALSE)
  <2>3. r = Report(b, event)  BY <1>3, <1>6 DEF WriteChanged
  <2>4. ASSUME NEW x, IsReport(x)
        PROVE  Apply(x, event).mods = IF n > 0 THEN x.mods \cup {h} ELSE x.mods \ {h}
    <3>1. CASE n > 0
      <4>1. (n > 0) = TRUE  BY <3>1
      <4>2. event \in {Basic(MODIFIER_MIN + h, TRUE), Mods({h}, TRUE, FALSE)}  BY <2>1, <2>2, <4>1
      <4> HIDE DEF event
      <4>3. Apply(x, Basic(MODIFIER_MIN + h, TRUE)).mods = x.mods \cup {h}  BY <2>4, ModifierApplied
      <4>4. Apply(x, Mods({h}, TRUE, FALSE)).mods = x.mods \cup {h}  BY <2>4, ModsApplied
      <4>5. Apply(x, event).mods = x.mods \cup {h}
        <5> DEFINE basic == Basic(MODIFIER_MIN + h, TRUE)
                   several == Mods({h}, TRUE, FALSE)
        <5>1. event = basic \/ event = several  BY <4>2
        <5> HIDE DEF basic, several
        <5> QED BY <4>3, <4>4, <5>1 DEF basic, several
      <4> QED BY <3>1, <4>5
    <3>2. CASE ~ (n > 0)
      <4>1. (n > 0) = FALSE  BY <3>2
      <4>2. event \in {Basic(MODIFIER_MIN + h, FALSE), Mods({h}, FALSE, FALSE)}  BY <2>1, <2>2, <4>1
      <4> HIDE DEF event
      <4>3. Apply(x, Basic(MODIFIER_MIN + h, FALSE)).mods = x.mods \ {h}  BY <2>4, ModifierApplied
      <4>4. Apply(x, Mods({h}, FALSE, FALSE)).mods = x.mods \ {h}  BY <2>4, ModsApplied
      <4>5. Apply(x, event).mods = x.mods \ {h}
        <5> DEFINE basic == Basic(MODIFIER_MIN + h, FALSE)
                   several == Mods({h}, FALSE, FALSE)
        <5>1. event = basic \/ event = several  BY <4>2
        <5> HIDE DEF basic, several
        <5> QED BY <4>3, <4>4, <5>1 DEF basic, several
      <4> QED BY <3>2, <4>5
    <3> QED BY <3>1, <3>2
  <2> HIDE DEF event
  <2> DEFINE c == [b EXCEPT !.reported = @ + 1]
             d == Flush(c, TRUE)
             e == Send(d, event)
  <2>5. r = e  BY <2>3 DEF Report
  <2>6. SameReports(b, c)  BY <1>4 DEF ReportsOK, SameReports, Fields
  <2>7. ReportsOK(z, c) /\ c.count = new /\ c.up = m.up /\ c.down = m.down /\ c.given_up = m.given_up
        /\ Told(z, c) = Told(z, m)
    BY <1>4, <2>6, SameReportsKeep DEF SameReports, Told, ComingReport
  <2> HIDE DEF c
  <2>8. /\ ReportsOK(z, d) /\ d.count = new /\ d.up = {} /\ d.down = {}
        /\ d.given_up \/ (~ m.given_up /\ Told(z, d) = (Told(z, m) \ (m.up \ m.down)) \cup (m.down \ m.up))
    <3>1. Flushed(z, c, d)  BY <2>7, FlushTells
    <3> HIDE DEF d
    <3> QED BY <2>7, <3>1 DEF Flushed
  <2> HIDE DEF d
  <2>9. d.given_up \/ Told(z, d) = Positive(m.count)  BY <2>8 DEF Owing
  <2>10. /\ ReportsOK(z, e) /\ e.count = d.count /\ e.up = d.up /\ e.down = d.down
         /\ e.given_up \/ (~ d.given_up /\ ComingReport(z, e) = Apply(ComingReport(z, d), event))
    BY <2>8, SendOK
  <2> HIDE DEF e
  <2>11. IsReport(ComingReport(z, d))  BY <2>8 DEF ReportsOK
  <2>12. e.given_up \/ Told(z, e) = Positive(new)
    <3> SUFFICES ASSUME ~ e.given_up PROVE Told(z, e) = Positive(new)  OBVIOUS
    <3>1. Told(z, d) = Positive(m.count) /\ Told(z, e) = Apply(ComingReport(z, d), event).mods
      BY <2>9, <2>10 DEF Told
    <3>2. Told(z, e) = IF n > 0 THEN Told(z, d) \cup {h} ELSE Told(z, d) \ {h}  BY <2>4, <2>11, <3>1 DEF Told
    <3>3. n > 0 \/ n < 0  OBVIOUS
    <3> QED BY <1>2, <2>1, <3>1, <3>2, <3>3
  <2>13. Agreed(z, r)  BY <2>5, <2>8, <2>10, <2>12 DEF Agreed
  <2> QED BY <2>13, AgreedTaken, TakenOwing DEF r
<1> QED BY <1>5, <1>6

-----------------------------------------------------------------------------
(***************************************************************************)
(* Codes that keep the counts: what there is of them in a mapper whose     *)
(* keyboard KeepsCount.                                                    *)
(***************************************************************************)
LayerWords(keyboard) == {w \in Nat : LayerOf(w) \in DOMAIN keyboard.layers}

ActionFits(keyboard, kc) == KeepsCode(keyboard, kc.code) /\ kc.mods \in SUBSET Modifiers

KeyFits(keyboard, k) == DOMAIN k = {"key", "down", "time"} /\ k.key \in keyboard.keys

MemoFits(keyboard, memo) ==
  IF memo.type = "key" THEN memo.key \in keyboard.keys
  ELSE KeepsCode(keyboard, memo.code) /\ memo.down \in BOOLEAN

MemosFit(keyboard, memos) == \E S : memos \in Seq(S) /\ \A memo \in S : MemoFits(keyboard, memo)

DualFits(keyboard, d) ==
  \/ d = NoDual
  \/ /\ DOMAIN d = {"type", "key", "duration", "tap_timeout", "tap", "hold", "count"}
     /\ d.type \in {"wait", "hold"} /\ KeyFits(keyboard, d.key)
     /\ KeepsCode(keyboard, d.tap) /\ KeepsCode(keyboard, d.hold)

DanceFits(keyboard, td) ==
  /\ DOMAIN td = {"location", "wait_until", "tap_timeout", "rem", "mods"}
  /\ td.location \in Nat /\ td.rem \in Nat /\ td.mods \in SUBSET Modifiers
  /\ \A id \in DOMAIN keyboard.macros :
       keyboard.macros[id].type = "tapdance" => td.rem < keyboard.macros[id].location
  /\ td.location # 0 => KeepsCodes(keyboard, td.location - 1, td.location + td.rem - 1)
  /\ td.location = 0 => td.wait_until = NEVER

\* The codes of a sequence that are still to be run.
RunFits(keyboard, q) ==
  /\ q.location \in Nat /\ q.rem \in Nat \ {0}
  /\ KeepsCodes(keyboard, q.location, q.location + q.rem - 1)

MacroFits(keyboard, q) == q = Noop \/ RunFits(keyboard, q)

\* A macro that runs has interrupted another one, or Noop.
MacrosFit(keyboard, macro, frames) ==
  /\ MacroFits(keyboard, macro) /\ (macro # Noop => frames # << >>)
  /\ \E S : frames \in Seq(S) /\ \A q \in S : MacroFits(keyboard, q)
  /\ frames # << >> => frames[Len(frames)] = Noop

OneshotFits(o) == o = NoOneshot \/ (DOMAIN o = {"type", "layer"} /\ o.layer \in 0..255)

ActiveFits(keyboard, active) ==
  DOMAIN active = keyboard.keys /\ \A k \in keyboard.keys : ActionFits(keyboard, active[k])

KeyboardFits(z) == WellFormed(z.keyboard) /\ KeepsCount(z.keyboard) /\ IsReport(z.report)

\* The parts of a mapper, but for the key event it handles ...
PartsFit(z, m) ==
  /\ DOMAIN m = Fields /\ m.keyboard = z.keyboard /\ KeyboardFits(z)
  /\ m.stack \in Seq(LayerWords(z.keyboard)) /\ ActiveFits(z.keyboard, m.active)
  /\ MemosFit(z.keyboard, m.memos) /\ DualFits(z.keyboard, m.dual) /\ DanceFits(z.keyboard, m.td)
  /\ MacrosFit(z.keyboard, m.macro, m.frames) /\ OneshotFits(m.oneshot)

\* ... and with it.
Fit(z, m) == PartsFit(z, m) /\ KeyFits(z.keyboard, m.last)

Even(z, m) == Fit(z, m) /\ Agreed(z, m)
Tidy(z, m) == Fit(z, m) /\ Taken(z, m)
Owes(z, m) == Fit(z, m) /\ Owing(z, m)

LEMMA EvenTidy == ASSUME NEW z, NEW m, Even(z, m) PROVE Tidy(z, m)
  BY AgreedTaken DEF Even, Tidy

LEMMA TidyOwes == ASSUME NEW z, NEW m, Tidy(z, m) PROVE Owes(z, m)
  BY TakenOwing DEF Tidy, Owes

LEMMA FitFields == ASSUME NEW z, NEW m, Fit(z, m) PROVE DOMAIN m = Fields /\ m.keyboard = z.keyboard
  BY DEF Fit, PartsFit

\* A step that fits and says nothing of modifiers.
Kept(z, a, b) == Fit(z, b) /\ SameReports(a, b)

LEMMA KeptAll ==
  ASSUME NEW z, NEW a, NEW b, Kept(z, a, b)
  PROVE  /\ Even(z, a) => Even(z, b)
         /\ Tidy(z, a) => Tidy(z, b)
         /\ Owes(z, a) => Owes(z, b)
  BY SameReportsKeep DEF Kept, Even, Tidy, Owes

LEMMA KeptTwice == ASSUME NEW z, NEW a, NEW b, NEW c, Kept(z, a, b), Kept(z, b, c) PROVE Kept(z, a, c)
  BY DEF Kept, SameReports

LEMMA KeptOnce == ASSUME NEW z, NEW m, Fit(z, m) PROVE Kept(z, m, m)
  BY FitFields DEF Kept, SameReports

\* All but one part of a mapper.
Beside(part, a, b) == DOMAIN b = Fields /\ \A f \in Fields \ {part} : b[f] = a[f]

LEMMA StackKept ==
  ASSUME NEW z, NEW m, Fit(z, m), NEW stack \in Seq(LayerWords(z.keyboard))
  PROVE  Kept(z, m, [m EXCEPT !.stack = stack])
<1> DEFINE b == [m EXCEPT !.stack = stack]
<1>1. Beside("stack", m, b) /\ b.stack = stack  BY FitFields DEF Beside, Fields
<1> HIDE DEF b
<1> QED BY <1>1 DEF Beside, Fields, Kept, Fit, PartsFit, SameReports, b

LEMMA ActiveKept ==
  ASSUME NEW z, NEW m, Fit(z, m), NEW k, NEW kc, ActionFits(z.keyboard, kc)
  PROVE  Kept(z, m, [m EXCEPT !.active[k] = kc])
<1> DEFINE active == [m.active EXCEPT ![k] = kc]
           b == [m EXCEPT !.active = active]
<1>1. Beside("active", m, b) /\ b.active = active  BY FitFields DEF Beside, Fields
<1>2. [m EXCEPT !.active[k] = kc] = b  OBVIOUS
<1> HIDE DEF b
<1>3. ActiveFits(z.keyboard, active)  BY DEF Fit, PartsFit, ActiveFits
<1> HIDE DEF active
<1>4. Kept(z, m, b)  BY <1>1, <1>3 DEF Beside, Fields, Kept, Fit, PartsFit, SameReports
<1> QED BY <1>2, <1>4

LEMMA MemosKept ==
  ASSUME NEW z, NEW m, Fit(z, m), NEW memos, MemosFit(z.keyboard, memos), NEW n
  PROVE  Kept(z, m, [m EXCEPT !.memos = memos, !.memo_count = n])
<1> DEFINE a == [m EXCEPT !.memos = memos]
           b == [m EXCEPT !.memos = memos, !.memo_count = n]
<1>1. Beside("memos", m, a) /\ a.memos = memos  BY FitFields DEF Beside, Fields
<1>2. b = [a EXCEPT !.memo_count = n]  OBVIOUS
<1> HIDE DEF a, b
<1>3. Kept(z, m, a)  BY <1>1 DEF Beside, Fields, Kept, Fit, PartsFit, SameReports
<1>4. Beside("memo_count", a, b)  BY <1>1, <1>2 DEF Beside, Fields
<1>5. Kept(z, a, b)  BY <1>3, <1>4 DEF Beside, Fields, Kept, Fit, PartsFit, SameReports
<1> QED BY <1>3, <1>5, KeptTwice DEF b

LEMMA DualKept ==
  ASSUME NEW z, NEW m, Fit(z, m), NEW dual, DualFits(z.keyboard, dual)
  PROVE  Kept(z, m, [m EXCEPT !.dual = dual])
<1> DEFINE b == [m EXCEPT !.dual = dual]
<1>1. Beside("dual", m, b) /\ b.dual = dual  BY FitFields DEF Beside, Fields
<1> HIDE DEF b
<1> QED BY <1>1 DEF Beside, Fields, Kept, Fit, PartsFit, SameReports, b

LEMMA DanceKept ==
  ASSUME NEW z, NEW m, Fit(z, m), NEW td, DanceFits(z.keyboard, td)
  PROVE  Kept(z, m, [m EXCEPT !.td = td])
<1> DEFINE b == [m EXCEPT !.td = td]
<1>1. Beside("td", m, b) /\ b.td = td  BY FitFields DEF Beside, Fields
<1> HIDE DEF b
<1> QED BY <1>1 DEF Beside, Fields, Kept, Fit, PartsFit, SameReports, b

LEMMA OneshotKept ==
  ASSUME NEW z, NEW m, Fit(z, m), NEW o, OneshotFits(o)
  PROVE  Kept(z, m, [m EXCEPT !.oneshot = o])
<1> DEFINE b == [m EXCEPT !.oneshot = o]
<1>1. Beside("oneshot", m, b) /\ b.oneshot = o  BY FitFields DEF Beside, Fields
<1> HIDE DEF b
<1> QED BY <1>1 DEF Beside, Fields, Kept, Fit, PartsFit, SameReports, b

LEMMA MacrosKept ==
  ASSUME NEW z, NEW m, Fit(z, m), NEW macro, NEW frames, MacrosFit(z.keyboard, macro, frames)
  PROVE  Kept(z, m, [m EXCEPT !.macro = macro, !.frames = frames])
<1> DEFINE b == [m EXCEPT !.macro = macro, !.frames = frames]
<1>1. /\ DOMAIN b = Fields /\ \A f \in Fields \ {"macro", "frames"} : b[f] = m[f]
      /\ b.macro = macro /\ b.frames = frames
  BY FitFields DEF Fields
<1> HIDE DEF b
<1> QED BY <1>1 DEF Fields, Kept, Fit, PartsFit, SameReports, b

\* What holds of no part in particular.
LEMMA ReportedKept == ASSUME NEW z, NEW m, Fit(z, m), NEW n PROVE Kept(z, m, [m EXCEPT !.reported = n])
<1> DEFINE b == [m EXCEPT !.reported = n]
<1>1. Beside("reported", m, b)  BY FitFields DEF Beside, Fields
<1> HIDE DEF b
<1> QED BY <1>1 DEF Beside, Fields, Kept, Fit, PartsFit, SameReports, b

LEMMA MouseKept == ASSUME NEW z, NEW m, Fit(z, m), NEW mouse PROVE Kept(z, m, [m EXCEPT !.mouse = mouse])
<1> DEFINE b == [m EXCEPT !.mouse = mouse]
<1>1. Beside("mouse", m, b)  BY FitFields DEF Beside, Fields
<1> HIDE DEF b
<1> QED BY <1>1 DEF Beside, Fields, Kept, Fit, PartsFit, SameReports, b

LEMMA WaitKept == ASSUME NEW z, NEW m, Fit(z, m) PROVE Kept(z, m, SetWaitTime(m))
<1>1. ASSUME NEW t PROVE Kept(z, m, WaitFor(m, t))
  <2> DEFINE b == WaitFor(m, t)
  <2>1. DOMAIN b = Fields /\ \A f \in Fields \ {"wait_time", "at_sig"} : b[f] = m[f]
    BY FitFields DEF WaitFor, Fields
  <2> HIDE DEF b
  <2> QED BY <2>1 DEF Fields, Kept, Fit, PartsFit, SameReports, b
<1> QED BY <1>1 DEF SetWaitTime

\* The key event that is handled.
LEMMA LastFits ==
  ASSUME NEW z, NEW m, PartsFit(z, m), NEW k, KeyFits(z.keyboard, k) PROVE Kept(z, m, [m EXCEPT !.last = k])
<1> DEFINE b == [m EXCEPT !.last = k]
<1>1. Beside("last", m, b) /\ b.last = k  BY DEF PartsFit, Beside, Fields
<1> HIDE DEF b
<1> QED BY <1>1 DEF Beside, Fields, Kept, Fit, PartsFit, SameReports, b

-----------------------------------------------------------------------------
(***************************************************************************)
(* Reports and modifiers of a mapper that fits.                            *)
(***************************************************************************)
LEMMA ReportsFit == ASSUME NEW z, NEW a, NEW b, Fit(z, a), SameButReports(a, b) PROVE Fit(z, b)
  BY DEF Fit, PartsFit, SameButReports

LEMMA FlushEven == ASSUME NEW z, NEW m, Owes(z, m), NEW pending PROVE Even(z, Flush(m, pending))
<1>1. SameButReports(m, Flush(m, pending))  BY FitFields, FlushKeeps DEF Owes
<1> QED BY <1>1, ReportsFit, FlushAgrees DEF Owes, Even

LEMMA ReportEven ==
  ASSUME NEW z, NEW m, Owes(z, m), NEW event, Neutral(event) PROVE Even(z, Report(m, event))
<1>1. SameButReports(m, Report(m, event))  BY FitFields, ReportKeeps DEF Owes
<1> QED BY <1>1, ReportsFit, ReportAgrees DEF Owes, Even

LEMMA SendEven ==
  ASSUME NEW z, NEW m, Even(z, m), NEW event, Neutral(event) PROVE Even(z, Send(m, event))
<1>1. SameButReports(m, Send(m, event))  BY FitFields, SendKeeps DEF Even
<1> QED BY <1>1, ReportsFit, SendNeutral DEF Even

LEMMA WriteFits ==
  ASSUME NEW z, NEW m, Fit(z, m), NEW mods, NEW n, NEW pending \in BOOLEAN
  PROVE  Fit(z, WriteModifiers(m, mods, n, pending))
  BY FitFields, WriteKeeps, ReportsFit

LEMMA TakesTidy ==
  ASSUME NEW z, NEW m, Tidy(z, m), NEW mods \in SUBSET Modifiers, NEW n \in {-1, -10}
  PROVE  Tidy(z, WriteModifiers(m, mods, n, TRUE))
<1>1. Fit(z, WriteModifiers(m, mods, n, TRUE))  BY WriteFits DEF Tidy
<1>2. Taken(z, WriteModifiers(m, mods, n, TRUE))  BY WriteTakes DEF Tidy
<1> QED BY <1>1, <1>2 DEF Tidy

LEMMA GivesOwes ==
  ASSUME NEW z, NEW m, Tidy(z, m), NEW mods \in SUBSET Modifiers, NEW n \in {1, 10}
  PROVE  Owes(z, WriteModifiers(m, mods, n, TRUE))
<1>1. Fit(z, WriteModifiers(m, mods, n, TRUE))  BY WriteFits DEF Tidy
<1>2. Owing(z, WriteModifiers(m, mods, n, TRUE))  BY WriteOwes DEF Tidy
<1> QED BY <1>1, <1>2 DEF Owes

LEMMA TellsOne ==
  ASSUME NEW z, NEW m, Owes(z, m), NEW mods \in SUBSET Modifiers, Single(mods), NEW n \in {1, -1}
  PROVE  /\ Owes(z, WriteModifiers(m, mods, n, FALSE))
         /\ Tidy(z, m) => Tidy(z, WriteModifiers(m, mods, n, FALSE))
<1>1. Fit(z, WriteModifiers(m, mods, n, FALSE))  BY WriteFits DEF Owes
<1>2. /\ Owing(z, WriteModifiers(m, mods, n, FALSE))
      /\ Taken(z, m) => Taken(z, WriteModifiers(m, mods, n, FALSE))
  BY WriteTells DEF Owes
<1> QED BY <1>1, <1>2 DEF Owes, Tidy

-----------------------------------------------------------------------------
(***************************************************************************)
(* The actions.                                                            *)
(***************************************************************************)
LEMMA NeutralEvents ==
  /\ \A key, is_down : ~ IsModifier(key) => Neutral(Basic(key, is_down))
  /\ \A key : Neutral(Consumer(key)) /\ Neutral(SysCtl(key))
  /\ \A keys : Neutral(MouseButton(keys))
  /\ \A axis, ticks, keys : Neutral(MouseMove(axis, ticks, keys))
  /\ \A n : Neutral(Delay(n))
<1>1. ASSUME NEW key, NEW is_down, ~ IsModifier(key) PROVE Neutral(Basic(key, is_down))
  <2> DEFINE event == Basic(key, is_down)
  <2>1. event.type = "basic" /\ event.key = key  BY DEF Basic
  <2> HIDE DEF event
  <2>2. Neutral(event)  BY <1>1, <2>1 DEF Neutral, Apply, IsReport
  <2> QED BY <2>2 DEF event
<1>2. ASSUME NEW event, event.type \in {"consumer", "sys_ctl", "mouse_button", "mouse_move", "delay"}
      PROVE  Neutral(event)
  BY <1>2 DEF Neutral, Apply
<1>3. \A key : Neutral(Consumer(key)) /\ Neutral(SysCtl(key))
  <2>1. ASSUME NEW key PROVE Consumer(key).type = "consumer" /\ SysCtl(key).type = "sys_ctl"  BY DEF Consumer, SysCtl
  <2> QED BY <1>2, <2>1
<1>4. \A keys : Neutral(MouseButton(keys))
  <2>1. ASSUME NEW keys PROVE MouseButton(keys).type = "mouse_button"  BY DEF MouseButton
  <2> QED BY <1>2, <2>1
<1>5. \A axis, ticks, keys : Neutral(MouseMove(axis, ticks, keys))
  <2>1. ASSUME NEW axis, NEW ticks, NEW keys PROVE MouseMove(axis, ticks, keys).type = "mouse_move"  BY DEF MouseMove
  <2> QED BY <1>2, <2>1
<1>6. \A n : Neutral(Delay(n))
  <2>1. ASSUME NEW n PROVE Delay(n).type = "delay"  BY DEF Delay
  <2> QED BY <1>2, <2>1
<1> QED BY <1>1, <1>3, <1>4, <1>5, <1>6

LEMMA LowByte ==
  /\ \A w \in Nat : LayerOf(w) \in 0..255
  /\ \A n \in 0..255 : LayerOf(n) = n /\ n + RIGHT_MOD \in Nat /\ LayerOf(n + RIGHT_MOD) = n
  BY SMT DEF LayerOf, RIGHT_MOD

LEMMA LayerWord ==
  ASSUME NEW keyboard, NEW n \in 0..255, n \in DOMAIN keyboard.layers
  PROVE  n \in LayerWords(keyboard) /\ n + RIGHT_MOD \in LayerWords(keyboard)
<1>1. n \in Nat /\ n + RIGHT_MOD \in Nat /\ LayerOf(n) = n /\ LayerOf(n + RIGHT_MOD) = n  BY LowByte
<1> HIDE DEF LayerOf
<1> QED BY <1>1 DEF LayerWords

LEMMA PushWordKept ==
  ASSUME NEW z, NEW m, Fit(z, m), NEW w \in LayerWords(z.keyboard) PROVE Kept(z, m, PushWord(m, w))
<1>1. m.stack \in Seq(LayerWords(z.keyboard))  BY DEF Fit, PartsFit
<1>2. Append(m.stack, w) \in Seq(LayerWords(z.keyboard))  BY <1>1
<1> QED BY <1>2, StackKept DEF PushWord

LEMMA PopWordKept ==
  ASSUME NEW z, NEW m, Fit(z, m), NEW layern PROVE Kept(z, m, PopWord(m, layern))
<1> DEFINE words == LayerWords(z.keyboard)
           found == {i \in DOMAIN m.stack : LayerOf(m.stack[i]) = layern}
           top   == CHOOSE i \in found : \A j \in found : j <= i
           below == SubSeq(m.stack, 1, top - 1)
           above == SubSeq(m.stack, top + 1, Len(m.stack))
<1>1. m.stack \in Seq(words)  BY DEF Fit, PartsFit
<1> HIDE DEF words
<1>2. CASE found = {}  BY <1>2, KeptOnce DEF PopWord
<1>3. CASE found # {}
  <2>1. Len(m.stack) \in Nat /\ found \in SUBSET (1..Len(m.stack))  BY <1>1
  <2> HIDE DEF found
  <2>2. \E i \in found : \A j \in found : j <= i
    <3>1. Len(m.stack) \in Int /\ found \in SUBSET Int /\ \A i \in found : i <= Len(m.stack)  BY <2>1
    <3> QED BY <1>3, <3>1, GreatestElement
  <2>3. top \in 1..Len(m.stack)  BY <2>1, <2>2
  <2> HIDE DEF top
  <2>4. \A i \in 1..Len(m.stack) : m.stack[i] \in words  BY <1>1, ElementOfSeq
  <2>5. below \in Seq(words)
    <3>1. \A i \in 1..(top - 1) : m.stack[i] \in words  BY <2>1, <2>3, <2>4
    <3> QED BY <2>3, <3>1, SubSeqProperties
  <2>6. above \in Seq(words)
    <3>1. \A i \in (top + 1)..Len(m.stack) : m.stack[i] \in words  BY <2>1, <2>3, <2>4
    <3> QED BY <2>1, <2>3, <3>1, SubSeqProperties
  <2>7. below \o above \in Seq(words)  BY <2>5, <2>6, ConcatProperties
  <2>8. PopWord(m, layern) = [m EXCEPT !.stack = below \o above]  BY <1>3 DEF PopWord, found, top
  <2> DEFINE stack == below \o above
  <2>9. stack \in Seq(LayerWords(z.keyboard))  BY <2>7 DEF words
  <2>10. PopWord(m, layern) = [m EXCEPT !.stack = stack]  BY <2>8
  <2> HIDE DEF stack
  <2>11. Kept(z, m, [m EXCEPT !.stack = stack])  BY <2>9, StackKept
  <2> QED BY <2>10, <2>11, Zenon
<1> QED BY <1>2, <1>3

LEMMA LayerModifiers ==
  ASSUME NEW z, KeyboardFits(z), NEW n \in DOMAIN z.keyboard.layers
  PROVE  z.keyboard.layers[n].mods \in SUBSET Modifiers /\ Single(z.keyboard.layers[n].mods)
  BY DEF KeyboardFits, KeepsCount, KeepsLayer, Single

\* A layer of one modifier tells the host at once when it comes and goes.
LEMMA PushLayerTells ==
  ASSUME NEW z, NEW m, Owes(z, m), NEW layern \in 0..255, layern \in DOMAIN z.keyboard.layers
  PROVE  Owes(z, PushLayer(m, layern)) /\ (Tidy(z, m) => Tidy(z, PushLayer(m, layern)))
<1> DEFINE b == PushWord(m, layern)
           mods == z.keyboard.layers[layern].mods
<1>1. Kept(z, m, b)  BY LayerWord, PushWordKept DEF Owes
<1> HIDE DEF b
<1>2. Owes(z, b) /\ (Tidy(z, m) => Tidy(z, b))  BY <1>1, KeptAll
<1>3. mods \in SUBSET Modifiers /\ Single(mods)  BY LayerModifiers DEF Owes, Fit, PartsFit
<1>4. PushLayer(m, layern) = WriteModifiers(b, mods, 1, FALSE)
  BY FitFields, LowByte DEF Owes, PushLayer, Layer, b
<1> HIDE DEF mods
<1> QED BY <1>2, <1>3, <1>4, TellsOne

LEMMA PopLayerTells ==
  ASSUME NEW z, NEW m, Owes(z, m), NEW layern \in 0..255
  PROVE  Owes(z, PopLayer(m, layern)) /\ (Tidy(z, m) => Tidy(z, PopLayer(m, layern)))
<1>1. CASE ~ IsActive(m, layern)  BY <1>1 DEF PopLayer
<1>2. CASE IsActive(m, layern)
  <2> DEFINE b == PopWord(m, layern)
             mods == z.keyboard.layers[layern].mods
  <2>1. Kept(z, m, b)  BY PopWordKept DEF Owes
  <2> HIDE DEF b
  <2>2. Owes(z, b) /\ (Tidy(z, m) => Tidy(z, b))  BY <2>1, KeptAll
  <2>3. layern \in DOMAIN z.keyboard.layers
    <3>1. m.stack \in Seq(LayerWords(z.keyboard))  BY DEF Owes, Fit, PartsFit
    <3>2. PICK i \in 1..Len(m.stack) : LayerOf(m.stack[i]) = layern  BY <1>2, <3>1 DEF IsActive
    <3>3. m.stack[i] \in LayerWords(z.keyboard)  BY <3>1, <3>2, ElementOfSeq
    <3> QED BY <3>2, <3>3 DEF LayerWords
  <2>4. mods \in SUBSET Modifiers /\ Single(mods)  BY <2>3, LayerModifiers DEF Owes, Fit, PartsFit
  <2>5. PopLayer(m, layern) = WriteModifiers(b, mods, -1, FALSE)
    BY <1>2, FitFields, LowByte DEF Owes, PopLayer, Layer, b
  <2> HIDE DEF mods
  <2> QED BY <2>2, <2>4, <2>5, TellsOne
<1> QED BY <1>1, <1>2

\* The modifier keys, each with a layer of its own.
LEMMA ModifierTidy ==
  ASSUME NEW z, NEW m, Tidy(z, m), NEW idx \in 0..7, NEW is_down PROVE Tidy(z, Modifier(m, idx, is_down))
<1> DEFINE layer == IF idx < 4 THEN idx ELSE IF idx = 6 THEN 4 ELSE idx - 4
           right == idx >= 4 /\ idx # 6
           word  == IF right THEN layer + RIGHT_MOD ELSE layer
<1>1. layer \in 0..255 /\ layer \in 0..MAIN_BASE  BY DEF MAIN_BASE
<1>2. layer \in DOMAIN z.keyboard.layers
  BY <1>1 DEF Tidy, Fit, PartsFit, KeyboardFits, KeepsCount
<1>5. Modifier(m, idx, is_down) = WriteModifiers(IF is_down THEN PushWord(m, word) ELSE PopWord(m, layer),
                                                 {idx}, IF is_down THEN 1 ELSE -1, FALSE)
  BY DEF Modifier
<1> HIDE DEF layer, right
<1>3. word \in LayerWords(z.keyboard)  BY <1>1, <1>2, LayerWord
<1> HIDE DEF word
<1>4. {idx} \in SUBSET Modifiers /\ Single({idx})  BY DEF Modifiers, Single
<1>6. CASE is_down
  <2>1. Kept(z, m, PushWord(m, word))  BY <1>3, PushWordKept DEF Tidy
  <2>2. Tidy(z, PushWord(m, word))  BY <2>1, KeptAll
  <2>3. Tidy(z, WriteModifiers(PushWord(m, word), {idx}, 1, FALSE))  BY <1>4, <2>2, TidyOwes, TellsOne
  <2> QED BY <1>5, <1>6, <2>3
<1>7. CASE ~ is_down
  <2>1. Kept(z, m, PopWord(m, layer))  BY PopWordKept DEF Tidy
  <2>2. Tidy(z, PopWord(m, layer))  BY <2>1, KeptAll
  <2>3. Tidy(z, WriteModifiers(PopWord(m, layer), {idx}, -1, FALSE))  BY <1>4, <2>2, TidyOwes, TellsOne
  <2> QED BY <1>5, <1>7, <2>3
<1> QED BY <1>6, <1>7

LEMMA LayerActionTidy ==
  ASSUME NEW z, NEW m, Tidy(z, m), NEW layern \in 0..255, layern \in DOMAIN z.keyboard.layers,
         NEW base, NEW is_down
  PROVE  Tidy(z, LayerAction(m, base, layern, is_down))
<1> DEFINE b == [m EXCEPT !.reported = @ + 1]
           o == [type |-> "wait_up", layer |-> layern]
<1>1. LayerAction(m, base, layern, is_down) \in
        {PushLayer(b, layern), PopLayer(b, layern), [b EXCEPT !.stack[1] = layern], [b EXCEPT !.oneshot = o], b}
  <2> HIDE DEF b
  <2> SUFFICES ASSUME NEW r, r = LayerAction(m, base, layern, is_down)
               PROVE  r \in {PushLayer(b, layern), PopLayer(b, layern), [b EXCEPT !.stack[1] = layern],
                             [b EXCEPT !.oneshot = o], b}
    OBVIOUS
  <2> QED BY DEF LayerAction, b
<1>2. Kept(z, m, b)  BY ReportedKept DEF Tidy
<1> HIDE DEF b
<1>3. Tidy(z, b)  BY <1>2, KeptAll
<1>4. layern \in LayerWords(z.keyboard)  BY LayerWord
<1>5. Tidy(z, PushLayer(b, layern)) /\ Tidy(z, PopLayer(b, layern))
  BY <1>3, TidyOwes, PushLayerTells, PopLayerTells
<1>6. Tidy(z, [b EXCEPT !.stack[1] = layern])
  <2> DEFINE stack == [b.stack EXCEPT ![1] = layern]
  <2>1. b.stack \in Seq(LayerWords(z.keyboard))  BY <1>3 DEF Tidy, Fit, PartsFit
  <2>2. stack \in Seq(LayerWords(z.keyboard))
    <3> DEFINE words == LayerWords(z.keyboard)
    <3>1. b.stack \in Seq(words) /\ layern \in words  BY <1>4, <2>1
    <3> HIDE DEF words
    <3>5. b.stack \in [1..Len(b.stack) -> words]  BY <3>1, LenProperties
    <3>2. stack \in [1..Len(b.stack) -> words]  BY <3>1, <3>5
    <3>3. Len(b.stack) \in Nat  BY <3>1
    <3> HIDE DEF stack
    <3>4. stack \in Seq(words)  BY <3>2, <3>3
    <3> QED BY <3>4 DEF words
  <2> HIDE DEF stack
  <2>3. Kept(z, b, [b EXCEPT !.stack = stack])  BY <1>3, <2>2, StackKept DEF Tidy
  <2> QED BY <1>3, <2>3, KeptAll DEF stack
<1>7. Tidy(z, [b EXCEPT !.oneshot = o])
  <2>1. OneshotFits(o)  BY <1>4 DEF OneshotFits
  <2> HIDE DEF o
  <2> QED BY <1>3, <2>1, OneshotKept, KeptAll DEF Tidy
<1> QED BY <1>1, <1>3, <1>5, <1>6, <1>7

\* clear_all puts everything right, whatever it was.
LEMMA ClearAllEven == ASSUME NEW z, NEW m, Fit(z, m), ReportsOK(z, m) PROVE Even(z, ClearAll(m))
<1> DEFINE a == ClearTimes(m)
           b == ClearActive(a)
           active == [k \in DOMAIN m.active |-> NoAction]
           zero == [k \in Modifiers |-> 0]
           td == [m.td EXCEPT !.location = 0, !.wait_until = NEVER]
<1>1. /\ DOMAIN a = Fields /\ a.keyboard = m.keyboard /\ a.active = m.active /\ a.up = m.up /\ a.down = m.down
      /\ a.memos = << >> /\ a.dual = NoDual /\ a.td = td /\ a.oneshot = m.oneshot /\ a.last = m.last
  BY FitFields DEF ClearTimes, Fields
<1> HIDE DEF a, td
<1>2. /\ DOMAIN b = Fields /\ b.keyboard = m.keyboard /\ b.active = active /\ b.up = m.up /\ b.down = m.down
      /\ b.memos = << >> /\ b.dual = NoDual /\ b.td = td /\ b.oneshot = m.oneshot /\ b.last = m.last
      /\ b.macro = Noop /\ b.frames = << >> /\ b.stack = <<MAIN_BASE>> /\ b.chan = << >> /\ b.given_up = FALSE
      /\ b.count = zero
  BY <1>1 DEF ClearActive, ClearCounts, Fields
<1> HIDE DEF b, active, zero
<1>3. ActiveFits(z.keyboard, active)
  <2>1. ActionFits(z.keyboard, NoAction)  BY DEF ActionFits, NoAction, KeepsCode
  <2>2. DOMAIN m.active = z.keyboard.keys  BY DEF Fit, PartsFit, ActiveFits
  <2> QED BY <2>1, <2>2 DEF ActiveFits, active
<1>4. DanceFits(z.keyboard, td)  BY DEF Fit, PartsFit, DanceFits, td
<1>5. <<MAIN_BASE>> \in Seq(LayerWords(z.keyboard))
  <2>1. MAIN_BASE \in 0..255 /\ MAIN_BASE \in 0..MAIN_BASE  BY DEF MAIN_BASE
  <2>2. MAIN_BASE \in DOMAIN z.keyboard.layers  BY <2>1 DEF Fit, PartsFit, KeyboardFits, KeepsCount
  <2>3. MAIN_BASE \in LayerWords(z.keyboard)  BY <2>1, <2>2, LayerWord
  <2> QED BY <2>3
<1>6. \A T : << >> \in Seq(T)  BY EmptySeq
<1>7. MemosFit(z.keyboard, << >>) /\ MacrosFit(z.keyboard, Noop, << >>)
  <2>1. MemosFit(z.keyboard, << >>)
    <3> DEFINE S == {}
    <3>1. << >> \in Seq(S) /\ \A memo \in S : MemoFits(z.keyboard, memo)  BY <1>6
    <3> HIDE DEF S
    <3> QED BY <3>1, Zenon DEF MemosFit
  <2>2. \E S : << >> \in Seq(S) /\ \A q \in S : MacroFits(z.keyboard, q)
    <3> DEFINE S == {}
    <3>1. << >> \in Seq(S) /\ \A q \in S : MacroFits(z.keyboard, q)  BY <1>6
    <3> HIDE DEF S
    <3> QED BY <3>1, Zenon
  <2> QED BY <2>1, <2>2 DEF MacrosFit, MacroFits
<1>8. Fit(z, b)  BY <1>2, <1>3, <1>4, <1>5, <1>7 DEF Fit, PartsFit, DualFits
<1>9. ReportsOK(z, b)
  <2>1. zero \in Counts  BY DEF zero, Counts, I8MIN, I8MAX
  <2>2. ComingReport(z, b) = z.report  BY <1>2, OutcomeOfNothing DEF ComingReport
  <2>3. IsReport(z.report)  BY DEF Fit, PartsFit, KeyboardFits
  <2>4. \E T : b.chan \in Seq(T)  BY <1>2, <1>6, Zenon
  <2> QED BY <1>2, <2>1, <2>2, <2>3, <2>4 DEF ReportsOK
<1> DEFINE c == [b EXCEPT !.reported = @ + 1]
           d == Flush(c, TRUE)
           e == Send(d, Clear)
<1>10. Kept(z, b, c)  BY <1>8, ReportedKept
<1> HIDE DEF c
<1>11. Fit(z, c) /\ ReportsOK(z, c) /\ c.count = zero
  BY <1>2, <1>9, <1>10, SameReportsKeep DEF Kept, SameReports
<1>12. Flushed(z, c, d)  BY <1>11, FlushTells
<1>13. Fit(z, d)  BY <1>11, FitFields, FlushKeeps, ReportsFit
<1> HIDE DEF d
<1>14. /\ ReportsOK(z, e) /\ e.count = zero /\ e.up = {} /\ e.down = {}
       /\ e.given_up \/ ComingReport(z, e) = Apply(ComingReport(z, d), Clear)
  BY <1>11, <1>12, SendOK DEF Flushed
<1>15. Fit(z, e)  BY <1>13, FitFields, SendKeeps, ReportsFit
<1>16. ClearAll(m) = e  BY DEF ClearAll, Report, e, d, c, b, a
<1> HIDE DEF e
<1>17. Apply(ComingReport(z, d), Clear).mods = {}  BY DEF Apply, Clear, NoReport
<1>18. Positive(zero) = {}  BY DEF Positive, zero, Modifiers
<1>19. Agreed(z, e)  BY <1>14, <1>17, <1>18 DEF Agreed, Told
<1> QED BY <1>15, <1>16, <1>19 DEF Even

LEMMA FirmwareActionTidy ==
  ASSUME NEW z, NEW m, Tidy(z, m), NEW action, KeepsCode(z.keyboard, action), NEW is_down
  PROVE  Tidy(z, FirmwareAction(m, action, is_down))
<1> DEFINE b == Cleared(m, action)
<1>1. b \in {ClearAll(m), m}  BY DEF Cleared, KeepsCode
<1>2. Even(z, ClearAll(m))  BY ClearAllEven DEF Tidy, Taken
<1>3. Tidy(z, b)  BY <1>1, <1>2, EvenTidy
<1> HIDE DEF b
<1> DEFINE n == IF is_down THEN b.reported ELSE m.reported
<1>4. FirmwareAction(m, action, is_down) = [b EXCEPT !.reported = n]  BY DEF FirmwareAction, b
<1> HIDE DEF n
<1> QED BY <1>3, <1>4, ReportedKept, KeptAll DEF Tidy

LEMMA MouseKeyTidy ==
  ASSUME NEW z, NEW m, NEW code \in 0..18, NEW is_down
  PROVE  /\ Tidy(z, m) => Tidy(z, MouseKey(m, code, is_down))
         /\ Owes(z, m) /\ code < MOUSE_DELTA => Even(z, MouseKey(m, code, is_down))
<1>1. ASSUME Owes(z, m), code < MOUSE_DELTA PROVE Even(z, MouseKey(m, code, is_down))
  <2> DEFINE mouse == Button(m.mouse, code, is_down)
             b == [m EXCEPT !.mouse = mouse]
  <2>1. Kept(z, m, b)  BY <1>1, MouseKept DEF Owes
  <2>2. MouseKey(m, code, is_down) = Report(b, MouseButton(mouse.keys))
    BY <1>1 DEF MouseKey, MOUSE_DELTA, MOUSE_ACCEL
  <2> HIDE DEF b, mouse
  <2>3. Owes(z, b)  BY <1>1, <2>1, KeptAll
  <2> QED BY <2>2, <2>3, ReportEven, NeutralEvents
<1>2. ASSUME Tidy(z, m), code \in MOUSE_DELTA..(MOUSE_DELTA + 7) PROVE Tidy(z, MouseKey(m, code, is_down))
  <2> DEFINE mouse == Move(m.mouse, code, is_down, m.now)
             b == [m EXCEPT !.mouse = mouse]
  <2>1. Kept(z, m, b)  BY <1>2, MouseKept DEF Tidy
  <2>2. MouseKey(m, code, is_down) = SetWaitTime(b)  BY <1>2 DEF MouseKey, MOUSE_DELTA, MOUSE_ACCEL
  <2> HIDE DEF b, mouse
  <2>3. Kept(z, b, SetWaitTime(b))  BY <2>1, WaitKept DEF Kept
  <2> QED BY <1>2, <2>1, <2>2, <2>3, KeptAll
<1>3. ASSUME Tidy(z, m), code \in MOUSE_ACCEL..(MOUSE_ACCEL + 2) PROVE Tidy(z, MouseKey(m, code, is_down))
  <2> DEFINE mouse == [m.mouse EXCEPT !.profile = code - MOUSE_ACCEL]
             b == [m EXCEPT !.mouse = mouse]
  <2>1. Kept(z, m, b)  BY <1>3, MouseKept DEF Tidy
  <2>2. MouseKey(m, code, is_down) = b  BY <1>3 DEF MouseKey, MOUSE_DELTA, MOUSE_ACCEL
  <2> HIDE DEF b, mouse
  <2> QED BY <1>3, <2>1, <2>2, KeptAll
<1>4. code < MOUSE_DELTA \/ code \in MOUSE_DELTA..(MOUSE_DELTA + 7) \/ code \in MOUSE_ACCEL..(MOUSE_ACCEL + 2)
  BY DEF MOUSE_DELTA, MOUSE_ACCEL
<1> QED BY <1>1, <1>2, <1>3, <1>4, TidyOwes, EvenTidy

LEMMA BasicActionCases ==
  ASSUME NEW m, NEW action \in Nat, NEW is_down
  PROVE  /\ action \in 224..231 => BasicAction(m, action, is_down) = Modifier(m, action - 224, is_down)
         /\ action \in (4..254) \ (224..231) => BasicAction(m, action, is_down) = Report(m, Basic(action, is_down))
         /\ action \in 256..928 =>
              BasicAction(m, action, is_down) = Report(m, Consumer(IF is_down THEN action - 256 ELSE 0))
         /\ action \in 929..981 =>
              BasicAction(m, action, is_down) = Report(m, SysCtl(IF is_down THEN action - 929 + 129 ELSE 0))
         /\ action \in MOUSE_MIN..(MOUSE_MIN + 18) =>
              BasicAction(m, action, is_down) = MouseKey(m, action - MOUSE_MIN, is_down)
         /\ action \in 1536..2815 =>
              BasicAction(m, action, is_down) = LayerAction(m, action - (action % 256), LayerOf(action), is_down)
         /\ action \in 8192..8447 => BasicAction(m, action, is_down) = FirmwareAction(m, action, is_down)
         /\ action \notin ((4..254) \cup (256..981) \cup (MOUSE_MIN..(MOUSE_MIN + 18)) \cup (1536..2815) \cup (8192..8447))
              => BasicAction(m, action, is_down) = m
<1> DEFINE a1 == action \in 224..231
           a2 == action \in (4..254) \ (224..231)
           a3 == action \in 256..928
           a4 == action \in 929..981
           a5 == action \in MOUSE_MIN..(MOUSE_MIN + 18)
           a6 == action \in 1536..2815
           a7 == action \in 8192..8447
           r1 == Modifier(m, action - 224, is_down)
           r2 == Report(m, Basic(action, is_down))
           r3 == Report(m, Consumer(IF is_down THEN action - 256 ELSE 0))
           r4 == Report(m, SysCtl(IF is_down THEN action - 929 + 129 ELSE 0))
           r5 == MouseKey(m, action - MOUSE_MIN, is_down)
           r6 == LayerAction(m, action - (action % 256), action % 256, is_down)
           r7 == FirmwareAction(m, action, is_down)
           r == BasicAction(m, action, is_down)
<1>1. r = CASE a1 -> r1 [] a2 -> r2 [] a3 -> r3 [] a4 -> r4 [] a5 -> r5 [] a6 -> r6 [] a7 -> r7 [] OTHER -> m
  BY SMTT(30) DEF BasicAction
<1>2. /\ a1 => ~ a2 /\ ~ a3 /\ ~ a4 /\ ~ a5 /\ ~ a6 /\ ~ a7
      /\ a2 => ~ a3 /\ ~ a4 /\ ~ a5 /\ ~ a6 /\ ~ a7
      /\ a3 => ~ a4 /\ ~ a5 /\ ~ a6 /\ ~ a7
      /\ a4 => ~ a5 /\ ~ a6 /\ ~ a7
      /\ a5 => ~ a6 /\ ~ a7
      /\ a6 => ~ a7
      /\ action \notin ((4..254) \cup (256..981) \cup (MOUSE_MIN..(MOUSE_MIN + 18)) \cup (1536..2815) \cup (8192..8447))
           => ~ a1 /\ ~ a2 /\ ~ a3 /\ ~ a4 /\ ~ a5 /\ ~ a6 /\ ~ a7
  BY DEF MOUSE_MIN
<1>3. a1 \in BOOLEAN /\ a2 \in BOOLEAN /\ a3 \in BOOLEAN /\ a4 \in BOOLEAN /\ a5 \in BOOLEAN /\ a6 \in BOOLEAN
      /\ a7 \in BOOLEAN
  OBVIOUS
<1> HIDE DEF a1, a2, a3, a4, a5, a6, a7, r1, r2, r3, r4, r5, r6, r7, r
<1>4. /\ a1 => r = r1
      /\ a2 => r = r2
      /\ a3 => r = r3
      /\ a4 => r = r4
      /\ a5 => r = r5
      /\ a6 => r = r6
      /\ a7 => r = r7
      /\ ~ a1 /\ ~ a2 /\ ~ a3 /\ ~ a4 /\ ~ a5 /\ ~ a6 /\ ~ a7 => r = m
  BY <1>1, <1>2, <1>3
<1>5. action % 256 = LayerOf(action)  BY DEF LayerOf
<1>6. a6 => r = LayerAction(m, action - (action % 256), LayerOf(action), is_down)  BY <1>4, <1>5 DEF r6
<1>7. action \notin ((4..254) \cup (256..981) \cup (MOUSE_MIN..(MOUSE_MIN + 18)) \cup (1536..2815) \cup (8192..8447))
        => r = m
  BY <1>2, <1>4
<1> QED BY <1>4, <1>6, <1>7 DEF a1, a2, a3, a4, a5, a6, a7, r1, r2, r3, r4, r5, r7, r

\* The actions that are no macros keep what is buffered in order.
LEMMA BasicActionTidy ==
  ASSUME NEW z, NEW m, Tidy(z, m), NEW action, KeepsCode(z.keyboard, action), NEW is_down
  PROVE  Tidy(z, BasicAction(m, action, is_down))
<1>0. action \in Nat  BY DEF KeepsCode
<1>1. CASE action \in 224..231
  <2>1. action - 224 \in 0..7  BY <1>1
  <2>2. BasicAction(m, action, is_down) = Modifier(m, action - 224, is_down)  BY <1>0, <1>1, BasicActionCases
  <2> QED BY <2>1, <2>2, ModifierTidy
<1>2. CASE action \in ((4..254) \ (224..231)) \cup (256..981)
  <2>1. action \in (4..254) \ (224..231) => ~ IsModifier(action)  BY DEF IsModifier, MODIFIER_MIN
  <2>2. \E event : Neutral(event) /\ BasicAction(m, action, is_down) = Report(m, event)
    <3>1. CASE action \in (4..254) \ (224..231)
      <4>1. BasicAction(m, action, is_down) = Report(m, Basic(action, is_down))  BY <1>0, <3>1, BasicActionCases
      <4> QED BY <2>1, <3>1, <4>1, NeutralEvents
    <3>2. CASE action \in 256..928
      <4>1. BasicAction(m, action, is_down) = Report(m, Consumer(IF is_down THEN action - 256 ELSE 0))
        BY <1>0, <3>2, BasicActionCases
      <4> QED BY <4>1, NeutralEvents
    <3>3. CASE action \in 929..981
      <4>1. BasicAction(m, action, is_down) = Report(m, SysCtl(IF is_down THEN action - 929 + 129 ELSE 0))
        BY <1>0, <3>3, BasicActionCases
      <4> QED BY <4>1, NeutralEvents
    <3> QED BY <1>2, <3>1, <3>2, <3>3
  <2> QED BY <2>2, TidyOwes, ReportEven, EvenTidy
<1>3. CASE action \in MOUSE_MIN..(MOUSE_MIN + 18)
  <2>1. action - MOUSE_MIN \in 0..18  BY <1>3 DEF MOUSE_MIN
  <2>2. BasicAction(m, action, is_down) = MouseKey(m, action - MOUSE_MIN, is_down)  BY <1>0, <1>3, BasicActionCases
  <2> QED BY <2>1, <2>2, MouseKeyTidy
<1>4. CASE action \in 1536..2815
  <2>1. LayerOf(action) \in 0..255 /\ LayerOf(action) \in DOMAIN z.keyboard.layers
    <3>1. action % 256 \in DOMAIN z.keyboard.layers  BY <1>4 DEF KeepsCode
    <3>2. action % 256 = LayerOf(action)  BY DEF LayerOf
    <3> HIDE DEF LayerOf
    <3> QED BY <1>0, <3>1, <3>2, LowByte
  <2>2. PICK base : BasicAction(m, action, is_down) = LayerAction(m, base, LayerOf(action), is_down)
    BY <1>0, <1>4, BasicActionCases
  <2> HIDE DEF LayerOf
  <2> QED BY <2>1, <2>2, LayerActionTidy
<1>5. CASE action \in 8192..8447
  <2>1. BasicAction(m, action, is_down) = FirmwareAction(m, action, is_down)  BY <1>0, <1>5, BasicActionCases
  <2> QED BY <2>1, FirmwareActionTidy
<1>6. CASE /\ action \notin 224..231 /\ action \notin ((4..254) \ (224..231)) \cup (256..981)
           /\ action \notin MOUSE_MIN..(MOUSE_MIN + 18) /\ action \notin 1536..2815 /\ action \notin 8192..8447
  <2> DEFINE T == ((4..254) \cup (256..981) \cup (MOUSE_MIN..(MOUSE_MIN + 18)) \cup (1536..2815) \cup (8192..8447))
  <2>2. action \notin T  BY <1>6
  <2>3. action \notin T => BasicAction(m, action, is_down) = m  BY <1>0, BasicActionCases
  <2> HIDE DEF T
  <2>1. BasicAction(m, action, is_down) = m  BY <2>2, <2>3
  <2> QED BY <2>1
<1> QED BY <1>1, <1>2, <1>3, <1>4, <1>5, <1>6

\* A code that reports something flushes what is buffered.
LEMMA BasicActionEven ==
  ASSUME NEW z, NEW m, Owes(z, m), NEW code, Reports(code), NEW is_down
  PROVE  Even(z, BasicAction(m, code, is_down))
<1>0. code \in Nat  BY DEF Reports
<1>1. CASE code \in ((4..254) \ (224..231)) \cup (256..981)
  <2>1. code \in (4..254) \ (224..231) => ~ IsModifier(code)  BY DEF IsModifier, MODIFIER_MIN
  <2>2. \E event : Neutral(event) /\ BasicAction(m, code, is_down) = Report(m, event)
    <3>1. CASE code \in (4..254) \ (224..231)
      <4>1. BasicAction(m, code, is_down) = Report(m, Basic(code, is_down))  BY <1>0, <3>1, BasicActionCases
      <4> QED BY <2>1, <3>1, <4>1, NeutralEvents
    <3>2. CASE code \in 256..928
      <4>1. BasicAction(m, code, is_down) = Report(m, Consumer(IF is_down THEN code - 256 ELSE 0))
        BY <1>0, <3>2, BasicActionCases
      <4> QED BY <4>1, NeutralEvents
    <3>3. CASE code \in 929..981
      <4>1. BasicAction(m, code, is_down) = Report(m, SysCtl(IF is_down THEN code - 929 + 129 ELSE 0))
        BY <1>0, <3>3, BasicActionCases
      <4> QED BY <4>1, NeutralEvents
    <3> QED BY <1>1, <3>1, <3>2, <3>3
  <2> QED BY <2>2, ReportEven
<1>2. CASE code \in 1024..1031
  <2>1. code - MOUSE_MIN \in 0..18 /\ code - MOUSE_MIN < MOUSE_DELTA  BY <1>2 DEF MOUSE_MIN, MOUSE_DELTA
  <2>2. BasicAction(m, code, is_down) = MouseKey(m, code - MOUSE_MIN, is_down)  BY <1>0, <1>2, BasicActionCases DEF MOUSE_MIN
  <2> QED BY <2>1, <2>2, MouseKeyTidy
<1> QED BY <1>1, <1>2 DEF Reports

-----------------------------------------------------------------------------
(***************************************************************************)
(* What a key does, and what is put off.                                   *)
(***************************************************************************)
LEMMA FindCodeFits ==
  ASSUME NEW z, NEW m, Fit(z, m), NEW key, key \in z.keyboard.keys
  PROVE  ActionFits(z.keyboard, FindCode(m, key))
<1> DEFINE n == Len(m.stack)
           has == {i \in DOMAIN m.stack : Layer(m, m.stack[i]).codes[key] # 0}
           top == CHOOSE i \in has : \A j \in has : j <= i
           layer == Layer(m, m.stack[top])
           code == layer.codes[key]
           mods == IF m.stack[top] >= RIGHT_MOD THEN {b + 4 : b \in layer.mods} \cap Modifiers ELSE layer.mods
<1>1. FindCode(m, key) = IF has = {} \/ code < 4 THEN NoAction ELSE [code |-> code, mods |-> mods]  BY DEF FindCode
<1>2. ActionFits(z.keyboard, NoAction)  BY DEF ActionFits, NoAction, KeepsCode
<1>3. CASE has # {}
  <2>1. m.stack \in Seq(LayerWords(z.keyboard))  BY DEF Fit, PartsFit
  <2>2. n \in Nat /\ DOMAIN m.stack = 1..n  BY <2>1, LenProperties
  <2>3. has \in SUBSET (1..n)  BY <2>2
  <2> HIDE DEF has, n
  <2>4. \E i \in has : \A j \in has : j <= i
    <3>1. n \in Int /\ has \in SUBSET Int /\ \A i \in has : i <= n  BY <2>2, <2>3
    <3> QED BY <1>3, <3>1, GreatestElement
  <2>5. top \in 1..n  BY <2>3, <2>4
  <2> HIDE DEF top
  <2>6. LayerOf(m.stack[top]) \in DOMAIN z.keyboard.layers
    <3>1. m.stack[top] \in LayerWords(z.keyboard)  BY <2>1, <2>5, ElementOfSeq DEF n
    <3> QED BY <3>1 DEF LayerWords
  <2>7. KeepsLayer(z.keyboard, layer)
    <3>1. layer = z.keyboard.layers[LayerOf(m.stack[top])]  BY FitFields DEF Layer
    <3> QED BY <2>6, <3>1 DEF Fit, PartsFit, KeyboardFits, KeepsCount
  <2> HIDE DEF layer
  <2>8. KeepsCode(z.keyboard, code) /\ layer.mods \in SUBSET Modifiers  BY <2>7 DEF KeepsLayer
  <2>9. mods \in SUBSET Modifiers  BY <2>8
  <2> HIDE DEF code, mods
  <2>10. ActionFits(z.keyboard, [code |-> code, mods |-> mods])  BY <2>8, <2>9 DEF ActionFits
  <2> QED BY <1>1, <1>2, <2>10
<1> QED BY <1>1, <1>2, <1>3

LEMMA MemosAppend ==
  ASSUME NEW keyboard, NEW memos, MemosFit(keyboard, memos), NEW memo, MemoFits(keyboard, memo)
  PROVE  MemosFit(keyboard, Append(memos, memo))
<1>1. PICK S : memos \in Seq(S) /\ \A x \in S : MemoFits(keyboard, x)  BY DEF MemosFit
<1>2. memos \in Seq(S \cup {memo})  BY <1>1, SeqMonotonic, Zenon
<1>3. Append(memos, memo) \in Seq(S \cup {memo})  BY <1>2
<1>4. \A x \in S \cup {memo} : MemoFits(keyboard, x)  BY <1>1
<1> QED BY <1>3, <1>4, Zenon DEF MemosFit

LEMMA MemosTail ==
  ASSUME NEW keyboard, NEW memos, MemosFit(keyboard, memos), memos # << >>
  PROVE  MemosFit(keyboard, Tail(memos)) /\ MemoFits(keyboard, Head(memos))
<1>1. PICK S : memos \in Seq(S) /\ \A x \in S : MemoFits(keyboard, x)  BY DEF MemosFit
<1>2. Head(memos) \in S /\ Tail(memos) \in Seq(S)  BY <1>1, HeadTailProperties
<1>3. MemosFit(keyboard, Tail(memos))  BY <1>1, <1>2, Zenon DEF MemosFit
<1> QED BY <1>1, <1>2, <1>3

\* A memo is put off, or everything is cleared.
LEMMA PushMemoFits ==
  ASSUME NEW z, NEW m, Tidy(z, m), NEW memo, MemoFits(z.keyboard, memo)
  PROVE  LET put == PushMemo(m, memo)
         IN Tidy(z, put.s) /\ (Even(z, m) => Even(z, put.s))
<1> DEFINE put == PushMemo(m, memo)
           b == [m EXCEPT !.memos = Append(@, memo), !.memo_count = @ + 1]
<1>1. put.s \in {ClearAll(m), b}  BY DEF PushMemo
<1> HIDE DEF put
<1>2. Even(z, ClearAll(m)) /\ Tidy(z, ClearAll(m))  BY ClearAllEven, EvenTidy DEF Tidy, Taken
<1>3. Tidy(z, b) /\ (Even(z, m) => Even(z, b))
  <2> DEFINE memos == Append(m.memos, memo)
             n == m.memo_count + 1
  <2>1. MemosFit(z.keyboard, memos)  BY MemosAppend DEF Tidy, Fit, PartsFit
  <2>2. b = [m EXCEPT !.memos = memos, !.memo_count = n]  OBVIOUS
  <2> HIDE DEF memos, n, b
  <2>3. Kept(z, m, [m EXCEPT !.memos = memos, !.memo_count = n])  BY <2>1, MemosKept DEF Tidy
  <2> QED BY <2>2, <2>3, KeptAll
<1> HIDE DEF b
<1> QED BY <1>1, <1>2, <1>3 DEF put

LEMMA KeyMemoFits ==
  ASSUME NEW keyboard, NEW k, KeyFits(keyboard, k) PROVE MemoFits(keyboard, KeyMemo(k))
  BY DEF KeyFits, MemoFits, KeyMemo

LEMMA ActionMemoFits ==
  ASSUME NEW keyboard, NEW code, KeepsCode(keyboard, code), NEW is_down \in BOOLEAN
  PROVE  MemoFits(keyboard, ActionMemo(code, is_down))
  BY DEF MemoFits, ActionMemo

-----------------------------------------------------------------------------
(***************************************************************************)
(* Dual actions and tap dances.                                            *)
(***************************************************************************)
LEMMA DualStartsEven ==
  ASSUME NEW z, NEW m, Owes(z, m), NEW mac, KeepsCode(z.keyboard, mac.tap), KeepsCode(z.keyboard, mac.hold)
  PROVE  Even(z, DualStarts(m, mac))
<1> DEFINE t1 == IF mac.time1 = U16MAX THEN DUAL_ACTION_TIMEOUT ELSE mac.time1
           t2 == IF mac.time1 = U16MAX \/ mac.time2 = U16MAX THEN DUAL_ACTION_TIMEOUT2 ELSE mac.time2
           dual == [type |-> "wait", key |-> m.last, duration |-> t1, tap_timeout |-> t2,
                    tap |-> mac.tap, hold |-> mac.hold, count |-> 2]
           b == [m EXCEPT !.dual = dual]
           c == Flush(b, FALSE)
<1>1. DualStarts(m, mac) = SetWaitTime(c)  BY DEF DualStarts
<1> HIDE DEF t1, t2
<1>2. DualFits(z.keyboard, dual)  BY DEF DualFits, Owes, Fit
<1> HIDE DEF dual
<1>3. Kept(z, m, b)  BY <1>2, DualKept DEF Owes
<1> HIDE DEF b
<1>4. Owes(z, b)  BY <1>3, KeptAll
<1>5. Even(z, c)  BY <1>4, FlushEven
<1> HIDE DEF c
<1>6. Kept(z, c, SetWaitTime(c))  BY <1>5, WaitKept DEF Even
<1> QED BY <1>1, <1>5, <1>6, KeptAll

LEMMA KeepsSome ==
  ASSUME NEW keyboard, NEW from, NEW to, KeepsCodes(keyboard, from, to), NEW a, NEW b, a..b \subseteq from..to
  PROVE  KeepsCodes(keyboard, a, b)
  BY DEF KeepsCodes

\* A dance on its way is as far as its keyboard has codes.
DanceOn(keyboard, td) ==
  /\ DOMAIN td = {"location", "wait_until", "tap_timeout", "rem", "mods"}
  /\ td.location \in Nat \ {0} /\ td.rem \in Nat /\ td.mods \in SUBSET Modifiers
  /\ \A id \in DOMAIN keyboard.macros :
       keyboard.macros[id].type = "tapdance" => td.rem < keyboard.macros[id].location
  /\ KeepsCodes(keyboard, td.location - 1, td.location + td.rem - 1)

LEMMA DanceOnFits ==
  ASSUME NEW keyboard, NEW td, DanceOn(keyboard, td), NEW t PROVE DanceFits(keyboard, [td EXCEPT !.wait_until = t])
  BY DEF DanceOn, DanceFits

\* One code further.
Further(td) == [td EXCEPT !.location = @ + 1, !.rem = @ - 1]

LEMMA FurtherOn ==
  ASSUME NEW keyboard, KeepsCount(keyboard), NEW td, DanceOn(keyboard, td), td.rem # 0
  PROVE  DanceOn(keyboard, Further(td))
<1> DEFINE b == Further(td)
<1>1. /\ DOMAIN b = {"location", "wait_until", "tap_timeout", "rem", "mods"}
      /\ b.location = td.location + 1 /\ b.rem = td.rem - 1 /\ b.mods = td.mods
  BY DEF Further, DanceOn
<1>2. td.location \in Nat \ {0} /\ td.rem \in Nat  BY DEF DanceOn
<1> HIDE DEF b
<1>3. b.location \in Nat \ {0} /\ b.rem \in Nat /\ b.rem < td.rem
      /\ (b.location - 1)..(b.location + b.rem - 1) \subseteq (td.location - 1)..(td.location + td.rem - 1)
  BY <1>1, <1>2
<1>4. KeepsCodes(keyboard, b.location - 1, b.location + b.rem - 1)  BY <1>3, KeepsSome DEF DanceOn
<1>5. ASSUME NEW id \in DOMAIN keyboard.macros, keyboard.macros[id].type = "tapdance"
      PROVE  b.rem < keyboard.macros[id].location
  <2>1. td.rem < keyboard.macros[id].location  BY <1>5 DEF DanceOn
  <2>2. keyboard.macros[id].location \in Nat  BY <1>5 DEF KeepsCount, KeepsMacro
  <2> HIDE DEF Further
  <2> QED BY <1>1, <1>2, <2>1, <2>2
<1> QED BY <1>1, <1>3, <1>4, <1>5 DEF DanceOn, b

LEMMA DanceStepKept ==
  ASSUME NEW z, NEW m, Fit(z, m), NEW mac, \E id \in DOMAIN z.keyboard.macros : mac = z.keyboard.macros[id],
         mac.type = "tapdance", mac.len > 2
  PROVE  Kept(z, m, DanceStep(m, mac.location, mac.len))
<1> DEFINE same == m.td.location + m.td.rem = mac.location + mac.len
           start == [wait_until |-> NEVER, location |-> mac.location + 1,
                     tap_timeout |-> MacroCode(m, mac.location), rem |-> mac.len - 1,
                     mods |-> m.active[m.last.key].mods]
           old == IF same THEN m.td ELSE start
           next == Further(old)
           timeout == IF old.tap_timeout = U16MAX THEN TAPDANCE_TAP_TIMEOUT ELSE old.tap_timeout
           Stepped(x) ==
             CASE x.rem = 0 -> [x EXCEPT !.wait_until = m.now]
               [] x.rem = 1 -> [Further(x) EXCEPT !.wait_until = m.now]
               [] OTHER -> IF Further(x).rem % 2 = 1
                           THEN [Further(x) EXCEPT !.wait_until =
                                   m.now + (IF x.tap_timeout = U16MAX THEN TAPDANCE_TAP_TIMEOUT ELSE x.tap_timeout)]
                           ELSE Further(x)
           td == CASE old.rem = 0 -> [old EXCEPT !.wait_until = m.now]
                   [] old.rem = 1 -> [next EXCEPT !.wait_until = m.now]
                   [] OTHER -> IF next.rem % 2 = 1 THEN [next EXCEPT !.wait_until = m.now + timeout] ELSE next
           b == [m EXCEPT !.td = td]
<1>1. DanceStep(m, mac.location, mac.len) = SetWaitTime(b)
  <2> DEFINE s1 == IF same THEN m ELSE [m EXCEPT !.td = start]
  <2>1. DOMAIN m = Fields  BY FitFields
  <2>2. s1.td = old /\ \A x : [s1 EXCEPT !.td = x] = [m EXCEPT !.td = x]
    <3>1. "td" \in DOMAIN m  BY <2>1 DEF Fields
    <3> HIDE DEF start, same
    <3>2. CASE same  BY <3>2
    <3>3. CASE ~ same  BY <3>1, <3>3
    <3> QED BY <3>2, <3>3
  <2>3. DanceStep(m, mac.location, mac.len) = SetWaitTime([s1 EXCEPT !.td = Stepped(s1.td)])
    BY Zenon DEF DanceStep, StartTapDance, Further
  <2>4. td = Stepped(old)  OBVIOUS
  <2> HIDE DEF s1, old, Stepped, td
  <2> QED BY <2>2, <2>3, <2>4, Zenon
<1>2. /\ KeepsCount(z.keyboard) /\ mac.location \in Nat /\ mac.len \in Nat
      /\ KeepsCodes(z.keyboard, mac.location + 1, mac.location + mac.len - 1)
      /\ \A id \in DOMAIN z.keyboard.macros :
           z.keyboard.macros[id].type = "tapdance" => mac.len < z.keyboard.macros[id].location
  <2>1. KeepsCount(z.keyboard)  BY DEF Fit, PartsFit, KeyboardFits
  <2> QED BY <2>1 DEF KeepsCount, KeepsMacro
<1>3. DanceFits(z.keyboard, m.td)  BY DEF Fit, PartsFit
<1>4. DanceFits(z.keyboard, td)
  <2> HIDE DEF timeout
  <2>1. CASE same
    <3>1. old = m.td  BY <2>1
    <3>2. m.td.location # 0
      <4>1. m.td.rem < mac.location /\ m.td.rem \in Nat /\ m.td.location \in Nat  BY <1>3 DEF DanceFits
      <4> QED BY <1>2, <2>1, <4>1
    <3> HIDE DEF old
    <3>3. DanceOn(z.keyboard, old)  BY <1>3, <3>1, <3>2 DEF DanceFits, DanceOn
    <3>4. old.rem # 0 => DanceOn(z.keyboard, next)  BY <1>2, <3>3, FurtherOn
    <3> HIDE DEF next
    <3>5. DanceOn(z.keyboard, next) => DanceFits(z.keyboard, next)  BY DEF DanceOn, DanceFits
    <3>6. /\ \A t : DanceFits(z.keyboard, [old EXCEPT !.wait_until = t])
          /\ old.rem # 0 => \A t : DanceFits(z.keyboard, [next EXCEPT !.wait_until = t])
      BY <3>3, <3>4, DanceOnFits
    <3>7. CASE old.rem = 0  BY <3>6, <3>7
    <3>8. CASE old.rem = 1  BY <3>6, <3>8
    <3>9. CASE old.rem # 0 /\ old.rem # 1
      <4>1. td = IF next.rem % 2 = 1 THEN [next EXCEPT !.wait_until = m.now + timeout] ELSE next  BY <3>9
      <4> HIDE DEF td
      <4> QED BY <3>4, <3>5, <3>6, <3>9, <4>1
    <3> QED BY <3>7, <3>8, <3>9
  <2>2. CASE ~ same
    <3>1. old = start  BY <2>2
    <3>2. /\ next.location = mac.location + 2 /\ next.rem = mac.len - 2 /\ next.mods = m.active[m.last.key].mods
          /\ DOMAIN next = {"location", "wait_until", "tap_timeout", "rem", "mods"} /\ old.rem = mac.len - 1
      BY <1>2, <3>1 DEF Further
    <3>3. m.active[m.last.key].mods \in SUBSET Modifiers  BY DEF Fit, PartsFit, KeyFits, ActiveFits, ActionFits
    <3> HIDE DEF old, next, start, same
    <3>4. KeepsCodes(z.keyboard, next.location - 1, next.location + next.rem - 1)
      <4>1. next.location - 1 = mac.location + 1 /\ next.location + next.rem - 1 = mac.location + mac.len - 1
        BY <1>2, <3>2
      <4> QED BY <1>2, <4>1
    <3>5. ASSUME NEW id \in DOMAIN z.keyboard.macros, z.keyboard.macros[id].type = "tapdance"
          PROVE  next.rem < z.keyboard.macros[id].location
      <4>1. z.keyboard.macros[id].location \in Nat  BY <1>2, <3>5 DEF KeepsCount, KeepsMacro
      <4>2. mac.len < z.keyboard.macros[id].location  BY <1>2, <3>5
      <4> QED BY <1>2, <3>2, <4>1, <4>2
    <3>6. DanceOn(z.keyboard, next)  BY <1>2, <3>2, <3>3, <3>4, <3>5 DEF DanceOn
    <3>7. \A t : DanceFits(z.keyboard, [next EXCEPT !.wait_until = t])  BY <3>6, DanceOnFits
    <3>8. DanceFits(z.keyboard, next)  BY <3>6 DEF DanceOn, DanceFits
    <3>9. td = IF next.rem % 2 = 1 THEN [next EXCEPT !.wait_until = m.now + timeout] ELSE next  BY <1>2, <3>2
    <3> HIDE DEF td
    <3> QED BY <3>7, <3>8, <3>9
  <2> QED BY <2>1, <2>2
<1> HIDE DEF td
<1>5. Kept(z, m, b)  BY <1>4, DanceKept
<1> HIDE DEF b
<1>6. Kept(z, b, SetWaitTime(b))  BY <1>5, WaitKept DEF Kept
<1> QED BY <1>1, <1>5, <1>6, KeptTwice

-----------------------------------------------------------------------------
(***************************************************************************)
(* Macros that interrupt each other.                                       *)
(***************************************************************************)
\* A word of a sequence further.
LEMMA NextWordKept ==
  ASSUME NEW z, NEW m, Fit(z, m), m.frames # << >>, NEW macro, RunFits(z.keyboard, macro)
  PROVE  Kept(z, m, [m EXCEPT !.macro = macro])
<1> DEFINE frames == m.frames
           b == [m EXCEPT !.macro = macro]
<1>1. b = [m EXCEPT !.macro = macro, !.frames = frames]
  <2>1. DOMAIN m = Fields  BY FitFields
  <2> QED BY <2>1
<1>2. MacrosFit(z.keyboard, macro, frames)  BY DEF Fit, PartsFit, MacrosFit, MacroFits
<1> HIDE DEF b, frames
<1>3. Kept(z, m, [m EXCEPT !.macro = macro, !.frames = frames])  BY <1>2, MacrosKept
<1>4. Kept(z, m, b)  BY <1>1, <1>3, Zenon
<1> QED BY <1>4 DEF b

LEMMA PopMacroKept ==
  ASSUME NEW z, NEW m, Fit(z, m), m.frames # << >> PROVE Kept(z, m, PopMacro(m))
<1> DEFINE macro == Head(m.frames)
           frames == Tail(m.frames)
           b == [m EXCEPT !.macro = macro, !.frames = frames]
<1>1. PopMacro(m) = SetWaitTime(b)  BY DEF PopMacro
<1>2. MacrosFit(z.keyboard, macro, frames)
  <2>1. PICK S : m.frames \in Seq(S) /\ \A q \in S : MacroFits(z.keyboard, q)  BY DEF Fit, PartsFit, MacrosFit
  <2>2. /\ macro \in S /\ frames \in Seq(S) /\ Len(frames) = Len(m.frames) - 1 /\ macro = m.frames[1]
        /\ \A i \in 1..Len(frames) : frames[i] = m.frames[i + 1]
    BY <2>1, HeadTailProperties
  <2>3. m.frames[Len(m.frames)] = Noop  BY DEF Fit, PartsFit, MacrosFit
  <2>4. Len(m.frames) \in Nat \ {0}  BY <2>1, EmptySeq
  <2> HIDE DEF macro, frames
  <2>5. frames # << >> => frames[Len(frames)] = Noop
    <3> SUFFICES ASSUME frames # << >> PROVE frames[Len(frames)] = Noop  OBVIOUS
    <3>1. Len(frames) \in Nat \ {0}  BY <2>2, EmptySeq
    <3>2. frames[Len(frames)] = m.frames[Len(frames) + 1]  BY <2>2, <3>1
    <3> QED BY <2>2, <2>3, <2>4, <3>2
  <2>6. frames = << >> => macro = Noop
    <3> SUFFICES ASSUME frames = << >> PROVE macro = Noop  OBVIOUS
    <3>1. Len(frames) = 0  BY <2>2, EmptySeq
    <3> QED BY <2>2, <2>3, <2>4, <3>1
  <2>7. MacroFits(z.keyboard, macro)  BY <2>1, <2>2
  <2>8. \E T : frames \in Seq(T) /\ \A q \in T : MacroFits(z.keyboard, q)  BY <2>1, <2>2, Zenon
  <2> QED BY <2>5, <2>6, <2>7, <2>8 DEF MacrosFit
<1> HIDE DEF macro, frames
<1>3. Kept(z, m, b)  BY <1>2, MacrosKept
<1> HIDE DEF b
<1>4. Kept(z, b, SetWaitTime(b))  BY <1>3, WaitKept DEF Kept
<1> QED BY <1>1, <1>3, <1>4, KeptTwice

LEMMA PushMacroKept ==
  ASSUME NEW z, NEW m, Fit(z, m), NEW mac, RunFits(z.keyboard, mac)
  PROVE  Kept(z, m, PushMacro(m, mac)) /\ PushMacro(m, mac).frames # << >>
<1> DEFINE frames == <<m.macro>> \o m.frames
           b == [m EXCEPT !.frames = frames, !.macro = mac]
<1>1. PushMacro(m, mac) = b /\ b = [m EXCEPT !.macro = mac, !.frames = frames]
  <2>1. DOMAIN m = Fields  BY FitFields
  <2>2. PushMacro(m, mac) = b  BY DEF PushMacro
  <2> HIDE DEF frames
  <2> QED BY <2>1, <2>2 DEF Fields
<1>2. MacrosFit(z.keyboard, mac, frames) /\ frames # << >>
  <2>1. PICK S : m.frames \in Seq(S) /\ \A q \in S : MacroFits(z.keyboard, q)  BY DEF Fit, PartsFit, MacrosFit
  <2> DEFINE T == S \cup {m.macro}
  <2>2. MacroFits(z.keyboard, m.macro)  BY DEF Fit, PartsFit, MacrosFit
  <2>3. m.frames \in Seq(T)  BY <2>1, SeqMonotonic, Zenon
  <2>4. <<m.macro>> \in Seq(T) /\ Len(<<m.macro>>) = 1 /\ <<m.macro>>[1] = m.macro  OBVIOUS
  <2>5. \A q \in T : MacroFits(z.keyboard, q)  BY <2>1, <2>2
  <2> HIDE DEF T
  <2>6. /\ frames \in Seq(T) /\ Len(frames) = 1 + Len(m.frames)
        /\ \A i \in 1..(1 + Len(m.frames)) : frames[i] = IF i <= 1 THEN m.macro ELSE m.frames[i - 1]
    BY <2>3, <2>4, ConcatProperties
  <2>7. Len(m.frames) \in Nat  BY <2>3, LenProperties
  <2> HIDE DEF frames
  <2>8. frames # << >>  BY <2>6, <2>7, EmptySeq
  <2>9. frames[Len(frames)] = Noop
    <3>1. CASE m.frames = << >>
      <4>1. m.macro = Noop /\ Len(m.frames) = 0  BY <3>1, EmptySeq DEF Fit, PartsFit, MacrosFit
      <4> QED BY <2>6, <4>1
    <3>2. CASE m.frames # << >>
      <4>1. Len(m.frames) # 0  BY <2>3, <3>2, EmptySeq
      <4>2. m.frames[Len(m.frames)] = Noop  BY <3>2 DEF Fit, PartsFit, MacrosFit
      <4> QED BY <2>6, <2>7, <4>1, <4>2
    <3> QED BY <3>1, <3>2
  <2>10. \E U : frames \in Seq(U) /\ \A q \in U : MacroFits(z.keyboard, q)  BY <2>5, <2>6, Zenon
  <2> QED BY <2>8, <2>9, <2>10 DEF MacrosFit, MacroFits
<1>3. b.frames = frames
  <2>1. DOMAIN m = Fields  BY FitFields
  <2> HIDE DEF frames
  <2> QED BY <2>1 DEF Fields
<1> HIDE DEF frames, b
<1>4. Kept(z, m, [m EXCEPT !.macro = mac, !.frames = frames])  BY <1>2, MacrosKept
<1>5. Kept(z, m, b)  BY <1>1, <1>4, Zenon
<1> QED BY <1>1, <1>2, <1>3, <1>5, Zenon

-----------------------------------------------------------------------------
(***************************************************************************)
(* The calls that an action leads to.                                      *)
(***************************************************************************)
CallFits(keyboard, c) ==
  /\ c.call \in {"run_action", "macros", "write_modifiers", "start", "set_wait_time", "sequence", "code_run"}
  /\ c.call = "run_action" => KeepsCode(keyboard, c.action) /\ c.down \in BOOLEAN
  /\ c.call = "macros" => (\E id \in DOMAIN keyboard.macros : c.mac = keyboard.macros[id]) /\ c.down \in BOOLEAN
  /\ c.call = "write_modifiers" => c.mods \in SUBSET Modifiers
  /\ c.call = "start" => KeepsCode(keyboard, c.mac.tap) /\ KeepsCode(keyboard, c.mac.hold)
  /\ c.call \in {"sequence", "code_run"} =>
       /\ DOMAIN c = {"call", "location", "rem", "mode", "depth"}
       /\ RunFits(keyboard, c) /\ c.depth \in Nat \ {0}

LaterFits(keyboard, c) == CallFits(keyboard, c) /\ c.call # "sequence"

\* Calls for later: none of them goes on with a sequence.
Later(keyboard, q) == \E S : q \in Seq(S) /\ \A c \in S : LaterFits(keyboard, c)

LEMMA NoneLater == ASSUME NEW keyboard PROVE Later(keyboard, << >>)
<1> DEFINE S == {}
<1>1. << >> \in Seq(S) /\ \A c \in S : LaterFits(keyboard, c)  BY EmptySeq
<1> HIDE DEF S
<1> QED BY <1>1, Zenon DEF Later

LEMMA OneLater == ASSUME NEW keyboard, NEW c, LaterFits(keyboard, c) PROVE Later(keyboard, <<c>>)
<1> DEFINE S == {c}
<1>1. <<c>> \in Seq(S) /\ \A x \in S : LaterFits(keyboard, x)  OBVIOUS
<1> HIDE DEF S
<1> QED BY <1>1, Zenon DEF Later

LEMMA TwoLater ==
  ASSUME NEW keyboard, NEW c, LaterFits(keyboard, c), NEW d, LaterFits(keyboard, d) PROVE Later(keyboard, <<c, d>>)
<1> DEFINE S == {c, d}
<1>1. <<c, d>> \in Seq(S) /\ \A x \in S : LaterFits(keyboard, x)  OBVIOUS
<1> HIDE DEF S
<1> QED BY <1>1, Zenon DEF Later

LEMMA ConcatLater ==
  ASSUME NEW keyboard, NEW p, Later(keyboard, p), NEW q, Later(keyboard, q) PROVE Later(keyboard, p \o q)
<1>1. PICK S : p \in Seq(S) /\ \A c \in S : LaterFits(keyboard, c)  BY Zenon DEF Later
<1>2. PICK T : q \in Seq(T) /\ \A c \in T : LaterFits(keyboard, c)  BY Zenon DEF Later
<1>3. p \in Seq(S \cup T) /\ q \in Seq(S \cup T)  BY <1>1, <1>2, SeqMonotonic, Zenon
<1>4. p \o q \in Seq(S \cup T)  BY <1>3, ConcatProperties
<1>5. \A c \in S \cup T : LaterFits(keyboard, c)  BY <1>1, <1>2
<1> QED BY <1>4, <1>5, Zenon DEF Later

LEMMA HeadTailLater ==
  ASSUME NEW keyboard, NEW q, Later(keyboard, q), q # << >>
  PROVE  LaterFits(keyboard, Head(q)) /\ Later(keyboard, Tail(q))
<1>1. PICK S : q \in Seq(S) /\ \A c \in S : LaterFits(keyboard, c)  BY Zenon DEF Later
<1>2. Head(q) \in S /\ Tail(q) \in Seq(S)  BY <1>1, HeadTailProperties
<1> QED BY <1>1, <1>2, Zenon DEF Later

\* One call before others.
LEMMA HeadOfCalls ==
  ASSUME NEW keyboard, NEW c, NEW q, Later(keyboard, q), NEW calls, calls = <<c>> \o q
  PROVE  calls # << >> /\ Head(calls) = c /\ Tail(calls) = q
<1>1. PICK S : q \in Seq(S) /\ \A x \in S : LaterFits(keyboard, x)  BY Zenon DEF Later
<1> DEFINE U == S \cup {c}
<1>2. S \subseteq U /\ c \in U  OBVIOUS
<1> HIDE DEF U
<1>3. q \in Seq(U)  BY <1>1, <1>2, SeqMonotonic, Zenon
<1>4. <<c>> \in Seq(U) /\ Len(<<c>>) = 1 /\ <<c>>[1] = c  BY <1>2
<1> DEFINE p == <<c>> \o q
<1>5. p \in Seq(U) /\ Len(p) = 1 + Len(q) /\ \A i \in 1..(1 + Len(q)) : p[i] = IF i <= 1 THEN c ELSE q[i - 1]
  BY <1>3, <1>4, ConcatProperties
<1>6. Len(q) \in Nat  BY <1>3, LenProperties
<1> HIDE DEF p
<1>7. p # << >>  BY <1>5, <1>6, EmptySeq
<1>8. Head(p) = c
  <2>1. Head(p) = p[1]  BY <1>5, <1>7
  <2> QED BY <1>5, <1>6, <2>1
<1>9. Tail(p) = q
  <2>1. Tail(p) \in Seq(U) /\ Len(Tail(p)) = Len(q) /\ \A i \in 1..Len(q) : Tail(p)[i] = p[i + 1]
    BY <1>5, <1>6, <1>7, HeadTailProperties
  <2>2. \A i \in 1..Len(q) : Tail(p)[i] = q[i]  BY <1>5, <1>6, <2>1
  <2> QED BY <1>3, <2>1, <2>2, SeqEqual
<1>10. calls = p  BY DEF p
<1> QED BY <1>7, <1>8, <1>9, <1>10

LEMMA CallsAfter ==
  ASSUME NEW keyboard, NEW c, NEW q, Later(keyboard, q), NEW rest, Later(keyboard, rest)
  PROVE  (<<c>> \o q) \o rest = <<c>> \o (q \o rest)
<1>1. PICK S : q \in Seq(S) /\ \A x \in S : LaterFits(keyboard, x)  BY Zenon DEF Later
<1>2. PICK T : rest \in Seq(T) /\ \A x \in T : LaterFits(keyboard, x)  BY Zenon DEF Later
<1> DEFINE U == S \cup T \cup {c}
<1>3. S \subseteq U /\ T \subseteq U /\ c \in U  OBVIOUS
<1> HIDE DEF U
<1>4. q \in Seq(U) /\ rest \in Seq(U)  BY <1>1, <1>2, <1>3, SeqMonotonic, Zenon
<1>5. <<c>> \in Seq(U)  BY <1>3
<1> QED BY <1>4, <1>5, ConcatAssociative

LEMMA OnlyCall == ASSUME NEW c PROVE <<c>> = <<c>> \o << >>
<1>1. <<c>> \in Seq({c})  OBVIOUS
<1> QED BY <1>1, ConcatEmptySeq

\* A mapper and the calls still to be made: nothing is urgent, ...
Patient(z, m, calls) == Tidy(z, m) /\ Later(z.keyboard, calls)

\* ... or a sequence goes on first, which has interrupted something, ...
Running(z, m, calls) ==
  /\ Tidy(z, m) /\ m.frames # << >>
  /\ \E c, q : /\ calls = <<c>> \o q /\ c.call = "sequence"
               /\ CallFits(z.keyboard, c) /\ Later(z.keyboard, q)

\* ... or modifiers wait for the code that goes with them.
Urgent(z, m, calls) ==
  /\ Owes(z, m)
  /\ \E code, q : calls = <<ActionCall(code, TRUE)>> \o q /\ Reports(code) /\ Later(z.keyboard, q)

List(z, m, calls) == Patient(z, m, calls) \/ Running(z, m, calls) \/ Urgent(z, m, calls)

ResultFits(z, r) == List(z, r.s, r.calls)

LEMMA ListAppend ==
  ASSUME NEW z, NEW m, NEW calls, List(z, m, calls), NEW rest, Later(z.keyboard, rest)
  PROVE  List(z, m, calls \o rest)
<1>1. CASE Patient(z, m, calls)  BY <1>1, ConcatLater DEF Patient, List
<1>2. CASE Running(z, m, calls)
  <2>1. PICK c, q : /\ calls = <<c>> \o q /\ c.call = "sequence"
                    /\ CallFits(z.keyboard, c) /\ Later(z.keyboard, q)
    BY <1>2, Zenon DEF Running
  <2>2. calls \o rest = <<c>> \o (q \o rest) /\ Later(z.keyboard, q \o rest)  BY <2>1, CallsAfter, ConcatLater
  <2>3. Running(z, m, calls \o rest)  BY <1>2, <2>1, <2>2, Zenon DEF Running
  <2> QED BY <2>3 DEF List
<1>3. CASE Urgent(z, m, calls)
  <2>1. PICK code, q : calls = <<ActionCall(code, TRUE)>> \o q /\ Reports(code) /\ Later(z.keyboard, q)
    BY <1>3, Zenon DEF Urgent
  <2>2. calls \o rest = <<ActionCall(code, TRUE)>> \o (q \o rest) /\ Later(z.keyboard, q \o rest)
    BY <2>1, CallsAfter, ConcatLater
  <2>3. Urgent(z, m, calls \o rest)  BY <1>3, <2>1, <2>2, Zenon DEF Urgent
  <2> QED BY <2>3 DEF List
<1> QED BY <1>1, <1>2, <1>3 DEF List

LEMMA ReturnFits == ASSUME NEW z, NEW m, Tidy(z, m) PROVE ResultFits(z, Return(m))
  BY NoneLater DEF ResultFits, List, Patient, Return, Calls

LEMMA PatientFits ==
  ASSUME NEW z, NEW m, Tidy(z, m), NEW calls, Later(z.keyboard, calls) PROVE ResultFits(z, Calls(m, calls))
  BY DEF ResultFits, List, Patient, Calls

LEMMA RunningFits ==
  ASSUME NEW z, NEW m, Tidy(z, m), m.frames # << >>, NEW c, c.call = "sequence", CallFits(z.keyboard, c)
  PROVE  ResultFits(z, Calls(m, <<c>>))
<1>1. <<c>> = <<c>> \o << >> /\ Later(z.keyboard, << >>)  BY NoneLater, OnlyCall
<1>2. Running(z, m, <<c>>)  BY <1>1, Zenon DEF Running
<1> QED BY <1>2 DEF ResultFits, List, Calls

LEMMA UrgentFits ==
  ASSUME NEW z, NEW m, Owes(z, m), NEW code, Reports(code)
  PROVE  ResultFits(z, Calls(m, <<ActionCall(code, TRUE)>>))
<1> DEFINE calls == <<ActionCall(code, TRUE)>>
<1>1. calls = <<ActionCall(code, TRUE)>> \o << >> /\ Later(z.keyboard, << >>)  BY NoneLater, OnlyCall
<1>2. Urgent(z, m, calls)  BY <1>1, Zenon DEF Urgent
<1> QED BY <1>2 DEF ResultFits, List, Calls

LEMMA ActionCallFits ==
  ASSUME NEW keyboard, NEW code, KeepsCode(keyboard, code), NEW is_down \in BOOLEAN
  PROVE  LaterFits(keyboard, ActionCall(code, is_down))
<1> DEFINE c == ActionCall(code, is_down)
<1>1. c.call = "run_action" /\ c.action = code /\ c.down = is_down  BY DEF ActionCall
<1> HIDE DEF c
<1>2. LaterFits(keyboard, c)  BY <1>1 DEF LaterFits, CallFits
<1> QED BY <1>2 DEF c

LEMMA StartDualActionFits ==
  ASSUME NEW z, NEW m, Tidy(z, m), NEW mac, KeepsCode(z.keyboard, mac.tap), KeepsCode(z.keyboard, mac.hold),
         NEW is_down \in BOOLEAN
  PROVE  ResultFits(z, StartDualAction(m, is_down, mac))
<1> DEFINE calls == CASE ~ is_down -> <<ActionCall(mac.hold, FALSE), DualUpCall>>
                      [] is_down /\ m.dual.type = "wait" -> <<ActionCall(m.dual.hold, TRUE), DualCall(mac)>>
                      [] is_down /\ m.dual.type # "wait" -> <<DualCall(mac)>>
<1>1. LaterFits(z.keyboard, DualUpCall) /\ LaterFits(z.keyboard, DualCall(mac))
  <2>1. DualUpCall.call = "set_wait_time" /\ DualCall(mac).call = "start" /\ DualCall(mac).mac = mac
    BY DEF DualUpCall, DualCall
  <2> QED BY <2>1 DEF LaterFits, CallFits
<1>2. LaterFits(z.keyboard, ActionCall(mac.hold, FALSE))  BY ActionCallFits
<1>3. m.dual.type = "wait" => LaterFits(z.keyboard, ActionCall(m.dual.hold, TRUE))
  <2>1. m.dual.type = "wait" => KeepsCode(z.keyboard, m.dual.hold)
    BY DEF Tidy, Fit, PartsFit, DualFits, NoDual
  <2> QED BY <2>1, ActionCallFits
<1>4. Later(z.keyboard, calls)
  <2>1. CASE ~ is_down
    <3>1. calls = <<ActionCall(mac.hold, FALSE), DualUpCall>>  BY <2>1
    <3> QED BY <1>1, <1>2, <3>1, TwoLater
  <2>2. CASE is_down /\ m.dual.type = "wait"
    <3>1. calls = <<ActionCall(m.dual.hold, TRUE), DualCall(mac)>>  BY <2>2
    <3> QED BY <1>1, <1>3, <2>2, <3>1, TwoLater
  <2>3. CASE is_down /\ m.dual.type # "wait"
    <3>1. calls = <<DualCall(mac)>>  BY <2>3
    <3> QED BY <1>1, <3>1, OneLater
  <2> QED BY <2>1, <2>2, <2>3
<1>5. StartDualAction(m, is_down, mac) = Calls(m, calls)  BY DEF StartDualAction
<1> HIDE DEF calls
<1> QED BY <1>4, <1>5, PatientFits

\* The mapper as a sequence goes on, and the calls to make of its code.
CodeOf(m, q) ==
  IF q.rem > 1 THEN [m EXCEPT !.macro = Sequence(q.mode, q.location + 1, q.rem - 1)] ELSE PopMacro(m)
CallsOf(m, q) ==
  PressCalls(MacroCode(m, q.location), q.mode) \o ReleaseCalls(MacroCode(m, q.location), q.mode)

LEMMA CodeOfKept ==
  ASSUME NEW z, NEW m, Fit(z, m), m.frames # << >>, NEW q, CallFits(z.keyboard, q), q.call = "sequence"
  PROVE  Kept(z, m, CodeOf(m, q))
<1>1. CASE q.rem > 1
  <2> DEFINE macro == Sequence(q.mode, q.location + 1, q.rem - 1)
  <2>1. macro.location = q.location + 1 /\ macro.rem = q.rem - 1  BY DEF Sequence
  <2>2. q.location \in Nat /\ q.rem \in Nat /\ KeepsCodes(z.keyboard, q.location, q.location + q.rem - 1)
    BY DEF CallFits, RunFits
  <2>3. CodeOf(m, q) = [m EXCEPT !.macro = macro]  BY <1>1 DEF CodeOf
  <2> HIDE DEF macro
  <2>4. KeepsCodes(z.keyboard, macro.location, macro.location + macro.rem - 1)
    <3>1. macro.location..(macro.location + macro.rem - 1) \subseteq q.location..(q.location + q.rem - 1)
      BY <2>1, <2>2
    <3> QED BY <2>2, <3>1, KeepsSome
  <2>5. RunFits(z.keyboard, macro)  BY <1>1, <2>1, <2>2, <2>4 DEF RunFits
  <2>6. Kept(z, m, [m EXCEPT !.macro = macro])  BY <2>5, NextWordKept
  <2> QED BY <2>3, <2>6, Zenon
<1>2. CASE ~ (q.rem > 1)
  <2>1. CodeOf(m, q) = PopMacro(m)  BY <1>2 DEF CodeOf
  <2> QED BY <2>1, PopMacroKept
<1> QED BY <1>1, <1>2

LEMMA CallsOfLater ==
  ASSUME NEW z, NEW m, Fit(z, m), NEW q, CallFits(z.keyboard, q), q.call = "sequence"
  PROVE  Later(z.keyboard, CallsOf(m, q)) /\ LaterFits(z.keyboard, CodeRunCall(q))
<1> DEFINE code == MacroCode(m, q.location)
<1>1. KeepsCode(z.keyboard, code)
  <2>1. q.location \in Nat /\ q.rem \in Nat \ {0} /\ KeepsCodes(z.keyboard, q.location, q.location + q.rem - 1)
    BY DEF CallFits, RunFits
  <2>2. q.location \in q.location..(q.location + q.rem - 1)  BY <2>1
  <2> QED BY <2>1, <2>2, FitFields DEF KeepsCodes, MacroCode
<1> HIDE DEF code
<1>2. LaterFits(z.keyboard, ActionCall(code, TRUE)) /\ LaterFits(z.keyboard, ActionCall(code, FALSE))
  BY <1>1, ActionCallFits
<1>3. Later(z.keyboard, PressCalls(code, q.mode)) /\ Later(z.keyboard, ReleaseCalls(code, q.mode))
  BY <1>2, NoneLater, OneLater DEF PressCalls, ReleaseCalls
<1>4. Later(z.keyboard, CallsOf(m, q))  BY <1>3, ConcatLater DEF CallsOf, code
<1>5. LaterFits(z.keyboard, CodeRunCall(q))
  <2> DEFINE c == CodeRunCall(q)
  <2>1. DOMAIN q = {"call", "location", "rem", "mode", "depth"} /\ RunFits(z.keyboard, q) /\ q.depth \in Nat \ {0}
    BY DEF CallFits
  <2>2. /\ DOMAIN c = DOMAIN q /\ c.call = "code_run" /\ c.location = q.location /\ c.rem = q.rem
        /\ c.depth = q.depth
    BY <2>1 DEF CodeRunCall
  <2> HIDE DEF c
  <2>3. RunFits(z.keyboard, c)  BY <2>1, <2>2 DEF RunFits
  <2>4. LaterFits(z.keyboard, c)  BY <2>1, <2>2, <2>3 DEF LaterFits, CallFits
  <2> QED BY <2>4 DEF c
<1> QED BY <1>4, <1>5

LEMMA NextCodeIs ==
  ASSUME NEW m, NEW q
  PROVE  /\ ~ RoomToReport(m) => NextCode(m, q) = Return(SetWaitTime(m))
         /\ RoomToReport(m) => NextCode(m, q) = Calls(CodeOf(m, q), CallsOf(m, q) \o <<CodeRunCall(q)>>)
  BY DEF NextCode, CodeOf, CallsOf

LEMMA NextCodeFits ==
  ASSUME NEW z, NEW m, Tidy(z, m), m.frames # << >>, NEW q, CallFits(z.keyboard, q), q.call = "sequence"
  PROVE  ResultFits(z, NextCode(m, q))
<1>1. CASE ~ RoomToReport(m)
  <2>1. Kept(z, m, SetWaitTime(m))  BY WaitKept DEF Tidy
  <2>2. Tidy(z, SetWaitTime(m))  BY <2>1, KeptAll
  <2> QED BY <1>1, <2>2, NextCodeIs, ReturnFits
<1>2. CASE RoomToReport(m)
  <2> DEFINE b == CodeOf(m, q)
             calls == CallsOf(m, q) \o <<CodeRunCall(q)>>
  <2>1. Kept(z, m, b)  BY CodeOfKept DEF Tidy
  <2> HIDE DEF b
  <2>2. Tidy(z, b)  BY <2>1, KeptAll
  <2>3. Later(z.keyboard, calls)
    <3>1. Later(z.keyboard, CallsOf(m, q)) /\ LaterFits(z.keyboard, CodeRunCall(q))  BY CallsOfLater DEF Tidy
    <3>2. Later(z.keyboard, <<CodeRunCall(q)>>)  BY <3>1, OneLater
    <3> QED BY <3>1, <3>2, ConcatLater
  <2>4. NextCode(m, q) = Calls(b, calls)  BY <1>2, NextCodeIs DEF b
  <2> HIDE DEF calls
  <2> QED BY <2>2, <2>3, <2>4, PatientFits
<1> QED BY <1>1, <1>2

\* A sequence that goes on has flushed all that was buffered.
LEMMA CodeRunFits ==
  ASSUME NEW z, NEW m, Tidy(z, m), NEW q, CallFits(z.keyboard, q), q.call = "code_run"
  PROVE  LET r == CodeRun(m, q)
         IN /\ ResultFits(z, r) /\ Even(z, r.s)
            /\ r.calls = << >> \/ \E c : r.calls = <<c>> /\ c.call = "sequence"
<1> DEFINE b == Flush(m, FALSE)
           c == SequenceCall(IF q.rem > 1 THEN q.location + 1 ELSE q.location,
                             IF q.rem > 1 THEN q.rem - 1 ELSE q.rem, q.mode, q.depth)
           r == CodeRun(m, q)
<1>1. Even(z, b)  BY TidyOwes, FlushEven
<1>2. b.frames = m.frames  BY FitFields, FlushKeeps DEF Tidy, SameButReports
<1>3. CASE Len(m.frames) # q.depth
  <2>1. r = Return(SetWaitTime(b))  BY <1>3 DEF CodeRun
  <2> HIDE DEF b, r, c
  <2>2. Kept(z, b, SetWaitTime(b))  BY <1>1, WaitKept DEF Even
  <2>3. Even(z, SetWaitTime(b))  BY <1>1, <2>2, KeptAll
  <2>4. Tidy(z, SetWaitTime(b))  BY <2>3, EvenTidy
  <2>5. r.s = SetWaitTime(b) /\ r.calls = << >>  BY <2>1 DEF Return, Calls
  <2>6. ResultFits(z, r)  BY <2>1, <2>4, ReturnFits
  <2> QED BY <2>3, <2>5, <2>6 DEF r
<1>4. CASE Len(m.frames) = q.depth
  <2>1. r = Calls(b, <<c>>)  BY <1>4 DEF CodeRun
  <2>2. /\ DOMAIN q = {"call", "location", "rem", "mode", "depth"} /\ q.depth \in Nat \ {0}
        /\ q.location \in Nat /\ q.rem \in Nat \ {0} /\ KeepsCodes(z.keyboard, q.location, q.location + q.rem - 1)
    BY DEF CallFits, RunFits
  <2>3. /\ DOMAIN c = {"call", "location", "rem", "mode", "depth"} /\ c.call = "sequence" /\ c.depth = q.depth
        /\ c.location = IF q.rem > 1 THEN q.location + 1 ELSE q.location
        /\ c.rem = IF q.rem > 1 THEN q.rem - 1 ELSE q.rem
    BY DEF SequenceCall
  <2> HIDE DEF b, r, c
  <2>4. c.location \in Nat /\ c.rem \in Nat \ {0}
        /\ c.location..(c.location + c.rem - 1) \subseteq q.location..(q.location + q.rem - 1)
    BY <2>2, <2>3
  <2>5. KeepsCodes(z.keyboard, c.location, c.location + c.rem - 1)  BY <2>2, <2>4, KeepsSome
  <2>6. CallFits(z.keyboard, c)  BY <2>2, <2>3, <2>4, <2>5 DEF CallFits, RunFits
  <2>7. b.frames # << >>
    <3>1. Len(<< >>) = 0  OBVIOUS
    <3> QED BY <1>2, <1>4, <2>2, <3>1
  <2>8. Tidy(z, b)  BY <1>1, EvenTidy
  <2>9. ResultFits(z, r)  BY <2>1, <2>3, <2>6, <2>7, <2>8, RunningFits
  <2>10. r.s = b /\ r.calls = <<c>>  BY <2>1 DEF Calls
  <2> QED BY <1>1, <2>3, <2>9, <2>10 DEF r
<1> QED BY <1>3, <1>4

LEMMA ReportsKeeps == ASSUME NEW keyboard, NEW code, Reports(code) PROVE KeepsCode(keyboard, code)
  BY DEF Reports, KeepsCode

LEMMA RunMacroFits ==
  ASSUME NEW z, NEW m, Tidy(z, m), NEW mac, \E id \in DOMAIN z.keyboard.macros : mac = z.keyboard.macros[id],
         NEW is_down \in BOOLEAN
  PROVE  ResultFits(z, RunMacro(m, mac, is_down))
<1>0. /\ m.keyboard = z.keyboard /\ Fit(z, m)
      /\ KeepsMacro(z.keyboard, mac) /\ MacroWellFormed(z.keyboard, mac)
  <2>1. Fit(z, m) /\ m.keyboard = z.keyboard  BY FitFields DEF Tidy
  <2>2. WellFormed(z.keyboard) /\ KeepsCount(z.keyboard)  BY <2>1 DEF Fit, PartsFit, KeyboardFits
  <2> QED BY <2>1, <2>2 DEF WellFormed, KeepsCount
<1>1. CASE mac.type = "modifier"
  <2>1. mac.mods \in SUBSET Modifiers /\ Reports(mac.code)  BY <1>0, <1>1 DEF KeepsMacro
  <2>2. CASE is_down
    <3> DEFINE b == WriteModifiers(m, mac.mods, 10, TRUE)
    <3>1. Owes(z, b)  BY <2>1, GivesOwes
    <3>2. RunMacro(m, mac, is_down) = Calls(b, <<ActionCall(mac.code, TRUE)>>)  BY <1>1, <2>2 DEF RunMacro
    <3> HIDE DEF b
    <3> QED BY <2>1, <3>1, <3>2, UrgentFits
  <2>3. CASE ~ is_down
    <3> DEFINE calls == <<ActionCall(mac.code, FALSE), ModifiersCall(mac.mods)>>
    <3>1. LaterFits(z.keyboard, ModifiersCall(mac.mods))
      <4>1. ModifiersCall(mac.mods).call = "write_modifiers" /\ ModifiersCall(mac.mods).mods = mac.mods
        BY DEF ModifiersCall
      <4> QED BY <2>1, <4>1 DEF LaterFits, CallFits
    <3>2. LaterFits(z.keyboard, ActionCall(mac.code, FALSE))  BY <2>1, ReportsKeeps, ActionCallFits
    <3>3. Later(z.keyboard, calls)  BY <3>1, <3>2, TwoLater
    <3>4. RunMacro(m, mac, is_down) = Calls(m, calls)  BY <1>1, <2>3 DEF RunMacro
    <3> HIDE DEF calls
    <3> QED BY <3>3, <3>4, PatientFits
  <2> QED BY <2>2, <2>3
<1>2. CASE mac.type = "dual_action"
  <2>1. KeepsCode(z.keyboard, mac.tap) /\ KeepsCode(z.keyboard, mac.hold)  BY <1>0, <1>2 DEF KeepsMacro
  <2>2. RunMacro(m, mac, is_down) = StartDualAction(m, is_down, mac)  BY <1>2 DEF RunMacro
  <2> QED BY <2>1, <2>2, StartDualActionFits
<1>3. CASE mac.type = "tapdance" /\ mac.len > 2
  <2> DEFINE b == DanceStep(m, mac.location, mac.len)
  <2>1. Kept(z, m, b)  BY <1>0, <1>3, DanceStepKept
  <2>2. RunMacro(m, mac, is_down) = Return(b)  BY <1>3 DEF RunMacro
  <2> HIDE DEF b
  <2>3. Tidy(z, b)  BY <2>1, KeptAll
  <2> QED BY <2>2, <2>3, ReturnFits
<1>4. CASE mac.type = "sequence" /\ mac.rem > 0 /\ (is_down <=> mac.mode \in {"tap", "hold"})
  <2> DEFINE b == PushMacro(m, mac)
             c == SequenceCall(mac.location, mac.rem, mac.mode, Len(m.frames) + 1)
  <2>1. RunFits(z.keyboard, mac)  BY <1>0, <1>4 DEF KeepsMacro, RunFits
  <2>2. RunMacro(m, mac, is_down) = Calls(b, <<c>>)  BY <1>4 DEF RunMacro
  <2>3. Kept(z, m, b) /\ b.frames # << >>  BY <1>0, <2>1, PushMacroKept
  <2>4. Len(m.frames) \in Nat
    <3>1. PICK S : m.frames \in Seq(S)  BY <1>0 DEF Fit, PartsFit, MacrosFit
    <3> QED BY <3>1, LenProperties
  <2>5. /\ DOMAIN c = {"call", "location", "rem", "mode", "depth"} /\ c.call = "sequence"
        /\ c.location = mac.location /\ c.rem = mac.rem /\ c.depth = Len(m.frames) + 1
    BY DEF SequenceCall
  <2> HIDE DEF b, c
  <2>6. CallFits(z.keyboard, c)  BY <2>1, <2>4, <2>5 DEF CallFits, RunFits
  <2>7. Tidy(z, b)  BY <2>3, KeptAll
  <2> QED BY <2>2, <2>3, <2>5, <2>6, <2>7, RunningFits
<1>5. CASE mac.type = "hold_release"
  <2> DEFINE id == IF is_down THEN mac.hold ELSE mac.release
             c == MacroCall(Macros(m)[id], is_down)
  <2>1. id \in DOMAIN z.keyboard.macros  BY <1>0, <1>5 DEF MacroWellFormed
  <2>2. RunMacro(m, mac, is_down) = Calls(m, <<c>>)  BY <1>5 DEF RunMacro
  <2> HIDE DEF id
  <2>3. c.call = "macros" /\ c.mac = z.keyboard.macros[id] /\ c.down = is_down  BY <1>0 DEF MacroCall, Macros
  <2> HIDE DEF c
  <2>4. LaterFits(z.keyboard, c)  BY <2>1, <2>3 DEF LaterFits, CallFits
  <2> QED BY <2>2, <2>4, OneLater, PatientFits
<1>6. CASE mac.type = "delay" /\ is_down
  <2> DEFINE b == Report(m, Delay(mac.n))
  <2>1. Even(z, b)  BY TidyOwes, NeutralEvents, ReportEven
  <2>2. RunMacro(m, mac, is_down) = Return(b)  BY <1>6 DEF RunMacro
  <2> HIDE DEF b
  <2> QED BY <2>1, <2>2, EvenTidy, ReturnFits
<1>7. CASE /\ mac.type # "modifier" /\ mac.type # "dual_action" /\ mac.type # "hold_release"
           /\ ~ (mac.type = "tapdance" /\ mac.len > 2) /\ ~ (mac.type = "delay" /\ is_down)
           /\ ~ (mac.type = "sequence" /\ mac.rem > 0 /\ (is_down <=> mac.mode \in {"tap", "hold"}))
  <2>1. RunMacro(m, mac, is_down) = Return(m)  BY <1>7 DEF RunMacro
  <2> QED BY <2>1, ReturnFits
<1> QED BY <1>1, <1>2, <1>3, <1>4, <1>5, <1>6, <1>7

\* A call that can wait.
LEMMA MakeLaterFits ==
  ASSUME NEW z, NEW m, Tidy(z, m), NEW c, LaterFits(z.keyboard, c) PROVE ResultFits(z, MakeCall(m, c))
<1>0. m.keyboard = z.keyboard /\ Fit(z, m)  BY FitFields DEF Tidy
<1>1. CASE c.call = "run_action"
  <2>1. KeepsCode(z.keyboard, c.action) /\ c.down \in BOOLEAN  BY <1>1 DEF LaterFits, CallFits
  <2>2. CASE IsMacro(m, c.action)
    <3> DEFINE mac == Macros(m)[c.action - 4096]
    <3>1. \E id \in DOMAIN z.keyboard.macros : mac = z.keyboard.macros[id]  BY <1>0, <2>2 DEF IsMacro, Macros
    <3>2. MakeCall(m, c) = RunMacro(m, mac, c.down)  BY <1>1, <2>2 DEF MakeCall
    <3> HIDE DEF mac
    <3> QED BY <2>1, <3>1, <3>2, RunMacroFits
  <2>3. CASE ~ IsMacro(m, c.action)
    <3> DEFINE b == BasicAction(m, c.action, c.down)
    <3>1. MakeCall(m, c) = Return(b)  BY <1>1, <2>3 DEF MakeCall
    <3>2. Tidy(z, b)  BY <2>1, BasicActionTidy
    <3> HIDE DEF b
    <3> QED BY <3>1, <3>2, ReturnFits
  <2> QED BY <2>2, <2>3
<1>2. CASE c.call = "macros"
  <2>1. c.down \in BOOLEAN /\ \E id \in DOMAIN z.keyboard.macros : c.mac = z.keyboard.macros[id]
    BY <1>2 DEF LaterFits, CallFits
  <2>2. MakeCall(m, c) = RunMacro(m, c.mac, c.down)  BY <1>2 DEF MakeCall
  <2> QED BY <2>1, <2>2, RunMacroFits
<1>3. CASE c.call = "write_modifiers"
  <2> DEFINE b == WriteModifiers(m, c.mods, -10, TRUE)
  <2>1. MakeCall(m, c) = Return(b)  BY <1>3 DEF MakeCall
  <2>2. c.mods \in SUBSET Modifiers  BY <1>3 DEF LaterFits, CallFits
  <2>3. Tidy(z, b)  BY <2>2, TakesTidy
  <2> HIDE DEF b
  <2> QED BY <2>1, <2>3, ReturnFits
<1>4. CASE c.call = "start"
  <2> DEFINE b == DualStarts(m, c.mac)
  <2>1. MakeCall(m, c) = Return(b)  BY <1>4 DEF MakeCall
  <2>2. KeepsCode(z.keyboard, c.mac.tap) /\ KeepsCode(z.keyboard, c.mac.hold)  BY <1>4 DEF LaterFits, CallFits
  <2>3. Even(z, b)  BY <2>2, TidyOwes, DualStartsEven
  <2> HIDE DEF b
  <2> QED BY <2>1, <2>3, EvenTidy, ReturnFits
<1>5. CASE c.call = "set_wait_time"
  <2> DEFINE b == Flush(m, FALSE)
  <2>1. MakeCall(m, c) = Return(SetWaitTime(b))  BY <1>5 DEF MakeCall
  <2>2. Even(z, b)  BY TidyOwes, FlushEven
  <2> HIDE DEF b
  <2>3. Kept(z, b, SetWaitTime(b))  BY <2>2, WaitKept DEF Even
  <2>4. Tidy(z, SetWaitTime(b))  BY <2>2, <2>3, KeptAll, EvenTidy
  <2> QED BY <2>1, <2>4, ReturnFits
<1>6. CASE c.call = "code_run"
  <2>1. MakeCall(m, c) = CodeRun(m, c)  BY <1>6 DEF MakeCall
  <2> QED BY <1>6, <2>1, CodeRunFits DEF LaterFits
<1> QED BY <1>1, <1>2, <1>3, <1>4, <1>5, <1>6 DEF LaterFits, CallFits

LEMMA ReportsNoMacro == ASSUME NEW m, NEW code, Reports(code) PROVE ~ IsMacro(m, code)
<1>1. code \in Nat /\ code < 1032  BY DEF Reports
<1>2. code \in 4096..8191 => FALSE  BY <1>1
<1> QED BY <1>2 DEF IsMacro

LEMMA MadeFits ==
  ASSUME NEW z, NEW r, ResultFits(z, r), r.calls # << >>
  PROVE  ResultFits(z, MakeCall(r.s, Head(r.calls))) /\ Later(z.keyboard, Tail(r.calls))
<1> DEFINE c == Head(r.calls)
           q == Tail(r.calls)
           made == MakeCall(r.s, c)
<1> HIDE DEF made
<1>1. CASE Patient(z, r.s, r.calls)
  <2>1. LaterFits(z.keyboard, c) /\ Later(z.keyboard, q)  BY <1>1, HeadTailLater DEF Patient
  <2> QED BY <1>1, <2>1, MakeLaterFits DEF Patient
<1>2. CASE Running(z, r.s, r.calls)
  <2>1. PICK d, rest : /\ r.calls = <<d>> \o rest /\ d.call = "sequence"
                       /\ CallFits(z.keyboard, d) /\ Later(z.keyboard, rest)
    BY <1>2, Zenon DEF Running
  <2>2. c = d /\ q = rest  BY <2>1, HeadOfCalls, Zenon
  <2> HIDE DEF c, q
  <2>3. made = NextCode(r.s, c)  BY <2>1, <2>2 DEF MakeCall, made
  <2>4. ResultFits(z, made) /\ Later(z.keyboard, q)  BY <1>2, <2>1, <2>2, <2>3, NextCodeFits DEF Running
  <2> QED BY <2>4 DEF made, c, q
<1>3. CASE Urgent(z, r.s, r.calls)
  <2>1. PICK code, rest : r.calls = <<ActionCall(code, TRUE)>> \o rest /\ Reports(code) /\ Later(z.keyboard, rest)
    BY <1>3, Zenon DEF Urgent
  <2>2. c = ActionCall(code, TRUE) /\ q = rest  BY <2>1, HeadOfCalls, Zenon
  <2> HIDE DEF c, q
  <2>3. c.call = "run_action" /\ c.action = code /\ c.down = TRUE  BY <2>2 DEF ActionCall
  <2>4. ~ IsMacro(r.s, code)  BY <2>1, ReportsNoMacro, Zenon
  <2>5. made = Return(BasicAction(r.s, code, TRUE))
    <3>1. ~ IsMacro(r.s, c.action)  BY <2>3, <2>4
    <3>2. made = Return(BasicAction(r.s, c.action, c.down))  BY <2>3, <3>1 DEF MakeCall, made
    <3> QED BY <2>3, <3>2
  <2>6. Even(z, BasicAction(r.s, code, TRUE))  BY <1>3, <2>1, BasicActionEven DEF Urgent
  <2>7. ResultFits(z, made) /\ Later(z.keyboard, q)  BY <2>1, <2>2, <2>5, <2>6, EvenTidy, ReturnFits
  <2> QED BY <2>7 DEF made, c, q
<1> QED BY <1>1, <1>2, <1>3 DEF ResultFits, List

LEMMA NextCallFits == ASSUME NEW z, NEW r, ResultFits(z, r) PROVE ResultFits(z, NextCall(r))
<1>1. CASE r.calls = << >>  BY <1>1 DEF NextCall
<1>2. CASE r.calls # << >>
  <2> DEFINE q == Tail(r.calls)
             made == MakeCall(r.s, Head(r.calls))
             calls == made.calls \o q
  <2>1. NextCall(r) = Calls(made.s, calls)  BY <1>2 DEF NextCall
  <2>2. ResultFits(z, made) /\ Later(z.keyboard, q)  BY <1>2, MadeFits
  <2> HIDE DEF made, q
  <2>3. List(z, made.s, calls)  BY <2>2, ListAppend DEF ResultFits
  <2> HIDE DEF calls
  <2> QED BY <2>1, <2>3 DEF ResultFits, Calls
<1> QED BY <1>1, <1>2

\* What the first call says of the mapper.
LEMMA HeadCallFits ==
  ASSUME NEW z, NEW r, ResultFits(z, r), r.calls # << >>
  PROVE  LET c == Head(r.calls)
         IN /\ c.call = "code_run" => Tidy(z, r.s) /\ CallFits(z.keyboard, c)
            /\ c.call = "sequence" => Tidy(z, r.s) /\ CallFits(z.keyboard, c) /\ r.s.frames # << >>
<1> DEFINE c == Head(r.calls)
<1>1. CASE Patient(z, r.s, r.calls)
  <2>1. LaterFits(z.keyboard, c)  BY <1>1, HeadTailLater DEF Patient
  <2> QED BY <1>1, <2>1 DEF Patient, LaterFits
<1>2. CASE Running(z, r.s, r.calls)
  <2>1. PICK d, q : /\ r.calls = <<d>> \o q /\ d.call = "sequence"
                    /\ CallFits(z.keyboard, d) /\ Later(z.keyboard, q)
    BY <1>2, Zenon DEF Running
  <2>2. c = d  BY <2>1, HeadOfCalls, Zenon
  <2>3. d.call = "sequence" /\ CallFits(z.keyboard, d)  BY <2>1, Zenon
  <2>4. Tidy(z, r.s) /\ r.s.frames # << >>  BY <1>2 DEF Running
  <2> HIDE DEF c
  <2>5. c.call = "sequence" /\ CallFits(z.keyboard, c)  BY <2>2, <2>3
  <2> QED BY <2>4, <2>5 DEF c
<1>3. CASE Urgent(z, r.s, r.calls)
  <2>1. PICK code, q : r.calls = <<ActionCall(code, TRUE)>> \o q /\ Reports(code) /\ Later(z.keyboard, q)
    BY <1>3, Zenon DEF Urgent
  <2>2. c = ActionCall(code, TRUE)  BY <2>1, HeadOfCalls, Zenon
  <2>3. c.call = "run_action"  BY <2>2 DEF ActionCall
  <2> QED BY <2>3
<1> QED BY <1>1, <1>2, <1>3 DEF ResultFits, List

LEMMA ListIsSeq == ASSUME NEW z, NEW m, NEW calls, List(z, m, calls) PROVE \E S : calls \in Seq(S)
<1>1. ASSUME NEW c, NEW q, Later(z.keyboard, q), calls = <<c>> \o q PROVE \E S : calls \in Seq(S)
  <2>1. PICK S : q \in Seq(S)  BY <1>1, Zenon DEF Later
  <2> DEFINE U == S \cup {c}
  <2>2. S \subseteq U /\ c \in U  OBVIOUS
  <2> HIDE DEF U
  <2>3. q \in Seq(U) /\ <<c>> \in Seq(U)
    <3>1. q \in Seq(U)  BY <2>1, <2>2, SeqMonotonic, Zenon
    <3> QED BY <2>2, <3>1
  <2>4. <<c>> \o q \in Seq(U)  BY <2>3, ConcatProperties
  <2> QED BY <1>1, <2>4
<1>2. CASE Patient(z, m, calls)  BY <1>2, Zenon DEF Patient, Later
<1>3. CASE Running(z, m, calls)  BY <1>1, <1>3, Zenon DEF Running
<1>4. CASE Urgent(z, m, calls)  BY <1>1, <1>4, Zenon DEF Urgent
<1> QED BY <1>2, <1>3, <1>4 DEF List

\* In the end the code that is run last is dealt with.
EndsWithRun(q) == q # << >> /\ q[Len(q)].call = "code_run" /\ \E S : q \in Seq(S)

LEMMA EndsConcat ==
  ASSUME NEW S, NEW p \in Seq(S), NEW q, EndsWithRun(q) PROVE EndsWithRun(p \o q)
<1>1. PICK T : q \in Seq(T)  BY DEF EndsWithRun
<1> DEFINE U == S \cup T
           r == p \o q
<1>2. p \in Seq(U) /\ q \in Seq(U)  BY <1>1, SeqMonotonic, Zenon
<1> HIDE DEF U
<1>3. /\ r \in Seq(U) /\ Len(r) = Len(p) + Len(q)
      /\ \A i \in 1..(Len(p) + Len(q)) : r[i] = IF i <= Len(p) THEN p[i] ELSE q[i - Len(p)]
  BY <1>2, ConcatProperties
<1>4. Len(p) \in Nat /\ Len(q) \in Nat \ {0}  BY <1>2, EmptySeq, LenProperties DEF EndsWithRun
<1> HIDE DEF r
<1>5. r[Len(r)] = q[Len(q)]  BY <1>3, <1>4
<1>6. r # << >>  BY <1>3, <1>4, EmptySeq
<1>7. EndsWithRun(r)  BY <1>3, <1>5, <1>6, Zenon DEF EndsWithRun
<1> QED BY <1>7 DEF r

LEMMA EndsTail ==
  ASSUME NEW q, EndsWithRun(q)
  PROVE  IF Tail(q) = << >> THEN Head(q).call = "code_run" ELSE EndsWithRun(Tail(q))
<1>1. PICK S : q \in Seq(S)  BY DEF EndsWithRun
<1> DEFINE t == Tail(q)
<1>2. q # << >> /\ q[Len(q)].call = "code_run" /\ Len(q) \in Nat \ {0}  BY <1>1, EmptySeq DEF EndsWithRun
<1>3. t \in Seq(S) /\ Len(t) = Len(q) - 1 /\ \A i \in 1..Len(t) : t[i] = q[i + 1]  BY <1>1, <1>2, HeadTailProperties
<1>4. Head(q) = q[1]  BY <1>1, <1>2
<1> HIDE DEF t
<1>5. CASE t = << >>
  <2>1. Len(t) = 0  BY <1>5
  <2>2. Len(q) = 1  BY <1>2, <1>3, <2>1
  <2> QED BY <1>2, <1>4, <1>5, <2>2 DEF t
<1>6. CASE t # << >>
  <2>1. Len(t) \in Nat \ {0}  BY <1>3, <1>6, EmptySeq
  <2>2. t[Len(t)] = q[Len(q)]  BY <1>2, <1>3, <2>1
  <2>3. EndsWithRun(t)  BY <1>2, <1>3, <1>6, <2>2, Zenon DEF EndsWithRun
  <2> QED BY <1>6, <2>3 DEF t
<1> QED BY <1>5, <1>6

\* A sequence that goes on ends with everything flushed.
Flushing(z, r) ==
  \/ EndsWithRun(r.calls)
  \/ /\ Even(z, r.s)
     /\ r.calls = << >> \/ \E c : r.calls = <<c>> /\ c.call = "sequence"

LEMMA NextCallFlushes ==
  ASSUME NEW z, NEW r, ResultFits(z, r), Flushing(z, r) PROVE Flushing(z, NextCall(r))
<1>1. CASE r.calls = << >>  BY <1>1 DEF NextCall
<1>2. CASE r.calls # << >>
  <2> DEFINE c == Head(r.calls)
             q == Tail(r.calls)
             made == MakeCall(r.s, c)
             calls == made.calls \o q
             next == NextCall(r)
  <2>1. next.s = made.s /\ next.calls = calls  BY <1>2 DEF NextCall, Calls
  <2>2. /\ c.call = "code_run" => Tidy(z, r.s) /\ CallFits(z.keyboard, c)
        /\ c.call = "sequence" => Tidy(z, r.s) /\ CallFits(z.keyboard, c) /\ r.s.frames # << >>
    BY <1>2, HeadCallFits
  <2> HIDE DEF next, c
  <2>3. CASE EndsWithRun(r.calls) /\ q # << >>
    <3>1. EndsWithRun(q)  BY <2>3, EndsTail
    <3> HIDE DEF q
    <3>2. PICK S : made.calls \in Seq(S)
      <4>1. ResultFits(z, made)  BY <1>2, MadeFits DEF c
      <4> HIDE DEF made
      <4> QED BY <4>1, ListIsSeq, Zenon DEF ResultFits
    <3> HIDE DEF made
    <3>3. EndsWithRun(calls)  BY <3>1, <3>2, EndsConcat
    <3> QED BY <2>1, <3>3 DEF Flushing, next
  <2>4. CASE EndsWithRun(r.calls) /\ q = << >>
    <3>1. c.call = "code_run"  BY <2>4, EndsTail DEF c
    <3>2. made = CodeRun(r.s, c)  BY <3>1 DEF MakeCall
    <3> HIDE DEF made, q
    <3>3. Even(z, made.s) /\ (made.calls = << >> \/ \E d : made.calls = <<d>> /\ d.call = "sequence")
      BY <2>2, <3>1, <3>2, CodeRunFits
    <3>4. calls = made.calls
      <4>1. << >> \o << >> = << >>  OBVIOUS
      <4>2. \A d : <<d>> \o << >> = <<d>>  BY OnlyCall
      <4> QED BY <2>4, <3>3, <4>1, <4>2
    <3> QED BY <2>1, <3>3, <3>4 DEF Flushing, next
  <2>5. CASE Even(z, r.s) /\ \E d : r.calls = <<d>> /\ d.call = "sequence"
    <3>1. c.call = "sequence" /\ q = << >>  BY <2>5 DEF c
    <3>2. made = NextCode(r.s, c)  BY <3>1 DEF MakeCall
    <3> HIDE DEF q
    <3>3. CASE ~ RoomToReport(r.s)
      <4> HIDE DEF made
      <4>5. made = Return(SetWaitTime(r.s))  BY <3>2, <3>3, NextCodeIs
      <4>1. made.s = SetWaitTime(r.s) /\ made.calls = << >>  BY <4>5 DEF Return, Calls
      <4>2. Kept(z, r.s, SetWaitTime(r.s))  BY <2>5, WaitKept DEF Even
      <4>3. Even(z, made.s)  BY <2>5, <4>1, <4>2, KeptAll
      <4>4. calls = << >>  BY <3>1, <4>1
      <4> QED BY <2>1, <4>3, <4>4 DEF Flushing, next
    <3>4. CASE RoomToReport(r.s)
      <4> DEFINE run == CodeRunCall(c)
      <4>1. made.calls = CallsOf(r.s, c) \o <<run>>  BY <3>2, <3>4, NextCodeIs DEF Calls
      <4> HIDE DEF made
      <4>2. run.call = "code_run"
        <5>1. "call" \in DOMAIN c  BY <2>2, <3>1 DEF CallFits
        <5> QED BY <5>1 DEF CodeRunCall
      <4> HIDE DEF run
      <4>3. EndsWithRun(<<run>>)
        <5>1. <<run>> \in Seq({run}) /\ <<run>> # << >> /\ <<run>>[Len(<<run>>)] = run  OBVIOUS
        <5> QED BY <4>2, <5>1 DEF EndsWithRun
      <4>4. PICK S : CallsOf(r.s, c) \in Seq(S)
        <5>1. Later(z.keyboard, CallsOf(r.s, c))  BY <2>2, <3>1, CallsOfLater DEF Tidy
        <5> QED BY <5>1, Zenon DEF Later
      <4>5. EndsWithRun(made.calls)  BY <4>1, <4>3, <4>4, EndsConcat
      <4>6. calls = made.calls
        <5>1. PICK T : made.calls \in Seq(T)  BY <4>5 DEF EndsWithRun
        <5> QED BY <3>1, <5>1, ConcatEmptySeq
      <4> QED BY <2>1, <4>5, <4>6 DEF Flushing, next
    <3> QED BY <3>3, <3>4
  <2> QED BY <1>2, <2>3, <2>4, <2>5 DEF Flushing
<1> QED BY <1>1, <1>2

\* Where a call and all that follow from it end.
Runs(z, m, call, r) ==
  /\ ResultFits(z, r)
  /\ Flushing(z, Calls(m, <<call>>)) => Flushing(z, r)
  /\ RunCall(m, call) = IF r.calls = << >> THEN r.s ELSE [r.s EXCEPT !.given_up = TRUE]

\* All the calls that one leads to, as far as the bound goes.
LEMMA RunCallFits ==
  ASSUME NEW z, NEW m, NEW call, ResultFits(z, Calls(m, <<call>>)) PROVE \E r : Runs(z, m, call, r)
<1> DEFINE r0 == Calls(m, <<call>>)
           run[n \in 0..MAX_CALLS] == IF n = 0 THEN Calls(m, <<call>>) ELSE NextCall(run[n - 1])
<1>1. run = [n \in 0..MAX_CALLS |-> IF n = 0 THEN r0 ELSE NextCall(run[n - 1])]
  <2>1. \E f : f = [n \in 0..MAX_CALLS |-> IF n = 0 THEN r0 ELSE NextCall(f[n - 1])]
    BY ResultsExist
  <2> QED BY <2>1, Zenon
<1> DEFINE made == run[MAX_CALLS]
<1>2. RunCall(m, call) = IF made.calls = << >> THEN made.s ELSE [made.s EXCEPT !.given_up = TRUE]
  BY DEF RunCall, CutOff
<1> HIDE DEF run, r0
<1> DEFINE Good(r) == ResultFits(z, r) /\ (Flushing(z, r0) => Flushing(z, r))
           T == {n \in Nat : n \in 0..MAX_CALLS => Good(run[n])}
<1>3. 0 \in T
  <2>1. Good(r0)  BY DEF r0
  <2> HIDE DEF Good
  <2> QED BY <1>1, <2>1, CallsAssumption
<1>4. ASSUME NEW n \in Nat, n \in T PROVE n + 1 \in T
  <2>1. n + 1 \in 0..MAX_CALLS => n \in 0..MAX_CALLS /\ run[n + 1] = NextCall(run[n])
    BY <1>1, CallsAssumption
  <2>2. n + 1 \in 0..MAX_CALLS => Good(run[n + 1])  BY <1>4, <2>1, NextCallFits, NextCallFlushes
  <2> HIDE DEF Good
  <2> QED BY <2>2
<1>5. Good(run[MAX_CALLS])
  <2> HIDE DEF T
  <2>1. \A n \in Nat : n \in T  BY <1>3, <1>4, Induction
  <2>2. MAX_CALLS \in T  BY <2>1, CallsAssumption
  <2> HIDE DEF Good
  <2> QED BY <2>2, CallsAssumption DEF T
<1> HIDE DEF made
<1>6. Good(made)  BY <1>5 DEF made
<1>7. Runs(z, m, call, made)  BY <1>2, <1>6, Zenon DEF r0, Runs
<1> QED BY <1>7

\* Calls are given up: nothing is promised until everything is cleared.
LEMMA GivenUpEven ==
  ASSUME NEW z, NEW m, Fit(z, m), ReportsOK(z, m) PROVE Even(z, [m EXCEPT !.given_up = TRUE])
<1> DEFINE b == [m EXCEPT !.given_up = TRUE]
<1>1. Beside("given_up", m, b) /\ b.given_up = TRUE  BY FitFields DEF Beside, Fields
<1> HIDE DEF b
<1>2. Fit(z, b)  BY <1>1 DEF Beside, Fields, Fit, PartsFit
<1>3. ComingReport(z, b) = ComingReport(z, m)  BY <1>1 DEF Beside, Fields, ComingReport
<1>4. ReportsOK(z, b)  BY <1>1, <1>3 DEF Beside, Fields, ReportsOK
<1>5. Even(z, b)  BY <1>1, <1>2, <1>4 DEF Even, Agreed
<1> QED BY <1>5 DEF b

LEMMA ResultReports == ASSUME NEW z, NEW r, ResultFits(z, r) PROVE Fit(z, r.s) /\ ReportsOK(z, r.s)
  BY DEF ResultFits, List, Patient, Running, Urgent, Tidy, Owes, Taken, Owing

LEMMA NothingLeft == ASSUME NEW z, NEW r, ResultFits(z, r), r.calls = << >> PROVE Tidy(z, r.s)
<1>1. CASE Patient(z, r.s, r.calls)  BY <1>1 DEF Patient
<1>2. CASE Running(z, r.s, r.calls)
  <2>1. PICK c, q : r.calls = <<c>> \o q /\ Later(z.keyboard, q)  BY <1>2, Zenon DEF Running
  <2>2. r.calls # << >>  BY <2>1, HeadOfCalls, Zenon
  <2> QED BY <2>2
<1>3. CASE Urgent(z, r.s, r.calls)
  <2>1. PICK c, q : r.calls = <<c>> \o q /\ Later(z.keyboard, q)  BY <1>3, Zenon DEF Urgent
  <2>2. r.calls # << >>  BY <2>1, HeadOfCalls, Zenon
  <2> QED BY <2>2
<1> QED BY <1>1, <1>2, <1>3 DEF ResultFits, List

LEMMA RunCallTidy ==
  ASSUME NEW z, NEW m, NEW call, ResultFits(z, Calls(m, <<call>>)) PROVE Tidy(z, RunCall(m, call))
<1>0. PICK r : Runs(z, m, call, r)  BY RunCallFits
<1>1. /\ ResultFits(z, r)
      /\ RunCall(m, call) = IF r.calls = << >> THEN r.s ELSE [r.s EXCEPT !.given_up = TRUE]
  BY <1>0 DEF Runs
<1>2. Fit(z, r.s) /\ ReportsOK(z, r.s)  BY <1>1, ResultReports
<1>3. Even(z, [r.s EXCEPT !.given_up = TRUE])  BY <1>2, GivenUpEven
<1>4. r.calls = << >> => Tidy(z, r.s)  BY <1>1, NothingLeft
<1> QED BY <1>1, <1>3, <1>4, EvenTidy

\* run_action
LEMMA RunActionTidy ==
  ASSUME NEW z, NEW m, Tidy(z, m), NEW action, KeepsCode(z.keyboard, action), NEW is_down \in BOOLEAN
  PROVE  Tidy(z, RunAction(m, action, is_down))
<1>1. CASE IsMacro(m, action)
  <2> DEFINE c == ActionCall(action, is_down)
  <2>1. LaterFits(z.keyboard, c)  BY ActionCallFits
  <2>2. RunAction(m, action, is_down) = RunCall(m, c)  BY <1>1 DEF RunAction
  <2> HIDE DEF c
  <2>3. ResultFits(z, Calls(m, <<c>>))  BY <2>1, OneLater, PatientFits
  <2> QED BY <2>2, <2>3, RunCallTidy
<1>2. CASE ~ IsMacro(m, action)
  <2>1. RunAction(m, action, is_down) = BasicAction(m, action, is_down)  BY <1>2 DEF RunAction
  <2> QED BY <2>1, BasicActionTidy
<1> QED BY <1>1, <1>2

\* next_macro_seq
LEMMA NextMacroSeqEven ==
  ASSUME NEW z, NEW m, Even(z, m), m.macro # Noop
  PROVE  Even(z, NextMacroSeq(m, m.macro.location, m.macro.rem, m.macro.mode))
<1> DEFINE c == SequenceCall(m.macro.location, m.macro.rem, m.macro.mode, Len(m.frames))
           r0 == Calls(m, <<c>>)
<1>1. m.frames # << >> /\ RunFits(z.keyboard, m.macro)  BY DEF Even, Fit, PartsFit, MacrosFit, MacroFits
<1>2. Len(m.frames) \in Nat \ {0}
  <2>1. PICK S : m.frames \in Seq(S)  BY DEF Even, Fit, PartsFit, MacrosFit
  <2> QED BY <1>1, <2>1, EmptySeq
<1>3. NextMacroSeq(m, m.macro.location, m.macro.rem, m.macro.mode) = RunCall(m, c)  BY DEF NextMacroSeq
<1>4. /\ DOMAIN c = {"call", "location", "rem", "mode", "depth"} /\ c.call = "sequence"
      /\ c.location = m.macro.location /\ c.rem = m.macro.rem /\ c.depth = Len(m.frames)
  BY DEF SequenceCall
<1> HIDE DEF c
<1>5. CallFits(z.keyboard, c)  BY <1>1, <1>2, <1>4 DEF CallFits, RunFits
<1>6. ResultFits(z, r0)  BY <1>1, <1>4, <1>5, EvenTidy, RunningFits
<1>7. Flushing(z, r0)
  <2>1. r0.s = m /\ r0.calls = <<c>>  BY DEF Calls
  <2> HIDE DEF r0
  <2> QED BY <1>4, <2>1 DEF Flushing
<1>11. PICK r : Runs(z, m, c, r)  BY <1>6, RunCallFits
<1>8. /\ ResultFits(z, r) /\ Flushing(z, r)
      /\ RunCall(m, c) = IF r.calls = << >> THEN r.s ELSE [r.s EXCEPT !.given_up = TRUE]
  BY <1>7, <1>11 DEF Runs
<1>9. Even(z, [r.s EXCEPT !.given_up = TRUE])  BY <1>8, ResultReports, GivenUpEven
<1>10. r.calls = << >> => Even(z, r.s)  BY <1>8 DEF Flushing, EndsWithRun
<1> QED BY <1>3, <1>8, <1>9, <1>10

-----------------------------------------------------------------------------
(***************************************************************************)
(* The handlers.  Each begins and ends with no change buffered.            *)
(***************************************************************************)
\* key_switch_1, of a key that goes down ...
LEMMA KeyDownEven ==
  ASSUME NEW z, NEW m, Even(z, m), NEW k, NEW kc, ActionFits(z.keyboard, kc)
  PROVE  Even(z, KeyDown(m, k, kc))
<1> DEFINE a == [m EXCEPT !.active[k.key] = kc]
           b == [a EXCEPT !.reported = 0]
           c == WriteModifiers(b, kc.mods, -1, TRUE)
           d == RunAction(c, kc.code, TRUE)
           e == LeaveModifiers(d, kc.mods)
           f == [e EXCEPT !.reported = 0]
<1>1. KeyDown(m, k, kc) = IF kc = NoAction THEN m ELSE Flush(f, FALSE)  BY DEF KeyDown
<1>2. kc.mods \in SUBSET Modifiers /\ KeepsCode(z.keyboard, kc.code)  BY DEF ActionFits
<1>3. Kept(z, m, a)  BY ActiveKept DEF Even
<1> HIDE DEF a
<1>4. Kept(z, a, b)  BY <1>3, ReportedKept DEF Kept
<1> HIDE DEF b
<1>5. Tidy(z, b)  BY <1>3, <1>4, KeptAll, EvenTidy
<1>6. Tidy(z, c)  BY <1>2, <1>5, TakesTidy
<1> HIDE DEF c
<1>7. Tidy(z, d)  BY <1>2, <1>6, RunActionTidy
<1> HIDE DEF d
<1>8. Owes(z, e)  BY <1>2, <1>7, GivesOwes, TidyOwes DEF LeaveModifiers
<1> HIDE DEF e
<1>9. Kept(z, e, f)  BY <1>8, ReportedKept DEF Owes
<1> HIDE DEF f
<1>10. Even(z, Flush(f, FALSE))  BY <1>8, <1>9, KeptAll, FlushEven
<1> QED BY <1>1, <1>10

LEMMA OneshotUpOwes == ASSUME NEW z, NEW m, Owes(z, m) PROVE Owes(z, OneshotUp(m))
<1> DEFINE o == m.oneshot
<1>0. Fit(z, m) /\ OneshotFits(o)  BY DEF Owes, Fit, PartsFit
<1>1. CASE o.type = "wait_up"
  <2> DEFINE q == [o EXCEPT !.type = "ready"]
  <2>1. o # NoOneshot  BY <1>1 DEF NoOneshot
  <2>2. OneshotFits(q)  BY <1>0, <2>1 DEF OneshotFits
  <2>3. OneshotUp(m) = [m EXCEPT !.oneshot = q]  BY <1>1 DEF OneshotUp
  <2> HIDE DEF q
  <2>4. Kept(z, m, [m EXCEPT !.oneshot = q])  BY <1>0, <2>2, OneshotKept
  <2> QED BY <2>3, <2>4, KeptAll
<1>2. CASE o.type = "ready"
  <2> DEFINE b == [m EXCEPT !.oneshot = NoOneshot]
  <2>1. o # NoOneshot  BY <1>2 DEF NoOneshot
  <2>2. o.layer \in 0..255  BY <1>0, <2>1 DEF OneshotFits
  <2>3. OneshotUp(m) = PopLayer(b, o.layer)  BY <1>2 DEF OneshotUp
  <2>4. OneshotFits(NoOneshot)  BY DEF OneshotFits
  <2>5. Kept(z, m, b)  BY <1>0, <2>4, OneshotKept
  <2> HIDE DEF b
  <2>6. Owes(z, b)  BY <2>5, KeptAll
  <2> QED BY <2>2, <2>3, <2>6, PopLayerTells
<1>3. CASE o.type # "wait_up" /\ o.type # "ready"  BY <1>3 DEF OneshotUp
<1> QED BY <1>1, <1>2, <1>3

\* ... and of one that goes up.
LEMMA KeyUpEven ==
  ASSUME NEW z, NEW m, Even(z, m), NEW k, NEW kc, ActionFits(z.keyboard, kc)
  PROVE  Even(z, KeyUp(m, k, kc))
<1> DEFINE a == [m EXCEPT !.active[k.key] = NoAction]
           b == [a EXCEPT !.reported = 0]
           c == RunAction(b, kc.code, FALSE)
           d == RestoreModifiers(c, kc.mods)
           e == OneshotUp(d)
           f == [e EXCEPT !.reported = 0]
<1>1. KeyUp(m, k, kc) = Flush(f, FALSE)  BY DEF KeyUp, Up
<1>2. kc.mods \in SUBSET Modifiers /\ KeepsCode(z.keyboard, kc.code)  BY DEF ActionFits
<1>3. ActionFits(z.keyboard, NoAction)  BY DEF ActionFits, NoAction, KeepsCode
<1>4. Kept(z, m, a)  BY <1>3, ActiveKept DEF Even
<1> HIDE DEF a
<1>5. Kept(z, a, b)  BY <1>4, ReportedKept DEF Kept
<1> HIDE DEF b
<1>6. Tidy(z, b)  BY <1>4, <1>5, KeptAll, EvenTidy
<1>7. Tidy(z, c)  BY <1>2, <1>6, RunActionTidy
<1> HIDE DEF c
<1>8. Owes(z, d)  BY <1>2, <1>7, GivesOwes, TidyOwes DEF RestoreModifiers
<1> HIDE DEF d
<1>9. Owes(z, e)  BY <1>8, OneshotUpOwes
<1> HIDE DEF e
<1>10. Kept(z, e, f)  BY <1>9, ReportedKept DEF Owes
<1> HIDE DEF f
<1>11. Even(z, Flush(f, FALSE))  BY <1>9, <1>10, KeptAll, FlushEven
<1> QED BY <1>1, <1>11

LEMMA KeySwitch1Even ==
  ASSUME NEW z, NEW m, Even(z, m), NEW k, KeyFits(z.keyboard, k) PROVE Even(z, KeySwitch1(m, k))
<1>0. k.key \in z.keyboard.keys  BY DEF KeyFits
<1>1. ActionFits(z.keyboard, FindCode(m, k.key))  BY <1>0, FindCodeFits DEF Even
<1>2. ActionFits(z.keyboard, m.active[k.key])  BY <1>0 DEF Even, Fit, PartsFit, ActiveFits
<1> QED BY <1>1, <1>2, KeyDownEven, KeyUpEven DEF KeySwitch1

\* A tap dance ends with the code it has come to.
LEMMA DanceKeyTidy ==
  ASSUME NEW z, NEW m, Tidy(z, m), NEW code, KeepsCode(z.keyboard, code)
  PROVE  LET put == DanceKey(m, code) IN Tidy(z, put.s)
<1> DEFINE kc == [code |-> code, mods |-> m.td.mods]
           b == [m EXCEPT !.active[m.last.key] = kc]
           k == [b.last EXCEPT !.down = FALSE]
           put == DanceKey(m, code)
<1>0. Fit(z, m) /\ m.td.mods \in SUBSET Modifiers  BY DEF Tidy, Fit, PartsFit, DanceFits
<1>1. ActionFits(z.keyboard, kc)  BY <1>0 DEF ActionFits
<1>2. put = IF b.last.down THEN [ok |-> TRUE, s |-> b] ELSE PushMemo(b, KeyMemo(k))  BY DEF DanceKey
<1> HIDE DEF kc, put
<1>3. Kept(z, m, b)  BY <1>0, <1>1, ActiveKept
<1> HIDE DEF b
<1>4. Tidy(z, b)  BY <1>3, KeptAll
<1>5. KeyFits(z.keyboard, k)
  <2>1. KeyFits(z.keyboard, b.last)  BY <1>4 DEF Tidy, Fit
  <2> QED BY <2>1 DEF KeyFits
<1> HIDE DEF k
<1>6. MemoFits(z.keyboard, KeyMemo(k))  BY <1>5, KeyMemoFits
<1> DEFINE memo == KeyMemo(k)
           later == PushMemo(b, memo)
<1>7. Tidy(z, later.s)
  <2> HIDE DEF memo
  <2>1. MemoFits(z.keyboard, memo)  BY <1>6 DEF memo
  <2> QED BY <1>4, <2>1, PushMemoFits
<1> HIDE DEF later
<1>8. put = IF b.last.down THEN [ok |-> TRUE, s |-> b] ELSE later  BY <1>2 DEF later
<1>9. Tidy(z, put.s)  BY <1>4, <1>7, <1>8
<1> QED BY <1>9 DEF put

\* An action is run unless a memo was refused.
LEMMA RunWhenPutTidy ==
  ASSUME NEW z, NEW put, Tidy(z, put.s), NEW code, KeepsCode(z.keyboard, code)
  PROVE  Tidy(z, RunWhenPut(put, code))
  BY RunActionTidy DEF RunWhenPut

\* tapdance_timeout
LEMMA TapDanceTimeoutEven ==
  ASSUME NEW z, NEW m, Even(z, m), m.td.location # 0 PROVE Even(z, TapDanceTimeout(m))
<1> DEFINE code == MacroCode(m, m.td.location - 1)
           td == [m.td EXCEPT !.location = 0, !.wait_until = NEVER]
           a == [m EXCEPT !.td.location = 0, !.td.wait_until = NEVER]
           b == SetWaitTime(a)
           c == WriteModifiers(b, m.td.mods, -1, TRUE)
           put == DanceKey(c, code)
           d == RunWhenPut(put, code)
<1>0. Fit(z, m) /\ DanceFits(z.keyboard, m.td)  BY DEF Even, Fit, PartsFit
<1>1. TapDanceTimeout(m) = Flush(d, FALSE)  BY DEF TapDanceTimeout
<1>2. KeepsCode(z.keyboard, code)
  <2>1. m.td.location \in Nat /\ m.td.rem \in Nat /\ KeepsCodes(z.keyboard, m.td.location - 1, m.td.location + m.td.rem - 1)
    BY <1>0 DEF DanceFits
  <2>2. m.td.location - 1 \in (m.td.location - 1)..(m.td.location + m.td.rem - 1)  BY <2>1
  <2>3. code = z.keyboard.codes[m.td.location - 1]  BY <1>0, FitFields DEF MacroCode
  <2> QED BY <2>1, <2>2, <2>3 DEF KeepsCodes
<1>3. DanceFits(z.keyboard, td)  BY <1>0 DEF DanceFits
<1>4. m.td.mods \in SUBSET Modifiers  BY <1>0 DEF DanceFits
<1>5. a = [m EXCEPT !.td = td]  BY <1>0, FitFields
<1> HIDE DEF a, td, code
<1>6. Kept(z, m, a)
  <2>1. Kept(z, m, [m EXCEPT !.td = td])  BY <1>0, <1>3, DanceKept
  <2> QED BY <1>5, <2>1, Zenon
<1>7. Kept(z, a, b)  BY <1>6, WaitKept DEF Kept
<1> HIDE DEF b
<1>8. Tidy(z, b)  BY <1>6, <1>7, KeptAll, EvenTidy
<1>9. Tidy(z, c)  BY <1>4, <1>8, TakesTidy
<1> HIDE DEF c
<1>10. Tidy(z, put.s)  BY <1>2, <1>9, DanceKeyTidy
<1> HIDE DEF put
<1>11. Tidy(z, d)  BY <1>2, <1>10, RunWhenPutTidy
<1> HIDE DEF d
<1> QED BY <1>1, <1>11, TidyOwes, FlushEven

LEMMA PutKeyEven ==
  ASSUME NEW z, NEW m, Even(z, m), NEW k, KeyFits(z.keyboard, k)
  PROVE  LET put == PushMemo(m, KeyMemo(k)) IN Even(z, put.s)
<1> DEFINE memo == KeyMemo(k)
<1>1. MemoFits(z.keyboard, memo)  BY KeyMemoFits
<1> HIDE DEF memo
<1>2. LET put == PushMemo(m, memo) IN Even(z, put.s)  BY <1>1, PushMemoFits, EvenTidy
<1> QED BY <1>2 DEF memo

\* A dual action is decided.
LEMMA Undecided ==
  ASSUME NEW z, NEW m, Fit(z, m), m.dual.type # "no_dual"
  PROVE  KeyFits(z.keyboard, m.dual.key) /\ KeepsCode(z.keyboard, m.dual.tap) /\ KeepsCode(z.keyboard, m.dual.hold)
<1>1. m.dual # NoDual  BY DEF NoDual
<1> QED BY <1>1 DEF Fit, PartsFit, DualFits

LEMMA Decided ==
  ASSUME NEW z, NEW m, Even(z, m), NEW k, KeyFits(z.keyboard, k)
  PROVE  Even(z, [m EXCEPT !.dual = NoDual, !.last = k])
<1> DEFINE a == [m EXCEPT !.dual = NoDual]
           b == [m EXCEPT !.dual = NoDual, !.last = k]
<1>1. DualFits(z.keyboard, NoDual)  BY DEF DualFits
<1>2. Kept(z, m, a)  BY <1>1, DualKept DEF Even
<1>3. b = [a EXCEPT !.last = k]  OBVIOUS
<1> HIDE DEF a, b
<1>4. Kept(z, a, b)
  <2>1. Kept(z, a, [a EXCEPT !.last = k])  BY <1>2, LastFits DEF Kept, Fit
  <2> QED BY <1>3, <2>1, Zenon
<1> QED BY <1>2, <1>4, KeptAll DEF b

LEMMA HoldDualEven ==
  ASSUME NEW z, NEW m, Even(z, m), m.dual.type # "no_dual", NEW k, KeyFits(z.keyboard, k)
  PROVE  Even(z, HoldDual(m, k))
<1> DEFINE put == PushMemo(m, KeyMemo(k))
           a == IF m.dual.key.key = k.key THEN m ELSE put.s
           b == [a EXCEPT !.dual = NoDual, !.last = m.dual.key]
           c == RunAction(b, m.dual.hold, TRUE)
<1>1. HoldDual(m, k) = Flush(c, FALSE)  BY DEF HoldDual
<1>2. KeyFits(z.keyboard, m.dual.key) /\ KeepsCode(z.keyboard, m.dual.hold)  BY Undecided DEF Even
<1>3. Even(z, put.s)  BY PutKeyEven
<1> HIDE DEF put
<1>4. Even(z, a)  BY <1>3
<1> HIDE DEF a
<1>5. Even(z, b)  BY <1>2, <1>4, Decided
<1> HIDE DEF b
<1>6. Tidy(z, c)  BY <1>2, <1>5, EvenTidy, RunActionTidy
<1> HIDE DEF c
<1> QED BY <1>1, <1>6, TidyOwes, FlushEven

LEMMA TapDualEven ==
  ASSUME NEW z, NEW m, Even(z, m), m.dual.type # "no_dual" PROVE Even(z, TapDual(m))
<1> DEFINE a == [m EXCEPT !.dual = NoDual, !.last = m.dual.key]
           memo == ActionMemo(m.dual.tap, FALSE)
           put == PushMemo(a, memo)
           c == RunWhenPut(put, m.dual.tap)
<1>1. TapDual(m) = Flush(c, FALSE)  BY DEF TapDual
<1>2. KeyFits(z.keyboard, m.dual.key) /\ KeepsCode(z.keyboard, m.dual.tap)  BY Undecided DEF Even
<1>3. Even(z, a)  BY <1>2, Decided
<1> HIDE DEF a
<1>4. MemoFits(z.keyboard, memo)  BY <1>2, ActionMemoFits
<1> HIDE DEF memo
<1>5. Tidy(z, put.s)  BY <1>3, <1>4, EvenTidy, PushMemoFits
<1> HIDE DEF put
<1>6. Tidy(z, c)  BY <1>2, <1>5, RunWhenPutTidy
<1> HIDE DEF c
<1> QED BY <1>1, <1>6, TidyOwes, FlushEven

\* key_switch
LEMMA CountedEvent ==
  ASSUME NEW z, NEW m, Even(z, m), m.dual.type # "no_dual", NEW k
  PROVE  Even(z, [m EXCEPT !.dual = CountEvent(@, k)])
<1> DEFINE d == CountEvent(m.dual, k)
<1>1. DualFits(z.keyboard, d)
  <2>1. m.dual # NoDual  BY DEF NoDual
  <2> QED BY <2>1 DEF Even, Fit, PartsFit, DualFits, CountEvent
<1>2. [m EXCEPT !.dual = CountEvent(@, k)] = [m EXCEPT !.dual = d]  OBVIOUS
<1> HIDE DEF d
<1>3. Kept(z, m, [m EXCEPT !.dual = d])  BY <1>1, DualKept DEF Even
<1>4. Even(z, [m EXCEPT !.dual = d])  BY <1>3, KeptAll
<1> QED BY <1>2, <1>4, Zenon

LEMMA DualKeyEven ==
  ASSUME NEW z, NEW m, PartsFit(z, m), Agreed(z, m), NEW k, KeyFits(z.keyboard, k)
  PROVE  Even(z, DualKey(m, k))
<1> DEFINE a == [m EXCEPT !.last = k]
           b == [a EXCEPT !.dual = CountEvent(@, k)]
           put == PushMemo(b, KeyMemo(k))
<1>1. Kept(z, m, a)  BY LastFits
<1>2. a.dual = m.dual  BY DEF PartsFit, Fields
<1>3. Even(z, a)  BY <1>1, SameReportsKeep DEF Kept, Even
<1>4. DualKey(m, k) \in {KeySwitch1(a, k), TapDual(a), put.s, HoldDual(a, k)}
      /\ (DualKey(m, k) # KeySwitch1(a, k) => m.dual.type # "no_dual")
  <2>1. a = [m EXCEPT !.last = k] /\ b = [a EXCEPT !.dual = CountEvent(@, k)] /\ put = PushMemo(b, KeyMemo(k))  OBVIOUS
  <2> DEFINE same == m.dual.type = "wait" /\ m.dual.key.key = k.key
             other == m.dual.type = "wait" /\ m.dual.key.key # k.key /\ m.dual.count # 0
             r == DualKey(m, k)
  <2>2. r = CASE m.dual.type = "no_dual" -> KeySwitch1(a, k)
              [] same -> TapDual(a)
              [] other -> put.s
              [] OTHER -> HoldDual(a, k)
    BY Zenon DEF DualKey
  <2> HIDE DEF a, b, put, r
  <2>3. m.dual.type = "no_dual" => ~ same /\ ~ other  OBVIOUS
  <2>4. same => ~ other  OBVIOUS
  <2> HIDE DEF same, other
  <2>5. m.dual.type = "no_dual" => r = KeySwitch1(a, k)  BY <2>2, <2>3
  <2>6. m.dual.type # "no_dual" => r \in {TapDual(a), put.s, HoldDual(a, k)}  BY <2>2, <2>4
  <2>7. r \in {KeySwitch1(a, k), TapDual(a), put.s, HoldDual(a, k)} /\ (r # KeySwitch1(a, k) => m.dual.type # "no_dual")
    BY <2>5, <2>6
  <2> QED BY <2>7 DEF r
<1> HIDE DEF a
<1>5. Even(z, KeySwitch1(a, k))  BY <1>3, KeySwitch1Even
<1>6. ASSUME m.dual.type # "no_dual"
      PROVE  Even(z, TapDual(a)) /\ Even(z, HoldDual(a, k)) /\ Even(z, put.s)
  <2>1. a.dual.type # "no_dual"  BY <1>2, <1>6
  <2>2. Even(z, b)  BY <1>3, <2>1, CountedEvent
  <2> HIDE DEF b
  <2>3. Even(z, put.s)  BY <2>2, PutKeyEven
  <2> HIDE DEF put
  <2> QED BY <1>3, <2>1, <2>3, TapDualEven, HoldDualEven
<1> HIDE DEF put
<1> QED BY <1>4, <1>5, <1>6

LEMMA KeySwitchEven ==
  ASSUME NEW z, NEW m, PartsFit(z, m), Agreed(z, m), m.td.location # 0 => Even(z, m),
         NEW k, KeyFits(z.keyboard, k)
  PROVE  Even(z, KeySwitch(m, k))
<1> DEFINE a == TapDanceTimeout(m)
           put == PushMemo(a, KeyMemo(k))
           b == [m EXCEPT !.last = k]
<1>1. KeySwitch(m, k) \in {DualKey(m, k), put.s, KeySwitch1(b, k)}
      /\ (KeySwitch(m, k) # DualKey(m, k) => m.td.location # 0)
  <2>1. CASE m.td.location = 0  BY <2>1 DEF KeySwitch
  <2>2. CASE m.td.location # 0  BY <2>2 DEF KeySwitch
  <2> QED BY <2>1, <2>2
<1>2. Even(z, DualKey(m, k))  BY DualKeyEven
<1>3. ASSUME m.td.location # 0 PROVE Even(z, put.s) /\ Even(z, KeySwitch1(b, k))
  <2>1. Even(z, a)  BY <1>3, TapDanceTimeoutEven
  <2> HIDE DEF a
  <2>2. Even(z, put.s)  BY <2>1, PutKeyEven
  <2> HIDE DEF put
  <2>3. Kept(z, m, b)  BY LastFits
  <2> HIDE DEF b
  <2>4. Even(z, b)  BY <1>3, <2>3, KeptAll
  <2> QED BY <2>2, <2>4, KeySwitch1Even
<1> HIDE DEF put, b
<1> QED BY <1>1, <1>2, <1>3

\* dual_action_expired
LEMMA DualExpiredEven ==
  ASSUME NEW z, NEW m, Even(z, m), m.dual.type # "no_dual" PROVE Even(z, DualExpired(m))
<1> DEFINE d == [m.dual EXCEPT !.type = "hold"]
           b == [m EXCEPT !.dual = d]
<1>1. KeyFits(z.keyboard, m.dual.key)  BY Undecided DEF Even
<1>2. DualFits(z.keyboard, d)
  <2>1. m.dual # NoDual  BY DEF NoDual
  <2> QED BY <2>1 DEF Even, Fit, PartsFit, DualFits
<1>3. DualExpired(m) = KeySwitch(b, m.dual.key)  BY DEF DualExpired
<1> HIDE DEF d
<1>4. Kept(z, m, b)  BY <1>2, DualKept DEF Even
<1> HIDE DEF b
<1>5. Even(z, b)  BY <1>4, KeptAll
<1> QED BY <1>1, <1>3, <1>5, KeySwitchEven DEF Even, Fit

\* The mouse events are sent when no change of a modifier is buffered.
LEMMA MouseMovesEven == ASSUME NEW z, NEW m, Even(z, m) PROVE Even(z, MouseMoves(m))
<1> DEFINE pending == Pending(m.mouse, m.now)
           a == [m EXCEPT !.mouse = pending.mouse]
           Sent(b, axis) == SendTicks(b, axis, pending.ticks[axis])
           b0 == Sent(a, 0)
           b1 == Sent(b0, 1)
           b2 == Sent(b1, 2)
           b3 == Sent(b2, 3)
<1>1. MouseMoves(m) = b3  BY DEF MouseMoves
<1> HIDE DEF pending
<1>2. Kept(z, m, a)  BY MouseKept DEF Even
<1>3. ASSUME NEW b, Even(z, b), NEW axis PROVE Even(z, Sent(b, axis))
  <2>1. Neutral(MouseMove(axis, pending.ticks[axis], b.mouse.keys))  BY NeutralEvents
  <2>2. Even(z, Send(b, MouseMove(axis, pending.ticks[axis], b.mouse.keys)))  BY <1>3, <2>1, SendEven
  <2> QED BY <1>3, <2>2 DEF SendTicks
<1> HIDE DEF a, Sent
<1>4. Even(z, a)  BY <1>2, KeptAll
<1>5. Even(z, b0)  BY <1>3, <1>4
<1> HIDE DEF b0
<1>6. Even(z, b1)  BY <1>3, <1>5
<1> HIDE DEF b1
<1>7. Even(z, b2)  BY <1>3, <1>6
<1> HIDE DEF b2
<1>8. Even(z, b3)  BY <1>3, <1>7
<1> HIDE DEF b3
<1> QED BY <1>1, <1>8

\* check_time
LEMMA CheckTimeEven ==
  ASSUME NEW z, NEW m, Even(z, m), m.now \in Nat, m.now < NEVER PROVE Even(z, CheckTime(m))
<1> DEFINE a == IF m.now < m.wait_time THEN m
                ELSE IF NextEventTime(m.mouse) <= m.now THEN MouseMoves(m)
                ELSE IF WaitUntil(m.dual) <= m.now THEN DualExpired(m)
                ELSE IF m.td.wait_until <= m.now THEN TapDanceTimeout(m) ELSE m
           next == NextMacroSeq(m, m.macro.location, m.macro.rem, m.macro.mode)
<1>1. /\ m.wait_time = NEVER => CheckTime(m) = m
      /\ m.wait_time # NEVER /\ m.macro = Noop => CheckTime(m) = SetWaitTime(a)
      /\ m.wait_time # NEVER /\ m.macro # Noop => CheckTime(m) = next
  BY DEF CheckTime
<1>2. NEVER \in Nat  BY Ends
<1>3. WaitUntil(m.dual) <= m.now => m.dual.type # "no_dual"  BY <1>2 DEF WaitUntil
<1>4. m.td.wait_until <= m.now => m.td.location # 0  BY <1>2 DEF Even, Fit, PartsFit, DanceFits
<1>5. Even(z, MouseMoves(m))  BY MouseMovesEven
<1>6. WaitUntil(m.dual) <= m.now => Even(z, DualExpired(m))  BY <1>3, DualExpiredEven
<1>7. m.td.wait_until <= m.now => Even(z, TapDanceTimeout(m))  BY <1>4, TapDanceTimeoutEven
<1>8. Even(z, a)  BY <1>5, <1>6, <1>7
<1> HIDE DEF a
<1>9. Even(z, SetWaitTime(a))  BY <1>8, WaitKept, KeptAll DEF Even
<1>10. m.macro # Noop => Even(z, next)  BY NextMacroSeqEven
<1> HIDE DEF next
<1> QED BY <1>1, <1>9, <1>10

\* run_memo
LEMMA RunMemoEven == ASSUME NEW z, NEW m, Even(z, m) PROVE Even(z, RunMemo(m))
<1> DEFINE memos == IF m.memos = << >> THEN m.memos ELSE Tail(m.memos)
           n == m.memo_count - 1
           a == [m EXCEPT !.memo_count = @ - 1, !.memos = IF @ = << >> THEN @ ELSE Tail(@)]
           memo == Head(m.memos)
           k == [key |-> memo.key, down |-> memo.down, time |-> memo.time]
           b == RunAction(a, memo.code, memo.down)
<1>1. RunMemo(m) = IF m.memos = << >> THEN a
                   ELSE IF memo.type = "key" THEN KeySwitch(a, k) ELSE Flush(b, FALSE)
  BY DEF RunMemo
<1>2. MemosFit(z.keyboard, m.memos)  BY DEF Even, Fit, PartsFit
<1>3. MemosFit(z.keyboard, memos)  BY <1>2, MemosTail
<1>4. m.memos # << >> => MemoFits(z.keyboard, memo)  BY <1>2, MemosTail
<1>5. a = [m EXCEPT !.memos = memos, !.memo_count = n]  BY FitFields DEF Even, Fields
<1> HIDE DEF memos, n, a, memo
<1>6. Kept(z, m, a)
  <2>1. Kept(z, m, [m EXCEPT !.memos = memos, !.memo_count = n])  BY <1>3, MemosKept DEF Even
  <2> QED BY <1>5, <2>1, Zenon
<1>7. Even(z, a)  BY <1>6, KeptAll
<1>8. m.memos # << >> /\ memo.type = "key" => Even(z, KeySwitch(a, k))
  <2> SUFFICES ASSUME m.memos # << >>, memo.type = "key" PROVE Even(z, KeySwitch(a, k))  OBVIOUS
  <2>1. KeyFits(z.keyboard, k)  BY <1>4 DEF MemoFits, KeyFits
  <2> HIDE DEF k
  <2> QED BY <1>7, <2>1, KeySwitchEven DEF Even, Fit
<1>9. m.memos # << >> /\ memo.type # "key" => Even(z, Flush(b, FALSE))
  <2> SUFFICES ASSUME m.memos # << >>, memo.type # "key" PROVE Even(z, Flush(b, FALSE))  OBVIOUS
  <2>1. KeepsCode(z.keyboard, memo.code) /\ memo.down \in BOOLEAN  BY <1>4 DEF MemoFits
  <2>2. Tidy(z, b)  BY <1>7, <2>1, EvenTidy, RunActionTidy
  <2> HIDE DEF b
  <2> QED BY <2>2, TidyOwes, FlushEven
<1> HIDE DEF b, k
<1> QED BY <1>1, <1>7, <1>8, <1>9

-----------------------------------------------------------------------------
(***************************************************************************)
(* The modifiers between two handlers.                                     *)
(***************************************************************************)
\* A mapper that has not handled any key event.
Fresh(m) ==
  m.memos = << >> /\ m.memo_count = 0 /\ m.macro = Noop /\ m.td.location = 0 /\ m.wait_time = NEVER

AtRest(z, m) == PartsFit(z, m) /\ Agreed(z, m) /\ (KeyFits(z.keyboard, m.last) \/ Fresh(m))

LEMMA RestEven ==
  ASSUME NEW z, NEW m, AtRest(z, m)
  PROVE  /\ DOMAIN m = Fields /\ m.keyboard = z.keyboard
         /\ ~ Fresh(m) => Even(z, m)
         /\ m.td.location # 0 => Even(z, m)
  BY DEF AtRest, Fresh, PartsFit, Fit, Even

LEMMA EvenRest == ASSUME NEW z, NEW m, Even(z, m) PROVE AtRest(z, m)
  BY DEF AtRest, Even, Fit

LEMMA RestKept ==
  ASSUME NEW z, NEW a, NEW b, AtRest(z, a), DOMAIN b = Fields,
         \A f \in Fields \ {"now", "reported", "at_sig"} : b[f] = a[f]
  PROVE  AtRest(z, b)
<1>1. /\ b.keyboard = a.keyboard /\ b.stack = a.stack /\ b.memos = a.memos /\ b.macro = a.macro /\ b.frames = a.frames
      /\ b.active = a.active /\ b.oneshot = a.oneshot /\ b.dual = a.dual /\ b.td = a.td
      /\ b.last = a.last /\ b.memo_count = a.memo_count /\ b.wait_time = a.wait_time
  BY DEF Fields
<1>2. SameReports(a, b)  BY DEF SameReports, Fields
<1>3. PartsFit(z, b)  BY <1>1 DEF AtRest, PartsFit
<1>4. Agreed(z, b)  BY <1>2, SameReportsKeep DEF AtRest
<1>5. Fresh(a) => Fresh(b)  BY <1>1 DEF Fresh
<1> QED BY <1>1, <1>3, <1>4, <1>5 DEF AtRest

\* What the handlers see besides the mapper.
Seen == [keyboard |-> Board, report |-> report]

\* The channel from the scanner has events of keys of the keyboard.
KeyEvents == [key : Board.keys, down : BOOLEAN]

ModifiersInv == AtRest(Seen, Begun(s)) /\ scan \in Seq(KeyEvents)

LEMMA NewCountsZero ==
  LET zero == [b \in Modifiers |-> 0] IN zero \in Counts /\ Positive(zero) = {}
<1>1. \A b \in Modifiers : 0 \in I8MIN..I8MAX  BY DEF I8MIN, I8MAX
<1> QED BY <1>1 DEF Counts, Positive

LEMMA NoDanceFits ==
  ASSUME NEW keyboard, KeepsCount(keyboard) PROVE DanceFits(keyboard, NoTapDance)
<1>1. ASSUME NEW id \in DOMAIN keyboard.macros, keyboard.macros[id].type = "tapdance"
      PROVE  0 < keyboard.macros[id].location
  <2> DEFINE mac == keyboard.macros[id]
  <2>1. KeepsMacro(keyboard, mac) /\ mac.len < mac.location  BY <1>1 DEF KeepsCount
  <2>2. mac.len \in Nat /\ mac.location \in Nat  BY <1>1, <2>1 DEF KeepsMacro
  <2> QED BY <2>1, <2>2
<1>2. 0 \in Nat /\ {} \in SUBSET Modifiers  OBVIOUS
<1> QED BY <1>1, <1>2 DEF DanceFits, NoTapDance

LEMMA InitModifiers ==
  ASSUME \A b \in Boards : KeepsCount(Keyboards[b]), Init PROVE ModifiersInv
<1>1. PICK b \in Boards : s = NewMapper(b)  BY DEF Init
<1> DEFINE m == Begun(s)
           zero == [c \in Modifiers |-> 0]
           active == [k \in Keyboards[b].keys |-> NoAction]
<1>2. /\ DOMAIN s = Fields /\ s.keyboard = b /\ s.stack = <<MAIN_BASE>> /\ s.memos = << >> /\ s.macro = Noop
      /\ s.frames = << >> /\ s.active = active /\ s.count = zero /\ s.up = {} /\ s.down = {}
      /\ s.chan = << >> /\ s.given_up = FALSE /\ s.oneshot = NoOneshot /\ s.dual = NoDual /\ s.td = NoTapDance
      /\ s.memo_count = 0 /\ s.wait_time = NEVER
  BY <1>1 DEF NewMapper, Fields
<1>3. Board = Keyboards[b]  BY <1>2 DEF Board
<1>4. m = [s EXCEPT !.keyboard = Board]  BY DEF Begun
<1> HIDE DEF m, active, zero
<1>5. /\ DOMAIN m = Fields /\ m.keyboard = Board /\ m.stack = <<MAIN_BASE>> /\ m.memos = << >> /\ m.macro = Noop
      /\ m.frames = << >> /\ m.active = active /\ m.count = zero /\ m.up = {} /\ m.down = {}
      /\ m.chan = << >> /\ m.given_up = FALSE /\ m.oneshot = NoOneshot /\ m.dual = NoDual /\ m.td = NoTapDance
      /\ m.memo_count = 0 /\ m.wait_time = NEVER
  BY <1>2, <1>4 DEF Fields
<1>6. Seen.keyboard = Board /\ Seen.report = NoReport /\ scan = << >>  BY DEF Seen, Init
<1>7. WellFormed(Board) /\ KeepsCount(Board)
  BY <1>3, MapperAssumption, KeyboardsAssumption
<1>8. KeyboardFits(Seen)  BY <1>6, <1>7 DEF KeyboardFits, IsReport, NoReport
<1>9. m.stack \in Seq(LayerWords(Board))
  <2>1. MAIN_BASE \in 0..255 /\ MAIN_BASE \in 0..MAIN_BASE  BY DEF MAIN_BASE
  <2>2. MAIN_BASE \in LayerWords(Board)  BY <1>7, <2>1, LayerWord DEF KeepsCount
  <2> QED BY <1>5, <2>2
<1>10. ActiveFits(Board, m.active)
  <2>1. ActionFits(Board, NoAction)  BY DEF ActionFits, NoAction, KeepsCode
  <2> QED BY <1>3, <1>5, <2>1 DEF ActiveFits, active
<1> DEFINE S == {}
<1>11. << >> \in Seq(S) /\ \A x \in S : MemoFits(Board, x) /\ MacroFits(Board, x)  BY EmptySeq
<1> HIDE DEF S
<1>12. MemosFit(Board, m.memos)  BY <1>5, <1>11, Zenon DEF MemosFit
<1>13. MacrosFit(Board, m.macro, m.frames)
  <2>1. \E T : m.frames \in Seq(T) /\ \A q \in T : MacroFits(Board, q)  BY <1>5, <1>11, Zenon
  <2> QED BY <1>5, <2>1 DEF MacrosFit, MacroFits
<1>14. DualFits(Board, m.dual) /\ OneshotFits(m.oneshot)  BY <1>5 DEF DualFits, OneshotFits
<1>15. DanceFits(Board, m.td)  BY <1>5, <1>7, NoDanceFits
<1>16. PartsFit(Seen, m)  BY <1>5, <1>6, <1>8, <1>9, <1>10, <1>12, <1>13, <1>14, <1>15 DEF PartsFit
<1>17. ComingReport(Seen, m) = NoReport  BY <1>5, <1>6, OutcomeOfNothing DEF ComingReport
<1>18. zero \in Counts /\ Positive(zero) = {}  BY NewCountsZero DEF zero
<1>19. \E T : m.chan \in Seq(T)  BY <1>5, <1>11, Zenon
<1>20. Agreed(Seen, m)
  <2>1. IsReport(ComingReport(Seen, m)) /\ Told(Seen, m) = {}  BY <1>17 DEF Told, IsReport, NoReport
  <2>2. ReportsOK(Seen, m)  BY <1>5, <1>18, <1>19, <2>1 DEF ReportsOK
  <2> QED BY <1>5, <1>18, <2>1, <2>2 DEF Agreed
<1>21. Fresh(m)  BY <1>5 DEF Fresh, NoTapDance
<1>22. scan \in Seq(KeyEvents)  BY <1>6
<1> QED BY <1>16, <1>20, <1>21, <1>22 DEF ModifiersInv, AtRest, m

-----------------------------------------------------------------------------
(***************************************************************************)
(* The steps.                                                              *)
(***************************************************************************)
\* A handler may begin, now or after it looked at the clock.
LEMMA HandlerAtRest ==
  ASSUME ModifiersInv PROVE AtRest(Seen, Begun(s)) /\ AtRest(Seen, [Begun(s) EXCEPT !.now = clock])
<1> DEFINE a == Begun(s)
           b == [a EXCEPT !.now = clock]
<1>1. AtRest(Seen, a)  BY DEF ModifiersInv
<1> HIDE DEF a
<1>2. DOMAIN a = Fields  BY <1>1, RestEven
<1>3. DOMAIN b = Fields /\ \A f \in Fields \ {"now", "reported", "at_sig"} : b[f] = a[f]  BY <1>2 DEF Fields
<1> HIDE DEF b
<1>4. AtRest(Seen, b)  BY <1>1, <1>3, RestKept
<1> QED BY <1>1, <1>4 DEF a, b

\* What a handler leaves is what the next one begins with.
LEMMA HandlerRests ==
  ASSUME DOMAIN s = Fields, NEW m, AtRest(Seen, m), s' = Settled(m), UNCHANGED report
  PROVE  AtRest(Seen, Begun(s))' /\ Board' = Board
<1> DEFINE n == Begun(s)'
           z == Seen
<1>1. DOMAIN m = Fields /\ m.keyboard = Board  BY RestEven DEF Seen
<1>2. /\ DOMAIN s' = Fields /\ s'.keyboard = s.keyboard
      /\ s' = [m EXCEPT !.keyboard = s.keyboard, !.reported = 0]
  BY <1>1 DEF Settled, Fields
<1>3. Board' = Board  BY <1>2 DEF Board
<1>4. Seen' = z  BY <1>3 DEF Seen
<1>5. n = [s' EXCEPT !.keyboard = Board]  BY <1>3 DEF Begun
<1> HIDE DEF n, z
<1>6. DOMAIN n = Fields /\ \A f \in Fields \ {"now", "reported", "at_sig"} : n[f] = m[f]
  BY <1>1, <1>2, <1>5 DEF Fields
<1>7. AtRest(z, m)  BY DEF z
<1>8. AtRest(z, n)  BY <1>6, <1>7, RestKept
<1> QED BY <1>3, <1>4, <1>8 DEF n

\* The reporter takes an event of the channel: what is to come of the rest is the same.
LEMMA ReporterRests == ASSUME ModifiersInv, Reporter PROVE ModifiersInv'
<1> DEFINE a == Begun(s)
           b == Begun(s)'
           z == Seen
           y == Seen'
<1>0. s.chan # << >> /\ s' = [s EXCEPT !.chan = Tail(@)] /\ report' = Apply(report, Head(s.chan)) /\ scan' = scan
  BY DEF Reporter, typist
<1>1. AtRest(z, a)  BY DEF ModifiersInv
<1>2. DOMAIN a = Fields /\ a.keyboard = z.keyboard /\ z.keyboard = Board /\ z.report = report  BY <1>1, RestEven DEF Seen
<1>3. DOMAIN s = Fields
  <2>1. DOMAIN a = DOMAIN s  BY DEF Begun
  <2> QED BY <1>2, <2>1
<1>4. DOMAIN s' = Fields /\ s'.keyboard = s.keyboard /\ s'.chan = Tail(s.chan)  BY <1>0, <1>3 DEF Fields
<1>5. Board' = Board  BY <1>4 DEF Board
<1>6. a = [s EXCEPT !.keyboard = Board] /\ b = [s' EXCEPT !.keyboard = Board]  BY <1>5 DEF Begun
<1>7. y.keyboard = z.keyboard /\ y.report = Apply(z.report, Head(s.chan))  BY <1>0, <1>5 DEF Seen
<1> HIDE DEF a, b, z, y
<1>8. /\ DOMAIN b = Fields /\ b.chan = Tail(a.chan) /\ a.chan = s.chan
      /\ \A f \in Fields \ {"chan"} : b[f] = a[f]
  BY <1>0, <1>3, <1>6 DEF Fields
<1>9. PICK S : a.chan \in Seq(S)  BY <1>1 DEF AtRest, Agreed, ReportsOK
<1>10. ComingReport(y, b) = ComingReport(z, a)
  BY <1>0, <1>7, <1>8, <1>9, OutcomeTail DEF ComingReport
<1>11. \E T : b.chan \in Seq(T)
  <2>1. Tail(a.chan) \in Seq(S)  BY <1>0, <1>8, <1>9, HeadTailProperties
  <2> QED BY <1>8, <2>1, Zenon
<1>12. /\ b.keyboard = a.keyboard /\ b.stack = a.stack /\ b.memos = a.memos /\ b.macro = a.macro /\ b.frames = a.frames
       /\ b.active = a.active /\ b.oneshot = a.oneshot /\ b.dual = a.dual /\ b.td = a.td
       /\ b.last = a.last /\ b.memo_count = a.memo_count /\ b.wait_time = a.wait_time
       /\ b.count = a.count /\ b.up = a.up /\ b.down = a.down /\ b.given_up = a.given_up
  BY <1>8 DEF Fields
<1>13. KeyboardFits(y)  BY <1>1, <1>7, ApplyIsReport DEF AtRest, PartsFit, KeyboardFits
<1>14. PartsFit(y, b)  BY <1>1, <1>7, <1>8, <1>12, <1>13 DEF AtRest, PartsFit
<1>15. ReportsOK(y, b)  BY <1>1, <1>8, <1>10, <1>11, <1>12 DEF AtRest, Agreed, ReportsOK
<1>16. Agreed(y, b)  BY <1>1, <1>10, <1>12, <1>15 DEF AtRest, Agreed, Told
<1>17. AtRest(y, b)  BY <1>1, <1>7, <1>12, <1>14, <1>16 DEF AtRest, Fresh
<1>18. scan' \in Seq(KeyEvents)'  BY <1>0, <1>5 DEF ModifiersInv, KeyEvents
<1> QED BY <1>17, <1>18 DEF ModifiersInv, y, b

LEMMA ModifiersStep == TimesInv /\ ModifiersInv /\ [Next]_vars => ModifiersInv'
<1> SUFFICES ASSUME TimesInv, ModifiersInv, [Next]_vars PROVE ModifiersInv'  OBVIOUS
<1> DEFINE now == [Begun(s) EXCEPT !.now = clock]
           Rests == AtRest(Seen, Begun(s))' /\ Board' = Board
<1>0. /\ AtRest(Seen, Begun(s)) /\ AtRest(Seen, now) /\ scan \in Seq(KeyEvents)
      /\ DOMAIN Begun(s) = Fields /\ DOMAIN s = Fields /\ clock \in Times /\ Begun(s).now \in Times
  <2>1. AtRest(Seen, Begun(s)) /\ AtRest(Seen, now)  BY HandlerAtRest
  <2>2. DOMAIN Begun(s) = Fields /\ clock \in Times /\ Begun(s).now \in Times  BY DEF TimesInv, TimesOK
  <2> QED BY <2>1, <2>2, BegunParts DEF ModifiersInv
<1>1. ASSUME Rests, scan' \in Seq(KeyEvents) PROVE ModifiersInv'
  BY <1>1 DEF ModifiersInv, KeyEvents
<1>2. ASSUME s' = s, report' = report PROVE Rests  BY <1>0, <1>2 DEF Seen, Begun, Board
<1>3. ASSUME NEW m, AtRest(Seen, m), s' = Settled(m), report' = report PROVE Rests
  BY <1>0, <1>3, HandlerRests
<1>4. CASE \E k \in Board.keys : Press(k) \/ Release(k)
  <2>1. PICK k \in Board.keys, is_down \in BOOLEAN : Scan(k, is_down)  BY <1>4 DEF Press, Release
  <2>2. s' = s /\ report' = report  BY <2>1 DEF Scan, tasks, output
  <2> DEFINE e == [key |-> k, down |-> is_down]
  <2>3. e \in KeyEvents  BY DEF KeyEvents
  <2>4. scan' = Append(scan, e)  BY <2>1 DEF Scan
  <2> HIDE DEF e
  <2>5. scan' \in Seq(KeyEvents)  BY <1>0, <2>3, <2>4
  <2> QED BY <1>1, <1>2, <2>2, <2>5
<1>5. CASE Tick
  <2>1. s' = s /\ report' = report /\ scan' = scan  BY <1>5 DEF Tick, typist, tasks, output
  <2> QED BY <1>0, <1>1, <1>2, <2>1
<1>6. CASE MacroStep
  <2> DEFINE z == Begun(s)
             m == CheckTime(z)
  <2>1. s' = Settled(m) /\ report' = report /\ scan' = scan /\ s.macro # Noop
    BY <1>6 DEF MacroStep, RunningMacro, typist, output
  <2>2. z.macro # Noop  BY <1>0, <2>1, BegunParts
  <2>3. z.now \in Nat /\ z.now < NEVER  BY <1>0, Ends DEF Times
  <2>4. AtRest(Seen, z)  BY <1>0
  <2> HIDE DEF z
  <2>5. Even(Seen, z)  BY <2>2, <2>4, RestEven DEF Fresh
  <2>6. AtRest(Seen, m)  BY <2>3, <2>5, CheckTimeEven, EvenRest
  <2> HIDE DEF m
  <2> QED BY <1>0, <1>1, <1>3, <2>1, <2>6
<1>7. CASE MemoStep
  <2> DEFINE z == Begun(s)
             m == RunMemo(z)
  <2>1. s' = Settled(m) /\ report' = report /\ scan' = scan /\ s.memo_count # 0
    BY <1>7 DEF MemoStep, MemoReady, typist, output
  <2>2. z.memo_count # 0  BY <1>0, <2>1 DEF Begun, Fields
  <2>3. AtRest(Seen, z)  BY <1>0
  <2> HIDE DEF z
  <2>4. Even(Seen, z)  BY <2>2, <2>3, RestEven DEF Fresh
  <2>5. AtRest(Seen, m)  BY <2>4, RunMemoEven, EvenRest
  <2> HIDE DEF m
  <2> QED BY <1>0, <1>1, <1>3, <2>1, <2>5
<1>8. CASE TakeKey
  <2> DEFINE e == Head(scan)
             k == [key |-> e.key, down |-> e.down, time |-> clock]
             m == KeySwitch(now, k)
  <2>1. s' = Settled(m) /\ report' = report /\ scan' = Tail(scan) /\ scan # << >>
    BY <1>8 DEF TakeKey, output
  <2>2. e \in KeyEvents /\ Tail(scan) \in Seq(KeyEvents)  BY <1>0, <2>1, HeadTailProperties
  <2> HIDE DEF e, now
  <2>3. KeyFits(Seen.keyboard, k)  BY <2>2 DEF KeyEvents, KeyFits, Seen
  <2> HIDE DEF k
  <2>4. Even(Seen, m)
    <3>1. now.td.location # 0 => Even(Seen, now)  BY <1>0, RestEven
    <3> QED BY <1>0, <2>3, <3>1, KeySwitchEven DEF AtRest
  <2>5. AtRest(Seen, m)  BY <2>4, EvenRest
  <2> HIDE DEF m
  <2> QED BY <1>1, <1>3, <2>1, <2>2, <2>5
<1>9. CASE TakeTimer
  <2> DEFINE m == CheckTime(now)
  <2>1. s' = Settled(m) /\ report' = report /\ scan' = scan  BY <1>9 DEF TakeTimer, typist, output
  <2>2. now.now \in Nat /\ now.now < NEVER
    <3> DEFINE b == Begun(s)
    <3>1. DOMAIN b = Fields /\ now = [b EXCEPT !.now = clock]  BY <1>0
    <3> HIDE DEF b, now
    <3>2. now.now = clock  BY <3>1 DEF Fields
    <3> QED BY <1>0, <3>2, Ends DEF Times
  <2> HIDE DEF now
  <2>3. CASE Fresh(now)
    <3>1. m = now  BY <2>3 DEF CheckTime, Fresh
    <3> HIDE DEF m
    <3> QED BY <1>0, <1>1, <1>3, <2>1, <3>1
  <2>4. CASE ~ Fresh(now)
    <3>1. Even(Seen, now)  BY <1>0, <2>4, RestEven
    <3>2. AtRest(Seen, m)  BY <2>2, <3>1, CheckTimeEven, EvenRest
    <3> HIDE DEF m
    <3> QED BY <1>0, <1>1, <1>3, <2>1, <3>2
  <2> QED BY <2>3, <2>4
<1>10. CASE TimerSet
  <2>1. s' = [s EXCEPT !.at_sig = NoSignal] /\ report' = report /\ scan' = scan
    BY <1>10 DEF TimerSet, typist, output
  <2> DEFINE a == Begun(s)
             b == Begun(s)'
             z == Seen
  <2>2. s'.keyboard = s.keyboard  BY <1>0, <2>1 DEF Fields
  <2>3. Board' = Board  BY <2>2 DEF Board
  <2>4. Seen' = z  BY <2>1, <2>3 DEF Seen
  <2>5. a = [s EXCEPT !.keyboard = Board] /\ b = [s' EXCEPT !.keyboard = Board]  BY <2>3 DEF Begun
  <2>6. AtRest(z, a)  BY <1>0
  <2> HIDE DEF a, b, z
  <2>7. DOMAIN b = Fields /\ \A f \in Fields \ {"now", "reported", "at_sig"} : b[f] = a[f]
    BY <1>0, <2>1, <2>5 DEF Fields
  <2>8. AtRest(z, b)  BY <2>6, <2>7, RestKept
  <2>9. Rests  BY <2>3, <2>4, <2>8 DEF b
  <2> QED BY <1>0, <1>1, <2>1, <2>9
<1>11. CASE TimerExpires
  <2>1. s' = s /\ report' = report /\ scan' = scan  BY <1>11 DEF TimerExpires, typist, output
  <2> QED BY <1>0, <1>1, <1>2, <2>1
<1>12. CASE Reporter  BY <1>12, ReporterRests
<1>13. CASE UNCHANGED vars
  <2>1. s' = s /\ report' = report /\ scan' = scan  BY <1>13 DEF vars, typist, tasks, output
  <2> QED BY <1>0, <1>1, <1>2, <2>1
<1> QED
  BY <1>4, <1>5, <1>6, <1>7, <1>8, <1>9, <1>10, <1>11, <1>12, <1>13 DEF Next, MapperTask, TimerTask

\* The modifiers the mapper has counted down (write_modifiers) are those the host has or is about
\* to have (flush_modifiers, Reporter::report), in every state between two handlers, on every
\* keyboard that keeps the counts, until an event is given up.
THEOREM ModifiersKept ==
  ASSUME \A b \in Boards : KeepsCount(Keyboards[b]) PROVE Spec => []ModifiersAgree
<1>1. Init => ModifiersInv  BY InitModifiers
<1>2. TimesInv /\ ModifiersInv /\ [Next]_vars => ModifiersInv'  BY ModifiersStep
<1>3. ASSUME TimesInv, ModifiersInv PROVE ModifiersAgree
  <2> DEFINE m == Begun(s)
  <2>1. DOMAIN m = Fields /\ DOMAIN s = Fields  BY <1>3, BegunParts DEF TimesInv, TimesOK
  <2>2. m.count = s.count /\ m.chan = s.chan /\ m.given_up = s.given_up  BY <2>1 DEF Begun, Fields
  <2>3. Agreed(Seen, m)  BY <1>3 DEF ModifiersInv, AtRest
  <2> HIDE DEF m
  <2>4. Seen.report = report  BY DEF Seen
  <2> QED BY <2>2, <2>3, <2>4 DEF ModifiersAgree, Agreed, Told, ComingReport, Positive
<1> QED BY <1>1, <1>2, <1>3, TimesCorrect, PTL DEF Spec
=============================================================================
