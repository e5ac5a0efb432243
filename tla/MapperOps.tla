----------------------------- MODULE MapperOps -----------------------------
(***************************************************************************)
(* The handlers of Mapper (rpk-firmware/src/mapper.rs) as functions from   *)
(* mapper to mapper: each runs to its end without an await.                *)
(*                                                                         *)
(* A mapper s has the fields of ReportOps and                              *)
(*   keyboard    the name of the keyboard it is in, or, while a handler    *)
(*               runs, that keyboard itself, whose layout is loaded        *)
(*   stack       the active layers, base layout first (see LayerStack)     *)
(*   memos       the events put off, oldest first (see EventQueue)         *)
(*   macro       macro_running                                             *)
(*   frames      the macros it interrupted, innermost first, Noop last     *)
(*   active      active_actions, for each key                              *)
(*   oneshot, dual, td (tapdance), last (last_scan_key), memo_count, now,  *)
(*   wait_time   as in the code                                            *)
(*   mouse       the mouse keys (see MouseOps)                             *)
(*   at_sig      the deadline signalled to the timer task, or NoSignal     *)
(*                                                                         *)
(* Layout shows how the layer stack and the two queues live in one array   *)
(* of words; here they are sequences.  The words are only counted, to      *)
(* refuse memos that find no room.                                         *)
(***************************************************************************)
EXTENDS ReportOps, MouseOps, SequencesExt

CONSTANTS
  Keyboards,            \* name -> keyboard, its layout and who types on it:
                        \*   keys    the keys of the matrix
                        \*   layers  layer -> [codes : key -> code, mods : mask]
                        \*   macros  macro id -> macro
                        \*   codes   location -> code
  DUAL_ACTION_TIMEOUT, DUAL_ACTION_TIMEOUT2, TAPDANCE_TAP_TIMEOUT,
  FREE_WORDS,           \* words of the layout memory behind the loaded layout
  MAX_CALLS             \* bound: calls that one call of run_action leads to

NEVER == 1000000        \* u64::MAX and Instant::MAX, later than any time
NoSignal == -1
U16MAX == 65535
LAST_TIME == NEVER - U16MAX - 1    \* bound: time stops before any timeout reaches NEVER

\* Timeouts are words of 16 bits, of the layout or of its settings.
MacroWellFormed(keyboard, mac) ==
  /\ mac.type = "dual_action" => mac.time1 \in 0..U16MAX /\ mac.time2 \in 0..U16MAX
  /\ mac.type = "tapdance" => keyboard.codes[mac.location] \in 0..U16MAX
  /\ mac.type = "hold_release" => {mac.hold, mac.release} \subseteq DOMAIN keyboard.macros

WellFormed(keyboard) == \A id \in DOMAIN keyboard.macros : MacroWellFormed(keyboard, keyboard.macros[id])

ASSUME TimeoutsAssumption ==
  {DUAL_ACTION_TIMEOUT, DUAL_ACTION_TIMEOUT2, TAPDANCE_TAP_TIMEOUT, MOUSE_REPORT_TIME} \subseteq 0..U16MAX
ASSUME KeyboardsAssumption == \A name \in DOMAIN Keyboards : WellFormed(Keyboards[name])
ASSUME CallsAssumption == MAX_CALLS \in Nat

MOUSE_MIN == 1024
MAIN_BASE == 5
RIGHT_MOD == 32768
LayerOf(w) == w % 256

Noop == [type |-> "noop"]
Sequence(mode, location, rem) ==
  [type |-> "sequence", mode |-> mode, location |-> location, rem |-> rem]

NoAction == [code |-> 0, mods |-> {}]
NoDual == [type |-> "no_dual"]
NoOneshot == [type |-> "none"]
NoTapDance == [location |-> 0, wait_until |-> NEVER, tap_timeout |-> U16MAX,
               rem |-> 0, mods |-> {}]

NewMapper(keyboard) ==
  [keyboard |-> keyboard, stack |-> <<MAIN_BASE>>, memos |-> << >>, macro |-> Noop, frames |-> << >>,
   active |-> [k \in Keyboards[keyboard].keys |-> NoAction],
   count |-> [b \in Modifiers |-> 0], up |-> {}, down |-> {}, reported |-> 0, chan |-> << >>, given_up |-> FALSE,
   oneshot |-> NoOneshot, dual |-> NoDual, td |-> NoTapDance, mouse |-> NoMouse,
   last |-> [key |-> 255, down |-> TRUE, time |-> 0],
   memo_count |-> 0, now |-> 1, wait_time |-> NEVER, at_sig |-> NoSignal]

Earlier(a, b) == IF a < b THEN a ELSE b

ClearCounts(s) == [s EXCEPT !.count = [b \in Modifiers |-> 0]]

(***************************************************************************)
(* Layers                                                                  *)
(***************************************************************************)
Layer(s, w) == s.keyboard.layers[LayerOf(w)]

Macros(s) == s.keyboard.macros
MacroCode(s, location) == s.keyboard.codes[location]

\* find_code: the topmost layer that has a code for the key decides.
FindCode(s, key) ==
  LET has == {i \in DOMAIN s.stack : Layer(s, s.stack[i]).codes[key] # 0}
      w    == s.stack[CHOOSE i \in has : \A j \in has : j <= i]
      code == Layer(s, w).codes[key]
      mods == Layer(s, w).mods
  IN IF has = {} \/ code < 4 THEN NoAction
     ELSE [code |-> code,
           mods |-> IF w >= RIGHT_MOD THEN {b + 4 : b \in mods} \cap Modifiers ELSE mods]

PushWord(s, w) == [s EXCEPT !.stack = Append(@, w)]

IsActive(s, layern) == \E i \in DOMAIN s.stack : LayerOf(s.stack[i]) = layern

\* layout.pop_layer: the topmost activation goes.
PopWord(s, layern) ==
  LET found == {i \in DOMAIN s.stack : LayerOf(s.stack[i]) = layern}
      top   == CHOOSE i \in found : \A j \in found : j <= i
  IN IF found = {} THEN s
     ELSE [s EXCEPT !.stack = SubSeq(@, 1, top - 1) \o SubSeq(@, top + 1, Len(@))]

PushLayer(s, layern) == WriteModifiers(PushWord(s, layern), Layer(s, layern).mods, 1, FALSE)

PopLayer(s, layern) ==
  IF IsActive(s, layern)
  THEN WriteModifiers(PopWord(s, layern), Layer(s, layern).mods, -1, FALSE)
  ELSE s

\* modifier: the five modifier layers are C, S, A, G and AltGr.
Modifier(s, idx, is_down) ==
  LET layer == IF idx < 4 THEN idx ELSE IF idx = 6 THEN 4 ELSE idx - 4
      right == idx >= 4 /\ idx # 6
      word  == IF right THEN layer + RIGHT_MOD ELSE layer
  IN WriteModifiers(IF is_down THEN PushWord(s, word) ELSE PopWord(s, layer),
                    {idx}, IF is_down THEN 1 ELSE -1, FALSE)

\* layer: the actions layer, toggle, setlayout and oneshot.
LayerAction(s, base, layern, is_down) ==
  LET s1 == [s EXCEPT !.reported = @ + 1]
  IN CASE base = 1536 -> IF is_down THEN PushLayer(s1, layern) ELSE PopLayer(s1, layern)
       [] base = 1792 /\ is_down ->
            IF IsActive(s1, layern) THEN PopLayer(s1, layern) ELSE PushLayer(s1, layern)
       [] base = 2048 /\ is_down -> [s1 EXCEPT !.stack[1] = layern]
       [] base = 2304 -> IF is_down THEN PushLayer(s1, layern)
                         ELSE [s1 EXCEPT !.oneshot = [type |-> "wait_up", layer |-> layern]]
       [] OTHER -> s1

(***************************************************************************)
(* The clearing actions                                                    *)
(***************************************************************************)
\* Nothing is put off and nothing waits for a deadline.
ClearTimes(s) ==
  [s EXCEPT !.td = [@ EXCEPT !.location = 0, !.wait_until = NEVER],
            !.mouse = MouseCleared(@), !.memos = << >>, !.dual = NoDual]

ClearActive(s) ==
  [ClearCounts(s) EXCEPT !.active = [k \in DOMAIN @ |-> NoAction], !.macro = Noop, !.frames = << >>,
                         !.stack = <<MAIN_BASE>>, !.chan = << >>, !.given_up = FALSE]

ClearAll(s) == Report(ClearActive(ClearTimes(s)), Clear)

ClearLayers(s) ==
  Report([ClearCounts(s) EXCEPT !.stack = <<s.stack[1]>>], Mods({}, FALSE, FALSE))

StopActive(s) ==
  Report([ClearCounts(s) EXCEPT
            !.stack = <<@[1]>> \o SelectSeq(Tail(@), LAMBDA w : w >= 5)], Clear)

Cleared(s, action) ==
  CASE action = 8194 -> ClearAll(s)
    [] action = 8195 -> ClearLayers(s)
    [] action = 8196 -> StopActive(s)
    [] OTHER -> s

\* firmware_action.  A release does not count as reported.
FirmwareAction(s, action, is_down) ==
  [Cleared(s, action) EXCEPT !.reported = IF is_down THEN @ ELSE s.reported]

(***************************************************************************)
(* Memos and timers                                                        *)
(***************************************************************************)
\* A key event takes twice the words of an action.
Words(memo) == IF memo.type = "key" THEN 6 ELSE 3
AllWords(memos) == 3 * Len(memos) + 3 * Cardinality({i \in DOMAIN memos : memos[i].type = "key"})

\* Mutant: the event put off last is the first to go back to.
PushMemoFirst(s, memo) ==
  IF s.frames # << >> \/ Len(s.stack) + AllWords(s.memos) + Words(memo) >= FREE_WORDS
  THEN [ok |-> FALSE, s |-> ClearAll(s)]
  ELSE [ok |-> TRUE, s |-> [s EXCEPT !.memos = <<memo>> \o @, !.memo_count = @ + 1]]

\* push_scan_key, push_action: a memo that is refused clears everything.
PushMemo(s, memo) ==
  IF s.frames # << >> \/ Len(s.stack) + AllWords(s.memos) + Words(memo) >= FREE_WORDS
  THEN [ok |-> FALSE, s |-> ClearAll(s)]
  ELSE [ok |-> TRUE, s |-> [s EXCEPT !.memos = Append(@, memo), !.memo_count = @ + 1]]

KeyMemo(k) == [type |-> "key", key |-> k.key, down |-> k.down, time |-> k.time]
ActionMemo(code, is_down) == [type |-> "action", code |-> code, down |-> is_down]

\* DualActionTimer::wait_until.
WaitUntil(d) ==
  IF d.type # "wait" THEN NEVER
  ELSE IF d.count = 0 THEN Earlier(d.key.time + d.duration, d.key.time + d.tap_timeout)
       ELSE d.key.time + d.duration

\* Mutant: the timer is told of a deadline only when it is earlier than the last.
SetWaitTimeEarlier(s) ==
  LET t == Earlier(Earlier(NextEventTime(s.mouse), WaitUntil(s.dual)), s.td.wait_until)
  IN IF t < s.wait_time THEN [s EXCEPT !.wait_time = t, !.at_sig = t] ELSE s

WaitFor(s, t) ==
  IF t # s.wait_time THEN [s EXCEPT !.wait_time = t, !.at_sig = t]
  ELSE IF t # NEVER THEN [s EXCEPT !.at_sig = t] ELSE s

SetWaitTime(s) ==
  WaitFor(s, Earlier(Earlier(NextEventTime(s.mouse), WaitUntil(s.dual)),
                     IF s.macro # Noop THEN s.now
                     ELSE IF s.td.location # 0 THEN s.td.wait_until ELSE NEVER))

(***************************************************************************)
(* The mouse.  Only a button reports at once.                              *)
(***************************************************************************)
\* mouse
MouseKey(s, code, is_down) ==
  CASE code < MOUSE_DELTA ->
         LET m == Button(s.mouse, code, is_down) IN Report([s EXCEPT !.mouse = m], MouseButton(m.keys))
    [] code \in MOUSE_DELTA..(MOUSE_DELTA + 7) ->
         SetWaitTime([s EXCEPT !.mouse = Move(@, code, is_down, s.now)])
    [] code \in MOUSE_ACCEL..(MOUSE_ACCEL + 2) -> [s EXCEPT !.mouse.profile = code - MOUSE_ACCEL]

\* The mouse events of check_time go to the channel as they are.
SendTicks(s, a, ticks) == IF ticks = 0 THEN s ELSE Send(s, MouseMove(a, ticks, s.mouse.keys))

MouseMoves(s) ==
  LET pending == Pending(s.mouse, s.now)
      Sent(m, a) == SendTicks(m, a, pending.ticks[a])
  IN Sent(Sent(Sent(Sent([s EXCEPT !.mouse = pending.mouse], 0), 1), 2), 3)

(***************************************************************************)
(* Tap dance.  td.location is the code after the one that is run when the  *)
(* dance ends now.                                                         *)
(***************************************************************************)
StartTapDance(s, location, len) ==
  [s EXCEPT !.td = [wait_until |-> NEVER, location |-> location + 1,
                    tap_timeout |-> MacroCode(s, location), rem |-> len - 1,
                    mods |-> s.active[s.last.key].mods]]

\* tapdance, on every press and every release of the key.
DanceStep(s, location, len) ==
  LET s1 == IF s.td.location + s.td.rem = location + len THEN s
            ELSE StartTapDance(s, location, len)
      timeout == IF s1.td.tap_timeout = U16MAX THEN TAPDANCE_TAP_TIMEOUT ELSE s1.td.tap_timeout
      next == [s1.td EXCEPT !.location = @ + 1, !.rem = @ - 1]
      td == CASE s1.td.rem = 0 -> [s1.td EXCEPT !.wait_until = s.now]
              [] s1.td.rem = 1 -> [next EXCEPT !.wait_until = s.now]
              [] OTHER -> IF next.rem % 2 = 1 THEN [next EXCEPT !.wait_until = s.now + timeout]
                          ELSE next
  IN SetWaitTime([s1 EXCEPT !.td = td])

(***************************************************************************)
(* Actions and macros.  A code of a macro may be a macro: run_action,      *)
(* macros, start_dual_action and next_macro_seq call each other.  The      *)
(* calls still to be made are a list; MakeCall makes the first and tells   *)
(* which calls have to follow before the rest of the list.                 *)
(***************************************************************************)
\* run_action of everything but a macro.
BasicAction(s, action, is_down) ==
  CASE action \in 224..231   -> Modifier(s, action - 224, is_down)
    [] action \in (4..254) \ (224..231) -> Report(s, Basic(action, is_down))
    [] action \in 256..928   -> Report(s, Consumer(IF is_down THEN action - 256 ELSE 0))
    [] action \in 929..981   -> Report(s, SysCtl(IF is_down THEN action - 929 + 129 ELSE 0))
    [] action \in MOUSE_MIN..(MOUSE_MIN + 18) -> MouseKey(s, action - MOUSE_MIN, is_down)
    [] action \in 1536..2815 -> LayerAction(s, action - (action % 256), action % 256, is_down)
    [] action \in 8192..8447 -> FirmwareAction(s, action, is_down)
    [] OTHER -> s

\* The result of a call: the mapper, and the calls that follow.
Calls(s, calls) == [s |-> s, calls |-> calls]
Return(s) == Calls(s, << >>)

ActionCall(action, is_down) == [call |-> "run_action", action |-> action, down |-> is_down]
MacroCall(mac, is_down) == [call |-> "macros", mac |-> mac, down |-> is_down]
ModifiersCall(mods) == [call |-> "write_modifiers", mods |-> mods]
DualCall(mac) == [call |-> "start", mac |-> mac]
DualUpCall == [call |-> "set_wait_time"]
SequenceCall(location, rem, mode, depth) ==
  [call |-> "sequence", location |-> location, rem |-> rem, mode |-> mode, depth |-> depth]
CodeRunCall(sequence) == [sequence EXCEPT !.call = "code_run"]

PushMacro(s, mac) == [s EXCEPT !.frames = <<s.macro>> \o @, !.macro = mac]

\* Mutant: the macro that was interrupted is not gone back to.
PopEveryMacro(s) == SetWaitTime([s EXCEPT !.macro = Noop, !.frames = << >>])

PopMacro(s) == SetWaitTime([s EXCEPT !.macro = Head(s.frames), !.frames = Tail(@)])

\* A dual action starts to wait.
DualStarts(s, mac) ==
  LET t1 == IF mac.time1 = U16MAX THEN DUAL_ACTION_TIMEOUT ELSE mac.time1
      t2 == IF mac.time1 = U16MAX \/ mac.time2 = U16MAX THEN DUAL_ACTION_TIMEOUT2 ELSE mac.time2
  IN SetWaitTime(Flush([s EXCEPT
       !.dual = [type |-> "wait", key |-> s.last, duration |-> t1, tap_timeout |-> t2,
                 tap |-> mac.tap, hold |-> mac.hold, count |-> 2]], FALSE))

\* start_dual_action: one that still waits is taken as held.
StartDualAction(s, is_down, mac) ==
  Calls(s, CASE ~ is_down -> <<ActionCall(mac.hold, FALSE), DualUpCall>>
             [] is_down /\ s.dual.type = "wait" -> <<ActionCall(s.dual.hold, TRUE), DualCall(mac)>>
             [] is_down /\ s.dual.type # "wait" -> <<DualCall(mac)>>)

\* A code of a macro is pressed, released, or both.
PressCalls(code, mode) == IF mode = "release" THEN << >> ELSE <<ActionCall(code, TRUE)>>
ReleaseCalls(code, mode) == IF mode = "hold" THEN << >> ELSE <<ActionCall(code, FALSE)>>

\* The loop of next_macro_seq: one code; depth is the number of macro slots when it began.
NextCode(s, q) ==
  IF ~ RoomToReport(s) THEN Return(SetWaitTime(s))
  ELSE Calls(IF q.rem > 1 THEN [s EXCEPT !.macro = Sequence(q.mode, q.location + 1, q.rem - 1)] ELSE PopMacro(s),
             PressCalls(MacroCode(s, q.location), q.mode) \o ReleaseCalls(MacroCode(s, q.location), q.mode)
               \o <<CodeRunCall(q)>>)

\* ... and whether it goes on.
CodeRun(s, q) ==
  IF Len(s.frames) # q.depth THEN Return(SetWaitTime(Flush(s, FALSE)))
  ELSE Calls(Flush(s, FALSE),
             <<SequenceCall(IF q.rem > 1 THEN q.location + 1 ELSE q.location,
                            IF q.rem > 1 THEN q.rem - 1 ELSE q.rem, q.mode, q.depth)>>)

\* macros
RunMacro(s, mac, is_down) ==
  CASE mac.type = "modifier" ->
         IF is_down THEN Calls(WriteModifiers(s, mac.mods, 10, TRUE), <<ActionCall(mac.code, TRUE)>>)
         ELSE Calls(s, <<ActionCall(mac.code, FALSE), ModifiersCall(mac.mods)>>)
    [] mac.type = "dual_action" -> StartDualAction(s, is_down, mac)
    [] mac.type = "tapdance" /\ mac.len > 2 -> Return(DanceStep(s, mac.location, mac.len))
    [] mac.type = "sequence" /\ mac.rem > 0 /\ (is_down <=> mac.mode \in {"tap", "hold"}) ->
         Calls(PushMacro(s, mac), <<SequenceCall(mac.location, mac.rem, mac.mode, Len(s.frames) + 1)>>)
    [] mac.type = "hold_release" ->
         Calls(s, <<MacroCall(Macros(s)[IF is_down THEN mac.hold ELSE mac.release], is_down)>>)
    [] mac.type = "delay" /\ is_down -> Return(Report(s, Delay(mac.n)))
    [] OTHER -> Return(s)

IsMacro(s, action) == action \in 4096..8191 /\ action - 4096 \in DOMAIN Macros(s)

MakeCall(s, c) ==
  CASE c.call = "run_action" ->
         IF IsMacro(s, c.action) THEN RunMacro(s, Macros(s)[c.action - 4096], c.down)
         ELSE Return(BasicAction(s, c.action, c.down))
    [] c.call = "macros" -> RunMacro(s, c.mac, c.down)
    [] c.call = "write_modifiers" -> Return(WriteModifiers(s, c.mods, -10, TRUE))
    [] c.call = "start" -> Return(DualStarts(s, c.mac))
    [] c.call = "set_wait_time" -> Return(SetWaitTime(Flush(s, FALSE)))
    [] c.call = "sequence" -> NextCode(s, c)
    [] c.call = "code_run" -> CodeRun(s, c)

NextCall(r) ==
  IF r.calls = << >> THEN r
  ELSE LET made == MakeCall(r.s, Head(r.calls)) IN Calls(made.s, made.calls \o Tail(r.calls))

\* The mapper when no more calls are made.
CutOff(r) == IF r.calls = << >> THEN r.s ELSE [r.s EXCEPT !.given_up = TRUE]

\* A call and all that follow from it, as far as the bound goes.
RunCall(s, call) ==
  LET run[n \in 0..MAX_CALLS] == IF n = 0 THEN Calls(s, <<call>>) ELSE NextCall(run[n - 1])
  IN CutOff(run[MAX_CALLS])

\* run_action
RunAction(s, action, is_down) ==
  IF IsMacro(s, action) THEN RunCall(s, ActionCall(action, is_down)) ELSE BasicAction(s, action, is_down)

\* next_macro_seq
NextMacroSeq(s, location, rem, mode) == RunCall(s, SequenceCall(location, rem, mode, Len(s.frames)))

(***************************************************************************)
(* Key events                                                              *)
(***************************************************************************)
\* An action that turned out to report nothing leaves the modifiers alone.
LeaveModifiers(s, mods) == IF s.reported = 0 THEN WriteModifiers(s, mods, 1, TRUE) ELSE s

\* key_switch_1: the modifiers of the layer a code comes from are taken away
\* while its key is down.
KeyDown(s, k, kc) ==
  IF kc = NoAction THEN s
  ELSE Flush([LeaveModifiers(
                RunAction(WriteModifiers([s EXCEPT !.active[k.key] = kc, !.reported = 0], kc.mods, -1, TRUE),
                          kc.code, TRUE), kc.mods) EXCEPT !.reported = 0], FALSE)

\* Mutant: the modifiers of the layer are not given back.
KeepModifiers(s, mods) == s

RestoreModifiers(s, mods) == IF s.reported # 0 THEN WriteModifiers(s, mods, 1, TRUE) ELSE s

\* A release ends a oneshot layer that a later key press used up.
OneshotUp(s) ==
  CASE s.oneshot.type = "wait_up" -> [s EXCEPT !.oneshot = [@ EXCEPT !.type = "ready"]]
    [] s.oneshot.type = "ready"   -> PopLayer([s EXCEPT !.oneshot = NoOneshot], s.oneshot.layer)
    [] OTHER -> s

Up(s, k, kc) ==
  [OneshotUp(RestoreModifiers(
     RunAction([s EXCEPT !.active[k.key] = NoAction, !.reported = 0], kc.code, FALSE), kc.mods))
     EXCEPT !.reported = 0]

KeyUp(s, k, kc) == Flush(Up(s, k, kc), FALSE)

KeySwitch1(s, k) == IF k.down THEN KeyDown(s, k, FindCode(s, k.key)) ELSE KeyUp(s, k, s.active[k.key])

\* Mutant: a key that is up already is not released after its action was run.
TapDanceTimeoutHolds(s) ==
  LET action == MacroCode(s, s.td.location - 1)
      s1 == SetWaitTime([s EXCEPT !.td.location = 0, !.td.wait_until = NEVER])
      s2 == [WriteModifiers(s1, s.td.mods, -1, TRUE) EXCEPT
               !.active[s.last.key] = [code |-> action, mods |-> s.td.mods]]
  IN Flush(RunAction(s2, action, TRUE), FALSE)

\* An action is run when the event to be put off before it was not refused.
RunWhenPut(put, code) == IF put.ok THEN RunAction(put.s, code, TRUE) ELSE put.s

\* The key of a tap dance that ended is down with this action, and up again if it was.
DanceKey(s, code) ==
  LET s1 == [s EXCEPT !.active[s.last.key] = [code |-> code, mods |-> s.td.mods]]
  IN IF s.last.down THEN [ok |-> TRUE, s |-> s1] ELSE PushMemo(s1, KeyMemo([s.last EXCEPT !.down = FALSE]))

\* tapdance_timeout: run the action the taps have counted up to.
TapDanceTimeout(s) ==
  LET action == MacroCode(s, s.td.location - 1)
  IN Flush(RunWhenPut(
       DanceKey(WriteModifiers(SetWaitTime([s EXCEPT !.td.location = 0, !.td.wait_until = NEVER]),
                               s.td.mods, -1, TRUE), action), action), FALSE)

\* The second timeout runs from the second of the two other events.
CountEvent(d, k) ==
  [d EXCEPT !.count = @ - 1,
            !.tap_timeout = IF d.count = 1 THEN (@ + k.time - d.key.time) % 65536 ELSE @]

\* key_switch with no tap dance: what a waiting dual action makes of the event.
HoldDual(s, k) ==
  LET s1 == IF s.dual.key.key = k.key THEN s ELSE PushMemo(s, KeyMemo(k)).s
  IN Flush(RunAction([s1 EXCEPT !.dual = NoDual, !.last = s.dual.key], s.dual.hold, TRUE), FALSE)

TapDual(s) ==
  Flush(RunWhenPut(PushMemo([s EXCEPT !.dual = NoDual, !.last = s.dual.key], ActionMemo(s.dual.tap, FALSE)),
                   s.dual.tap), FALSE)

DualKey(s, k) ==
  LET s1 == [s EXCEPT !.last = k]
  IN CASE s.dual.type = "no_dual"   -> KeySwitch1(s1, k)
       [] s.dual.type = "wait" /\ s.dual.key.key = k.key -> TapDual(s1)
       [] s.dual.type = "wait" /\ s.dual.key.key # k.key /\ s.dual.count # 0 ->
            PushMemo([s1 EXCEPT !.dual = CountEvent(@, k)], KeyMemo(k)).s
       [] OTHER -> HoldDual(s1, k)

KeySwitch(s, k) ==
  CASE s.td.location = 0 -> DualKey(s, k)
    [] s.td.location # 0 /\ (s.last.key # k.key \/ s.td.rem = 0) ->
         PushMemo(TapDanceTimeout(s), KeyMemo(k)).s
    [] OTHER -> KeySwitch1([s EXCEPT !.last = k], k)

\* dual_action_expired: the key is switched again, now as held.
DualExpired(s) == KeySwitch([s EXCEPT !.dual.type = "hold"], s.dual.key)

\* check_time
CheckTime(s) ==
  CASE s.wait_time = NEVER -> s
    [] s.wait_time # NEVER /\ s.macro = Noop ->
         SetWaitTime(IF s.now < s.wait_time THEN s
                     ELSE IF NextEventTime(s.mouse) <= s.now THEN MouseMoves(s)
                     ELSE IF WaitUntil(s.dual) <= s.now THEN DualExpired(s)
                     ELSE IF s.td.wait_until <= s.now THEN TapDanceTimeout(s) ELSE s)
    [] OTHER -> NextMacroSeq(s, s.macro.location, s.macro.rem, s.macro.mode)

\* run_memo, once there is one to run.
RunMemo(s) ==
  LET s1 == [s EXCEPT !.memo_count = @ - 1, !.memos = IF @ = << >> THEN @ ELSE Tail(@)]
      memo == Head(s.memos)
  IN IF s.memos = << >> THEN s1
     ELSE IF memo.type = "key" THEN KeySwitch(s1, [key |-> memo.key, down |-> memo.down, time |-> memo.time])
     ELSE Flush(RunAction(s1, memo.code, memo.down), FALSE)
=============================================================================
