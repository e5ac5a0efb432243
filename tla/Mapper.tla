------------------------------- MODULE Mapper -------------------------------
(***************************************************************************)
(* The mapper between a typist and a host.  Four tasks of one cooperative  *)
(* executor take part, so an action is what a task does between two        *)
(* awaits:                                                                 *)
(*   the scanner puts key events into its channel (KeyScannerChannel),     *)
(*   the mapper (Mapper::run) takes them and puts reports into another,    *)
(*   the timer (MapperTimer::run) wakes the mapper at its deadline,        *)
(*   the reporter (Reporter::report) sends the reports to the host.        *)
(* MapperOps has what the mapper does with one event.                      *)
(***************************************************************************)
EXTENDS MapperOps

CONSTANTS
  SCANNER_BUFFER_SIZE,  \* capacity of the channel of key events
  Boards                \* the keyboards of this instance

\* A keyboard also has
\*   slow_host   whether reports may wait for more than 160 ms
\*   presses     bound: key presses in a behaviour
\*   each        bound: presses of one key
\*   key_time    bound: keys are pressed until this time
\*   max_time    bound: time stops then, unless the timer runs for another reason than
\*               the mouse keys, which may be down for ever
\*   shows       a key -> the codes one press of it may show, or << >>
\*   makes       a key -> the codes that one press of it makes, or << >>
ASSUME MapperAssumption ==
  /\ SCANNER_BUFFER_SIZE \in Nat \ {0} /\ FREE_WORDS \in Nat
  /\ Boards \subseteq DOMAIN Keyboards
  /\ \A b \in Boards : Keyboards[b].slow_host \in BOOLEAN /\ Keyboards[b].key_time <= Keyboards[b].max_time

VARIABLES
  clock,        \* time in milliseconds
  held,         \* the keys that are down
  scan,         \* the channel from the scanner
  s,            \* the mapper
  expires_at,   \* the deadline of the timer task
  ctl_sig,      \* the control signal of the mapper: "none" or "timer_expired"
  report,       \* keyboard_report of the reporter
  host,         \* the keyboard report the host got last
  buttons,      \* the mouse buttons that are down at the host
  typed,        \* history: the keys pressed, in order
  shown         \* history: the codes that went down at the host, in order

Board == Keyboards[s.keyboard]

tasks == <<s, expires_at, ctl_sig>>
typist == <<held, scan, typed>>
output == <<report, host, buttons, shown>>
vars == <<clock, typist, tasks, output>>

Init ==
  /\ clock = 2 /\ held = {} /\ scan = << >>
  /\ (\E b \in Boards : s = NewMapper(b)) /\ expires_at = NEVER /\ ctl_sig = "none"
  /\ report = NoReport /\ host = NoReport /\ buttons = {}
  /\ typed = << >> /\ shown = << >>

(***************************************************************************)
(* The typist and the scanner.                                             *)
(***************************************************************************)
Scan(k, is_down) ==
  /\ Len(scan) < SCANNER_BUFFER_SIZE
  /\ scan' = Append(scan, [key |-> k, down |-> is_down])
  /\ UNCHANGED <<clock, tasks, output>>

Press(k) ==
  /\ k \notin held /\ clock <= Board.key_time
  /\ Len(typed) < Board.presses /\ Cardinality({i \in DOMAIN typed : typed[i] = k}) < Board.each
  /\ held' = held \cup {k} /\ typed' = Append(typed, k)
  /\ Scan(k, TRUE)

Release(k) ==
  /\ k \in held
  /\ held' = held \ {k} /\ UNCHANGED typed
  /\ Scan(k, FALSE)

Tick ==
  /\ clock < LAST_TIME
  /\ \/ clock < Board.max_time
     \/ expires_at # NEVER /\ clock < expires_at /\ s.mouse.first = 0
  /\ clock' = clock + 1
  /\ UNCHANGED <<typist, tasks, output>>

(***************************************************************************)
(* The mapper.  It waits for room in the report channel, but not for ever. *)
(***************************************************************************)
HasRoom == Board.slow_host \/ RoomToReport(s)

RunningMacro == s.macro # Noop
MemoReady == s.dual.type # "wait" /\ s.memo_count # 0
Selecting == ~ RunningMacro /\ ~ MemoReady

\* A handler has the keyboard at hand.
Begun(m) == [m EXCEPT !.keyboard = Board]

\* report_count matters only while one key event is handled.
Settled(m) == [m EXCEPT !.keyboard = s.keyboard, !.reported = 0]

MacroStep ==
  /\ HasRoom /\ RunningMacro
  /\ s' = Settled(CheckTime(Begun(s)))
  /\ UNCHANGED <<clock, typist, expires_at, ctl_sig, output>>

MemoStep ==
  /\ HasRoom /\ ~ RunningMacro /\ MemoReady
  /\ s' = Settled(RunMemo(Begun(s)))
  /\ UNCHANGED <<clock, typist, expires_at, ctl_sig, output>>

TakeKey ==
  /\ HasRoom /\ Selecting /\ scan # << >>
  /\ s' = LET e == Head(scan)
          IN Settled(KeySwitch([Begun(s) EXCEPT !.now = clock],
                               [key |-> e.key, down |-> e.down, time |-> clock]))
  /\ scan' = Tail(scan)
  /\ UNCHANGED <<clock, held, typed, expires_at, ctl_sig, output>>

\* select looks at the channel of keys before it looks at the control signal.
TakeTimer ==
  /\ HasRoom /\ Selecting /\ scan = << >> /\ ctl_sig = "timer_expired"
  /\ s' = Settled(CheckTime([Begun(s) EXCEPT !.now = clock]))
  /\ ctl_sig' = "none"
  /\ UNCHANGED <<clock, typist, expires_at, output>>

(***************************************************************************)
(* The timer.  select looks at the deadline before it looks at the signal. *)
(***************************************************************************)
TimerDue == expires_at # NEVER /\ expires_at <= clock

TimerSet ==
  /\ ~ TimerDue /\ s.at_sig # NoSignal
  /\ expires_at' = s.at_sig /\ s' = [s EXCEPT !.at_sig = NoSignal]
  /\ UNCHANGED <<clock, typist, ctl_sig, output>>

TimerExpires ==
  /\ TimerDue
  /\ expires_at' = NEVER /\ ctl_sig' = "timer_expired"
  /\ UNCHANGED <<clock, typist, s, output>>

(***************************************************************************)
(* The reporter.  A key that is down already is released first, for the    *)
(* host to see it pressed again.                                           *)
(***************************************************************************)
Pressed(event) ==
  /\ event.type = "basic" /\ event.down
  /\ IsModifier(event.key) => event.key - MODIFIER_MIN \notin report.mods

Reporter ==
  /\ s.chan # << >> /\ s' = [s EXCEPT !.chan = Tail(@)]
  /\ LET event == Head(s.chan)
     IN /\ report' = Apply(report, event)
        /\ host' = IF Writes(event) THEN report' ELSE host
        /\ buttons' = Buttons(buttons, event)
        /\ shown' = IF Pressed(event) THEN Append(shown, event.key) ELSE shown
  /\ UNCHANGED <<clock, typist, expires_at, ctl_sig>>

MapperTask == MacroStep \/ MemoStep \/ TakeKey \/ TakeTimer
TimerTask == TimerSet \/ TimerExpires

Next ==
  \/ \E k \in Board.keys : Press(k) \/ Release(k)
  \/ Tick
  \/ MapperTask
  \/ TimerTask
  \/ Reporter

Spec == Init /\ [][Next]_vars

\* The mapper can go on: its action is enabled.
MapperReady ==
  HasRoom /\ (Selecting => scan # << >> \/ ctl_sig = "timer_expired")

\* A step of the mapper is one that no other makes, which is cheaper to see than that
\* the mapper makes it.
MapperMoves == held' = held /\ ~ (Tick \/ TimerTask \/ Reporter)

\* Every task that can go on does so, and time passes.  For the mapper weak fairness
\* is spelled out: ENABLED is costly to compute for its handlers.
Fairness ==
  /\ []<>(~ MapperReady) \/ []<><<MapperMoves>>_vars
  /\ WF_vars(TimerTask) /\ WF_vars(Reporter) /\ WF_vars(Tick)

FairSpec == Spec /\ Fairness

-----------------------------------------------------------------------------
(***************************************************************************)
(* Properties.                                                             *)
(***************************************************************************)
\* Nothing is under way: every key is up and every event has been dealt with.
Quiet ==
  /\ held = {} /\ scan = << >> /\ s.memos = << >> /\ s.chan = << >>
  /\ s.dual.type = "no_dual" /\ s.td.location = 0 /\ s.macro = Noop
  /\ s.oneshot.type = "none"

\* Nothing sticks: however presses, releases and timeouts interleave, once all
\* keys are up and dealt with, the host has no key, no modifier and no mouse button
\* down, the mouse rests and only the base layout is active.
NothingSticks ==
  Quiet => /\ host = NoReport /\ report = NoReport /\ Len(s.stack) = 1
           /\ buttons = {} /\ s.mouse.first = 0

\* write_modifiers: "Change the state of a modifier keeping count": every modifier
\* that was counted down is counted up again once all keys are up.  A count that is
\* off makes a later press of the modifier go unreported.
CountsBalanced == Quiet => \A b \in Modifiers : s.count[b] = 0

\* The host sees keys go down in the order in which they were pressed, whichever of
\* them were put off until a dual action was decided.
PressesInOrder ==
  Board.shows # << >> =>
    /\ Len(shown) <= Len(typed)
    /\ \A i \in DOMAIN shown : shown[i] \in Board.shows[typed[i]]

\* Macros run to their end: however they interrupt each other and wait for room in
\* the channel, the host sees every code of every macro, in order.
MacrosComplete ==
  Quiet /\ Board.makes # << >> =>
    shown = FlattenSeq([i \in DOMAIN typed |-> Board.makes[typed[i]]])

\* The modifiers that are counted down are the modifiers the host has or is about to
\* have, as long as no event is given up: the buffered changes, the events in the channel
\* and the counts never disagree.
ModifiersAgree ==
  ~ s.given_up => Outcome(report, s.chan).mods = {b \in Modifiers : s.count[b] > 0}

\* The keyboards on which the counts are always those of the host.  On others the code itself
\* departs from it (README): clear_layers and stop_active forget counts of modifiers that stay
\* down, a layer of several modifiers is reported as a mask, and the modifiers of a macro that
\* reports nothing are kept back until they change again.
Reports(code) == code \in ((4..254) \ (224..231)) \cup (256..981) \cup (1024..1031)

KeepsCode(keyboard, code) ==
  /\ code \in Nat \ {8195, 8196}
  /\ code \in 1536..2815 => code % 256 \in DOMAIN keyboard.layers

KeepsCodes(keyboard, from, to) == \A i \in from..to : KeepsCode(keyboard, keyboard.codes[i])

KeepsLayer(keyboard, layer) ==
  /\ \A k \in keyboard.keys : KeepsCode(keyboard, layer.codes[k])
  /\ layer.mods \subseteq Modifiers /\ \A a, b \in layer.mods : a = b

KeepsMacro(keyboard, mac) ==
  /\ mac.type = "modifier" => mac.mods \subseteq Modifiers /\ Reports(mac.code)
  /\ mac.type = "dual_action" => KeepsCode(keyboard, mac.tap) /\ KeepsCode(keyboard, mac.hold)
  /\ mac.type = "sequence" =>
       /\ mac.location \in Nat /\ mac.rem \in Nat
       /\ KeepsCodes(keyboard, mac.location, mac.location + mac.rem - 1)
  /\ mac.type = "tapdance" =>
       /\ mac.location \in Nat /\ mac.len \in Nat
       /\ KeepsCodes(keyboard, mac.location + 1, mac.location + mac.len - 1)

\* No tap dance has as many codes as there are words before another one: is_same takes a
\* dance that is over for the one that ends as many words behind 0 as it had codes left.
KeepsCount(keyboard) ==
  /\ 0..MAIN_BASE \subseteq DOMAIN keyboard.layers
  /\ \A n \in DOMAIN keyboard.layers : KeepsLayer(keyboard, keyboard.layers[n])
  /\ \A id \in DOMAIN keyboard.macros : KeepsMacro(keyboard, keyboard.macros[id])
  /\ \A id, other \in DOMAIN keyboard.macros :
       keyboard.macros[id].type = "tapdance" /\ keyboard.macros[other].type = "tapdance" =>
         keyboard.macros[id].len < keyboard.macros[other].location

\* The mouse does what its keys say, as long as no event is given up: the host has, or is
\* about to have, the buttons down whose keys are; there are reports while a movement key
\* is down; and an axis moves only while the key of its direction is.
MouseFollowsKeys ==
  ~ s.given_up =>
    LET codes == {s.active[k].code : k \in Board.keys}
        moving == {k \in Board.keys : s.active[k].code - MOUSE_MIN \in MOUSE_DELTA..(MOUSE_DELTA + 7)}
    IN /\ FoldLeft(Buttons, buttons, s.chan) = s.mouse.keys
       /\ s.mouse.keys = {b \in 0..(MOUSE_DELTA - 1) : MOUSE_MIN + b \in codes}
       /\ s.mouse.count = Cardinality(moving) /\ (s.mouse.first # 0 <=> moving # {})
       /\ \A a \in Axes : s.mouse.start[a] # 0 =>
            /\ s.mouse.start[a] <= s.now - s.mouse.first
            /\ \E k \in moving : LET code == s.active[k].code - MOUSE_MIN
                                IN Axis(code) = a /\ Direction(code) = s.mouse.delta[a]

\* Whatever the mapper waits for, the timer will wake it in time, or at once when it is
\* late already: a deadline is with the timer task, on the way there, or on the way back.
InTime(wake, t) == wake <= t \/ wake <= clock
Deadline(t) ==
  t # NEVER => \/ InTime(expires_at, t)
               \/ s.at_sig # NoSignal /\ InTime(s.at_sig, t)
               \/ ctl_sig = "timer_expired"

DeadlineArmed ==
  /\ s.dual.type = "wait" => Deadline(s.dual.key.time + s.dual.duration)
  /\ s.td.location # 0 => Deadline(s.td.wait_until)
  /\ s.mouse.count > 0 => Deadline(NextEventTime(s.mouse))

\* The deadlines of the mapper, each when there is one.
NextDeadline ==
  Earlier(Earlier(NextEventTime(s.mouse), WaitUntil(s.dual)),
          IF s.td.location # 0 THEN s.td.wait_until ELSE NEVER)

\* Mapper and timer task wake each other as DeadlineTimer says: no handler leaves
\* something undecided that needs a deadline without telling the timer, and none takes the
\* message of the timer without asking anew.
Timer == INSTANCE DeadlineTimer
           WITH waiting <- NextDeadline # NEVER, wait_time <- s.wait_time, at_sig <- s.at_sig,
                Deadlines <- 0..NEVER
WakesAsPromised == Timer!Spec

\* Every press is answered on a keyboard whose keys each show a code: once the typist has stopped, the host has seen as many
\* keys go down as were pressed, whatever was put off on the way.
EveryPressShown == <>[](Board.shows # << >> => Len(shown) = Len(typed))
=============================================================================
