----------------------------- MODULE ReportOps -----------------------------
(***************************************************************************)
(* From the mapper to the host: the modifier counts and the buffered       *)
(* modifier changes of the mapper, the bounded channel of key events       *)
(* (MapperChannel) and the report the key reporter builds from them.       *)
(*                                                                         *)
(* The operators work on any record s that has the fields                  *)
(*   count     modifier_count, an i8 for each modifier                     *)
(*   up, down  pending_up_modifiers, pending_down_modifiers                *)
(*   reported  how far report_count advanced since key_switch_1 began      *)
(*   chan      the key events that wait in the channel                     *)
(*   given_up  history: events, or calls beyond a bound, were given up     *)
(*             since everything was cleared last                           *)
(* Modifiers are the bits 0..7 of a modifier byte, sets of them are masks. *)
(***************************************************************************)
EXTENDS Integers, Sequences, FiniteSets

CONSTANT REPORT_BUFFER_SIZE    \* capacity of the channel

ASSUME BufferAssumption == REPORT_BUFFER_SIZE \in Nat /\ REPORT_BUFFER_SIZE >= 4

Modifiers == 0..7
MODIFIER_MIN == 224     \* the key code of modifier bit 0
I8MIN == -128
I8MAX == 127

\* The key events.
Basic(key, is_down) == [type |-> "basic", key |-> key, down |-> is_down]
Mods(mods, is_down, pending) ==
  [type |-> IF pending THEN "pending_modifiers" ELSE "modifiers",
   mods |-> mods, down |-> is_down]
Consumer(key) == [type |-> "consumer", key |-> key]
SysCtl(key) == [type |-> "sys_ctl", key |-> key]
MouseButton(keys) == [type |-> "mouse_button", keys |-> keys]
MouseMove(axis, ticks, keys) == [type |-> "mouse_move", axis |-> axis, ticks |-> ticks, keys |-> keys]
Delay(n) == [type |-> "delay", n |-> n]
Clear == [type |-> "clear"]

(***************************************************************************)
(* MapperChannel                                                           *)
(***************************************************************************)
\* MapperChannel::report: when there is no room everything is given up.
Send(s, event) ==
  IF Len(s.chan) < REPORT_BUFFER_SIZE
  THEN [s EXCEPT !.chan = Append(@, event)]
  ELSE [s EXCEPT !.chan = <<Clear>>, !.given_up = TRUE]

RoomToReport(s) == REPORT_BUFFER_SIZE - Len(s.chan) >= 4

(***************************************************************************)
(* Mapper: report, flush_modifiers, write_modifiers                        *)
(***************************************************************************)
SendMods(s, mods, is_down, pending) == IF mods = {} THEN s ELSE Send(s, Mods(mods, is_down, pending))

\* flush_modifiers: a modifier that changed both ways is left as it was.
FlushChanges(s, up, down, pending) ==
  [SendMods(SendMods(s, up, FALSE, pending \/ down # {}), down, TRUE, pending) EXCEPT
     !.up = {}, !.down = {}]

Flush(s, pending) == FlushChanges(s, s.up \ s.down, s.down \ s.up, pending)

Report(s, event) == Send(Flush([s EXCEPT !.reported = @ + 1], TRUE), event)

\* A count moves by n and saturates; once it saturated, the first call the other
\* way gives it a value again.
Counted(c, n) ==
  CASE n <= 0 /\ c = I8MAX -> I8MIN
    [] n > 0 /\ c = I8MIN  -> n
    [] OTHER -> IF c + n > I8MAX THEN I8MAX ELSE IF c + n < I8MIN THEN I8MIN ELSE c + n

\* Mutant: every call reports, not only one that crosses the threshold.
ChangedAlways(old, new, mods) == mods

\* The modifiers that crossed the threshold between 0 and 1.
Changed(old, new, mods) == {b \in mods : (old[b] > 0) # (new[b] > 0)}

\* The last bit the loop over the mask looks at.
Highest(mods) == CHOOSE b \in mods : \A c \in mods : c <= b

\* What is reported at once is the highest bit of the mask when one modifier
\* changed, and the whole mask when several did.
WriteChanged(s, changed, mods, n, pending) ==
  CASE changed = {} -> s
    [] changed # {} /\ pending ->
         IF n > 0 THEN [s EXCEPT !.down = @ \cup changed] ELSE [s EXCEPT !.up = @ \cup changed]
    [] changed # {} /\ ~ pending ->
         Report(s, IF Cardinality(changed) = 1
                   THEN Basic(MODIFIER_MIN + Highest(mods), n > 0)
                   ELSE Mods(mods, n > 0, FALSE))

Recount(s, new, mods, n, pending) ==
  WriteChanged([s EXCEPT !.count = new], Changed(s.count, new, mods), mods, n, pending)

\* write_modifiers
WriteModifiers(s, mods, n, pending) ==
  Recount(s, [b \in Modifiers |-> IF b \in mods THEN Counted(s.count[b], n) ELSE s.count[b]], mods, n, pending)

(***************************************************************************)
(* Reporter (key_reporter.rs): the keyboard report is the set of modifiers *)
(* and the set of other keys that are down.  Apply is what one event does  *)
(* to it, Writes whether the host is then sent the keyboard report.  The   *)
(* buttons of the mouse are in every mouse report.                         *)
(***************************************************************************)
NoReport == [mods |-> {}, keys |-> {}]

IsModifier(key) == key \in MODIFIER_MIN..(MODIFIER_MIN + 7)

Apply(r, event) ==
  CASE event.type = "basic" /\ IsModifier(event.key) ->
         [r EXCEPT !.mods = IF event.down THEN @ \cup {event.key - MODIFIER_MIN}
                                          ELSE @ \ {event.key - MODIFIER_MIN}]
    [] event.type = "basic" /\ ~ IsModifier(event.key) ->
         [r EXCEPT !.keys = IF event.down THEN @ \cup {event.key} ELSE @ \ {event.key}]
    [] event.type \in {"modifiers", "pending_modifiers"} ->
         [r EXCEPT !.mods = IF event.down THEN @ \cup event.mods ELSE @ \ event.mods]
    [] event.type = "clear" -> NoReport
    [] OTHER -> r

\* The report once every event that waits in the channel has come.
Outcome(r, chan) ==
  LET after[n \in 0..Len(chan)] == IF n = 0 THEN r ELSE Apply(after[n - 1], chan[n])
  IN after[Len(chan)]

Buttons(keys, event) ==
  CASE event.type \in {"mouse_button", "mouse_move"} -> event.keys
    [] event.type = "clear" -> {}
    [] OTHER -> keys

Writes(event) == event.type \in {"basic", "modifiers", "clear"}
=============================================================================
