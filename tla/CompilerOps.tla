---------------------------- MODULE CompilerOps ----------------------------
(***************************************************************************)
(* The configuration compiler (rpk-config/src/compiler.rs, globals.rs) as  *)
(* functions from parser to parser, and the words it writes.               *)
(*                                                                         *)
(* The text is abstract: a section is a record of what its header names, a *)
(* line a record of what is left and right of `=`, an action a tree.  What *)
(* is malformed for its characters alone has no such record; what the      *)
(* parser refuses for any other reason sets `err`, and nothing is written  *)
(* then.  Numbers are the words of the file: positions are row * 256 +     *)
(* column, actions key codes.  Modifiers and composites are sets of bits.  *)
(*                                                                         *)
(* Actions, by their field t:                                              *)
(*   key(code)  op(base, layer)  mods(mods, code)  delay(ms)               *)
(*   macro, hold, release(items)  unicode(digits)                          *)
(*   overload(layer, tap, times)  dualaction(hold, tap, times)             *)
(*   tapdance(timeout, args), timeout NoTimeout for the one without        *)
(*   and in macros char(code, shifted) and uchar(digits), one character.   *)
(* The digits of a unicode character are at most eight.                    *)
(***************************************************************************)
EXTENDS RpkCommon, Sequences, SequencesExt

NoTimeout == 65535
NoKey == -1       \* key_code of a name that is no key
SHIFT_MOD == {1}
MAX_DURATION == 5000
MAX_SETTLE == 25000000

\* The sum of the bits of a set.
Bits(S) == MapThenSumSet(LAMBDA b : 2^b, S)

NewLayer(name, suffix) == [name |-> name, suffix |-> suffix, part |-> FALSE, codes |-> << >>]

DEFAULT_LAYERS ==
  << NewLayer("control", {0}), NewLayer("shift", {1}), NewLayer("alt", {2}),
     NewLayer("gui", {3}), NewLayer("altgr", {6}), NewLayer("main", {}) >>

\* The names of the settings and their numbers in the file (GLOBALS, INDEX_TO_NAME, DEFAULTS).
GlobalIndex ==
  [mouse_profile1 |-> 0, mouse_profile2 |-> 1, mouse_profile3 |-> 2,
   dual_action_timeout |-> 3, overload_tap_timeout |-> 3, dual_action_timeout2 |-> 4,
   debounce_settle_time |-> 5, tapdance_tap_timeout |-> 6]

MouseProfileNames == {"mouse_profile1", "mouse_profile2", "mouse_profile3"}

DEFAULTS(name) ==
  IF name \in MouseProfileNames THEN DefaultProfiles[GlobalIndex[name]]
  ELSE DefaultTimeouts[GlobalIndex[name]]

\* Mutant: rounded down.
SettleTimeDown(us) == ((us \div 39063) * 1024 + ((us % 39063) * 1024) \div 39063) % 65536

\* parse_key_settle_time: microseconds to 39.063 us units, rounded up, as a u16.
SettleTime(us) ==
  ((us \div 39063) * 1024 + ((us % 39063) * 1024 + 39062) \div 39063) % 65536

(***************************************************************************)
(* The parser with its KeyboardConfig.                                     *)
(***************************************************************************)
NewConfig ==
  [err |-> FALSE, row_count |-> 0, col_count |-> 0, layers |-> DEFAULT_LAYERS,
   composites |-> << >>, macros |-> << >>, matrix_map |-> << >>, global_map |-> << >>,
   temp_map |-> [unicode_prefix |-> 0, unicode_suffix |-> 0], macro_sequence |-> FALSE]

\* A parser and the code of the action that it read.
Read(k, code) == [k |-> k, code |-> code]

Require(k, ok) == [k EXCEPT !.err = @ \/ ~ ok]

HasLayer(k, name) == \E i \in DOMAIN k.layers : k.layers[i].name = name

\* The index of a layer; any, for a name that there is not.
LayerIndex(k, name) ==
  IF HasLayer(k, name) THEN (CHOOSE i \in DOMAIN k.layers : k.layers[i].name = name) - 1 ELSE 0

\* Mutant: the id is the number of macros after the push.
AddMacroLate(k, bin) ==
  Read([k EXCEPT !.macros = Append(@, bin)], MACROS_MIN + Len(k.macros) + 1)

\* add_macro: a macro with the same words is used again.
AddMacro(k, bin) ==
  IF \E i \in DOMAIN k.macros : k.macros[i] = bin
  THEN Read(k, MACROS_MIN + (CHOOSE i \in DOMAIN k.macros : k.macros[i] = bin) - 1)
  ELSE Read([k EXCEPT !.macros = Append(@, bin)], MACROS_MIN + Len(k.macros))

AddModifier(k, mods, code) == AddMacro(k, <<256 * Bits(mods), code>>)

\* The kind of the macro that a code names (get_macro).
IsMacro(k, code, kind) ==
  code - MACROS_MIN + 1 \in DOMAIN k.macros /\ k.macros[code - MACROS_MIN + 1][1] = kind

\* The digits without their leading zeros.
Significant(digits) ==
  LET first == {i \in DOMAIN digits : digits[i] # 0 /\ \A j \in 1..(i - 1) : digits[j] = 0}
  IN IF first = {} THEN << >> ELSE SubSeq(digits, CHOOSE i \in first : TRUE, Len(digits))

KeyOfDigit(d) ==
  IF d = 0 THEN BASIC_0 ELSE IF d >= 10 THEN BASIC_A + d - 10 ELSE BASIC_1 + d - 1

\* unicode_to_seq: seven digits, typed between the prefix and the suffix.
UnicodeToSeq(k, digits) ==
  LET typed == Significant(digits)
  IN <<k.temp_map.unicode_prefix>> \o [i \in DOMAIN typed |-> KeyOfDigit(typed[i])]
       \o <<k.temp_map.unicode_suffix>>

\* char::from_u32 takes it.
IsScalar(digits) ==
  LET n == FoldLeft(LAMBDA v, d : 16 * v + d, 0, Significant(digits))
  IN Len(Significant(digits)) <= 6 /\ n <= 1114111 /\ n \notin 55296..57343

DurationsOk(times) == \A i \in DOMAIN times : times[i] <= MAX_DURATION

RECURSIVE ReadAction(_, _), MacroSequence(_, _, _), ReadActions(_, _, _)

\* read_action on one action after the other: the codes, after those in `seq`.
ReadActions(k, args, seq) ==
  IF args = << >> THEN [k |-> k, seq |-> seq]
  ELSE LET r == ReadAction(k, Head(args)) IN ReadActions(r.k, Tail(args), Append(seq, r.code))

\* macro_sequence, which ends with macro_sequence = false, also for a macro in a macro.
MacroSequence(k, items, seq) ==
  IF items = << >> THEN [k |-> [k EXCEPT !.macro_sequence = FALSE], seq |-> seq]
  ELSE LET item == Head(items)
           r == CASE item.t = "char" /\ item.shifted -> AddModifier(k, SHIFT_MOD, item.code)
                  [] item.t = "char" /\ ~ item.shifted -> Read(k, item.code)
                  [] item.t = "uchar" -> AddMacro(k, <<TAP>> \o UnicodeToSeq(k, item.digits))
                  [] OTHER -> ReadAction(k, item)
       IN MacroSequence(r.k, Tail(items), Append(seq, r.code))

\* `macro`, `hold` and `release`; a macro that only holds and releases is one of a kind.
AddSequence(k, t, seq) ==
  LET pair == t = "macro" /\ Len(seq) = 2 /\ IsMacro(k, seq[1], HOLD) /\ IsMacro(k, seq[2], RELEASE)
      kind == CASE t = "hold" -> HOLD [] t = "release" -> RELEASE
                [] OTHER -> IF pair THEN HOLD_RELEASE ELSE TAP
  IN AddMacro(k, <<kind>> \o seq)

\* dualaction: the tap action is read after the hold action, and comes first in the file.
DualAction(k, hold, e) ==
  LET tap == ReadAction(k, e.tap)
  IN AddMacro(Require(tap.k, DurationsOk(e.times)), <<DUAL_ACTION, tap.code, hold>> \o e.times)

\* tapdance and tapdancet, hold and tap by turns; refused while a macro sequence is read.
TapDance(k, e) ==
  LET r == ReadActions(k, e.args, << >>)
      pairs == e.args # << >> /\ Len(e.args) % 2 = 0
  IN AddMacro(Require(r.k, ~ k.macro_sequence /\ pairs /\ e.timeout \in 0..MAX_DURATION \cup {NoTimeout}),
              <<TAPDANCE, e.timeout>> \o r.seq)

\* read_action, parse_layer_code and parse_macro.
ReadAction(k, e) ==
  CASE e.t = "key" -> Read(k, e.code)
    [] e.t = "op" -> Read(Require(k, HasLayer(k, e.layer)), e.base + LayerIndex(k, e.layer))
    [] e.t \in {"macro", "hold", "release"} ->
         LET s == MacroSequence([k EXCEPT !.macro_sequence = TRUE], e.items, << >>)
         IN AddSequence(s.k, e.t, s.seq)
    [] e.t = "overload" ->
         DualAction(Require(k, HasLayer(k, e.layer)), LAYER + LayerIndex(k, e.layer), e)
    [] e.t = "dualaction" ->
         LET hold == ReadAction(k, e.hold) IN DualAction(hold.k, hold.code, e)
    [] e.t = "tapdance" -> TapDance(k, e)
    [] e.t = "unicode" ->
         AddMacro(Require(k, IsScalar(e.digits)), <<TAP>> \o UnicodeToSeq(k, e.digits))
    [] e.t = "delay" -> AddMacro(Require(k, e.ms <= MAX_DURATION), <<DELAY, e.ms>>)
    [] e.t = "mods" -> AddModifier(k, e.mods, e.code)
    [] OTHER -> Read(Require(k, FALSE), 0)

(***************************************************************************)
(* Sections.  scan_layer_names looks at all headers before anything else   *)
(* is read, so that an action may name a layer that comes later.           *)
(***************************************************************************)
\* ensure_section.  The section "firmware" is a layer name to it.
EnsureSection(k, h) ==
  CASE h.kind = "matrix" -> [k EXCEPT !.row_count = h.rows, !.col_count = h.cols]
    [] h.kind \in {"layer", "firmware"} /\ Len(h.names) = 1 ->
         IF HasLayer(k, h.names[1])
         THEN Require(k, h.suffix \in {{}, k.layers[LayerIndex(k, h.names[1]) + 1].suffix})
         ELSE [k EXCEPT !.layers = Append(@, NewLayer(h.names[1], h.suffix))]
    [] OTHER -> k

ScanLayerNames(headers) == FoldLeft(EnsureSection, NewConfig, headers)

\* The key of a composite: the indices of its layers.
CompositeKey(k, names) == {LayerIndex(k, names[i]) : i \in DOMAIN names}

EnsureComposite(k, names) ==
  LET parts == CompositeKey(k, names)
      known == \A i \in DOMAIN names : HasLayer(k, names[i])
      suffix == UNION {k.layers[i + 1].suffix : i \in parts}
  IN Require([k EXCEPT
       !.layers = [i \in DOMAIN k.layers |-> [k.layers[i] EXCEPT !.part = @ \/ i - 1 \in parts]],
       !.composites = @ @@ (parts :> [suffix |-> suffix, codes |-> << >>])],
       known /\ \A i \in parts : i <= 31)

\* The start of a section: ensure_composite; take_global of a profile.
EnterSection(k, h) ==
  CASE h.kind = "layer" /\ Len(h.names) > 1 -> EnsureComposite(k, h.names)
    [] h.kind = "profile" /\ h.name \in DOMAIN GlobalIndex ->
         [k EXCEPT !.global_map = @ @@ (h.name :> DEFAULTS(h.name))]
    [] h.kind = "profile" /\ h.name \notin DOMAIN GlobalIndex -> Require(k, FALSE)
    [] OTHER -> k

\* assign_position_name
AssignPositionName(k, pos, name) ==
  [k EXCEPT !.matrix_map =
     (name :> (IF name \in DOMAIN @ THEN Append(@[name], pos) ELSE <<pos>>)) @@ @]

\* The positions that the left side of an assignment names; none if it is unknown.
Positions(k, left) ==
  CASE left.name = "" -> <<left.pos>>
    [] left.name \in DOMAIN k.matrix_map -> k.matrix_map[left.name]
    [] OTHER -> << >>

\* assign_layer_code, assign_composite_code
AssignCode(k, names, pos, code) ==
  IF Len(names) > 1
  THEN [k EXCEPT !.composites[CompositeKey(k, names)].codes = (pos :> code) @@ @]
  ELSE [k EXCEPT !.layers[LayerIndex(k, names[1]) + 1].codes = (pos :> code) @@ @]

\* The row is one of the matrix and the columns from pos on hold n keys.
RowFits(k, pos, n) == pos \div 256 < k.row_count /\ (pos % 256) + n <= k.col_count

ReadMatrixLine(k, line) ==
  FoldLeftDomain(
    LAMBDA c, i :
      LET named == AssignPositionName(c, line.pos + i - 1, line.keys[i].name)
      IN IF line.keys[i].code = NoKey THEN named
         ELSE AssignCode(named, <<"main">>, line.pos + i - 1, line.keys[i].code),
    Require(k, RowFits(k, line.pos, Len(line.keys))), line.keys)

\* assign_aliases
ReadAliasLine(k, line) ==
  FoldLeft(LAMBDA c, pos : AssignPositionName(c, pos, line.name),
           Require(k, Positions(k, line.left) # << >>), Positions(k, line.left))

\* parse_layer: one position starts a row of actions, several have one action.
ReadLayerLine(k, names, line) ==
  LET positions == Positions(k, line.left)
      actions == ReadActions(k, line.right, << >>)
  IN IF Len(positions) = 1
     THEN FoldLeftDomain(LAMBDA c, i : AssignCode(c, names, positions[1] + i - 1, actions.seq[i]),
            Require(actions.k, RowFits(k, positions[1], Len(line.right))), line.right)
     ELSE FoldLeft(LAMBDA c, pos : AssignCode(c, names, pos, actions.seq[1]),
            Require(actions.k, positions # << >> /\ Len(line.right) = 1), positions)

\* assign_global
ReadGlobalLine(k, line) ==
  CASE line.name \in DOMAIN k.temp_map ->
         LET r == ReadAction(k, line.action) IN [r.k EXCEPT !.temp_map[line.name] = r.code]
    [] line.name = "debounce_settle_time" ->
         Require([k EXCEPT !.global_map = (line.name :> SettleTime(line.value)) @@ @],
                 line.value <= MAX_SETTLE)
    [] line.name \in DOMAIN GlobalIndex \ (MouseProfileNames \cup {"debounce_settle_time"}) ->
         Require([k EXCEPT !.global_map = (line.name :> line.value) @@ @],
                 line.value <= MAX_DURATION)
    [] OTHER -> Require(k, FALSE)

\* The floats of a MouseAnalogSetting that a field names.
FieldAt == [curve |-> 1..2, max_time |-> {3}, min_ticks_per_ms |-> {4}, max_ticks_per_ms |-> {5}]

\* set_sub_field
ReadProfileLine(k, h, line) ==
  IF h.name \in MouseProfileNames /\ h.field \in {"movement", "scroll"} /\ line.name \in DOMAIN FieldAt
  THEN [k EXCEPT !.global_map[h.name][h.field] =
          [i \in 1..5 |-> IF i \in FieldAt[line.name] THEN line.value[((i - 1) % Len(line.value)) + 1] ELSE @[i]]]
  ELSE Require(k, FALSE)

\* One line of a section.  parse_firmware keeps what build tools ask for and nothing else.
ReadLine(k, h, line) ==
  CASE h.kind = "matrix" -> ReadMatrixLine(k, line)
    [] h.kind = "aliases" -> ReadAliasLine(k, line)
    [] h.kind = "global" -> ReadGlobalLine(k, line)
    [] h.kind = "profile" -> ReadProfileLine(k, h, line)
    [] h.kind = "layer" -> ReadLayerLine(k, h.names, line)
    [] h.kind = "firmware" -> k

(***************************************************************************)
(* serialize                                                               *)
(***************************************************************************)
\* The elements of a set of numbers in order.
Ascending(S) ==
  [i \in 1..Cardinality(S) |-> CHOOSE n \in S : Cardinality({m \in S : m < n}) = i - 1]

\* Composites are in the order of their keys as numbers.
KeyBelow(a, b) == a # b /\ Max((a \ b) \cup (b \ a)) \in b

SortedKeys(K) ==
  [i \in 1..Cardinality(K) |-> CHOOSE a \in K : Cardinality({b \in K : KeyBelow(b, a)}) = i - 1]

\* More than a third of the keys are assigned.
IsDense(k, codes) == 3 * Cardinality(DOMAIN codes) > k.row_count * k.col_count

\* The code of a cell, counted along the rows.
CodeOfCell(k, codes, cell) ==
  LET pos == (cell \div k.col_count) * 256 + (cell % k.col_count)
  IN IF pos \in DOMAIN codes THEN codes[pos] ELSE 0

\* Mutant: the pairs are not in the order of their positions.
CodeWordsUnsorted(k, codes) ==
  IF IsDense(k, codes)
  THEN [i \in 1..(k.row_count * k.col_count) |-> CodeOfCell(k, codes, i - 1)]
  ELSE LET sorted == Reverse(Ascending(DOMAIN codes))
       IN FlattenSeq([i \in DOMAIN sorted |-> <<sorted[i], codes[sorted[i]]>>])

\* Every cell, or pairs of position and code.
CodeWords(k, codes) ==
  IF IsDense(k, codes)
  THEN [i \in 1..(k.row_count * k.col_count) |-> CodeOfCell(k, codes, i - 1)]
  ELSE LET sorted == Ascending(DOMAIN codes)
       IN FlattenSeq([i \in DOMAIN sorted |-> <<sorted[i], codes[sorted[i]]>>])

LayerWords(k, layer) ==
  <<Bits(layer.suffix) + (IF layer.part THEN COMPOSITE_PART_BIT ELSE 0)>> \o CodeWords(k, layer.codes)

CompositeWords(k, key) ==
  <<Bits(k.composites[key].suffix) + COMPOSITE_BIT, Bits(key \cap 0..15),
    Bits({i - 16 : i \in key \ 0..15})>> \o CodeWords(k, k.composites[key].codes)

FloatWords(setting) == FlattenSeq(setting)

SettingWords(k, name) ==
  <<GlobalIndex[name]>> \o
    (IF name \in MouseProfileNames
     THEN FloatWords(k.global_map[name].movement) \o FloatWords(k.global_map[name].scroll)
     ELSE <<k.global_map[name]>>)

\* The settings by index.  Two names share an index: the map they are in decides which of
\* them comes first, `first`.
SerializeGlobals(k, first) ==
  LET Names(i) == {n \in DOMAIN k.global_map : GlobalIndex[n] = i}
      Of(S) == IF S = {} THEN << >> ELSE SettingWords(k, CHOOSE n \in S : TRUE)
  IN FlattenSeq([i \in 1..7 |-> Of(Names(i - 1) \cap {first}) \o Of(Names(i - 1) \ {first})])

\* Mutant: the last entry is forgotten where the directory's own length counts.
DirectoryShort(bodies) ==
  [i \in 1..(Len(bodies) + 1) |-> Len(bodies) + Len(FlattenSeq(SubSeq(bodies, 1, i - 1)))]

\* The directory: where each body begins, and where the last one ends.
Directory(bodies) ==
  [i \in 1..(Len(bodies) + 1) |-> Len(bodies) + 1 + Len(FlattenSeq(SubSeq(bodies, 1, i - 1)))]

Bodies(k) ==
  [i \in DOMAIN k.layers |-> LayerWords(k, k.layers[i])]
    \o [i \in 1..Cardinality(DOMAIN k.composites) |->
          CompositeWords(k, SortedKeys(DOMAIN k.composites)[i])]
    \o k.macros

Serialize(k, first) ==
  <<PROTOCOL_VERSION, 256 * k.row_count + k.col_count,
    Len(k.layers) + 256 * Cardinality(DOMAIN k.composites), Len(k.macros),
    Len(SerializeGlobals(k, first))>>
  \o SerializeGlobals(k, first) \o Directory(Bodies(k)) \o FlattenSeq(Bodies(k))
=============================================================================
