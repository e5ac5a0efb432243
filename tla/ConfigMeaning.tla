--------------------------- MODULE ConfigMeaning ---------------------------
(***************************************************************************)
(* What a configuration means to the one who wrote it, without the words   *)
(* it is compiled to: the layers and their modifiers, the action of every  *)
(* key as a tree, the settings.  The text is the one of CompilerOps: the   *)
(* headers of its sections and the lines read in each.  It says nothing of *)
(* texts that the compiler refuses.                                        *)
(***************************************************************************)
EXTENDS CompilerOps

\* The lines in their order, each with the header it is under.
Statements(src) ==
  FlattenSeq([s \in DOMAIN src.lines |->
    [j \in DOMAIN src.lines[s] |-> [head |-> src.headers[s], line |-> src.lines[s][j]]]])

\* The layers: the six that are always there, then the others as they are first named.
LayerNames(src) ==
  LET named == SelectSeq(src.headers, LAMBDA h : h.kind \in {"layer", "firmware"} /\ Len(h.names) = 1)
      all == [i \in DOMAIN DEFAULT_LAYERS |-> DEFAULT_LAYERS[i].name]
               \o [i \in DOMAIN named |-> named[i].names[1]]
      firsts == {i \in DOMAIN all : \A j \in 1..(i - 1) : all[j] # all[i]}
  IN [n \in 1..Cardinality(firsts) |->
        all[CHOOSE i \in firsts : Cardinality({j \in firsts : j < i}) = n - 1]]

\* The modifiers of a layer are given where it is first named.
LayerModifiers(src, name) ==
  IF \E i \in DOMAIN DEFAULT_LAYERS : DEFAULT_LAYERS[i].name = name
  THEN (CHOOSE layer \in ToSet(DEFAULT_LAYERS) : layer.name = name).suffix
  ELSE SelectSeq(src.headers, LAMBDA h : h.kind \in {"layer", "firmware"} /\ h.names = <<name>>)[1].suffix

\* The composites, as sets of names.
CompositeNames(src) ==
  {ToSet(h.names) : h \in {g \in ToSet(src.headers) : g.kind = "layer" /\ Len(g.names) > 1}}

\* The last statement with a property, or `none`.
LastStatement(stmts, P(_), none) ==
  LET found == {i \in DOMAIN stmts : P(stmts[i])}
  IN IF found = {} THEN none ELSE stmts[Max(found)]

\* The positions that a name stands for after some statements.
RECURSIVE Named(_, _)
LeftOf(stmts, left) == IF left.name = "" THEN {left.pos} ELSE Named(stmts, left.name)
Named(stmts, name) ==
  IF stmts = << >> THEN {}
  ELSE LET s == Last(stmts)
       IN Named(Front(stmts), name) \cup
          CASE s.head.kind = "matrix" ->
                 {s.line.pos + i - 1 : i \in {j \in DOMAIN s.line.keys : s.line.keys[j].name = name}}
            [] s.head.kind = "aliases" /\ s.line.name = name -> LeftOf(Front(stmts), s.line.left)
            [] OTHER -> {}

Key(code) == [t |-> "key", code |-> code]

\* The keys that the n-th statement assigns in a layer or composite: <<position, action>>.
Assigned(stmts, n, names) ==
  LET s == stmts[n]
      at == LeftOf(SubSeq(stmts, 1, n - 1), s.line.left)
  IN CASE s.head.kind = "matrix" /\ names = {"main"} ->
            {<<s.line.pos + i - 1, Key(s.line.keys[i].code)>> :
               i \in {j \in DOMAIN s.line.keys : s.line.keys[j].code # NoKey}}
       [] s.head.kind = "layer" /\ ToSet(s.head.names) = names ->
            IF Cardinality(at) = 1
            THEN {<<CHOOSE p \in at : TRUE, s.line.right[1]>>} \cup
                 {<<(CHOOSE p \in at : TRUE) + i - 1, s.line.right[i]>> : i \in DOMAIN s.line.right}
            ELSE {<<p, s.line.right[1]>> : p \in at}
       [] OTHER -> {}

\* The action that is typed before or after the digits of a unicode character.
Around(stmts, name) ==
  LastStatement(stmts, LAMBDA s : s.head.kind = "global" /\ s.line.name = name,
                [line |-> [action |-> Key(0)]]).line.action

(***************************************************************************)
(* The tree of an action read after the statements `stmts`.                *)
(***************************************************************************)
Code(n) == <<"code", n>>

RECURSIVE Meaning(_, _, _)
UnicodeMeaning(src, stmts, digits) ==
  LET typed == Significant(digits)
  IN <<"sequence", TAP,
       <<Meaning(src, << >>, Around(stmts, "unicode_prefix"))>>
         \o [i \in DOMAIN typed |-> Code(KeyOfDigit(typed[i]))]
         \o <<Meaning(src, << >>, Around(stmts, "unicode_suffix"))>> >>
Meaning(src, stmts, e) ==
  LET Number(name) == (CHOOSE i \in DOMAIN LayerNames(src) : LayerNames(src)[i] = name) - 1
      All(es) == [i \in DOMAIN es |-> Meaning(src, stmts, es[i])]
      Time(i) == IF i \in DOMAIN e.times THEN e.times[i] ELSE 65535
      Dual(hold) == <<"dualaction", Meaning(src, stmts, e.tap), hold, Time(1), Time(2)>>
  IN CASE e.t = "key" \/ (e.t = "char" /\ ~ e.shifted) -> Code(e.code)
       [] e.t = "char" /\ e.shifted -> <<"mods", SHIFT_MOD, e.code>>
       [] e.t \in {"uchar", "unicode"} -> UnicodeMeaning(src, stmts, e.digits)
       [] e.t = "op" -> Code(e.base + Number(e.layer))
       [] e.t = "macro" ->
            IF Len(e.items) = 2 /\ e.items[1].t = "hold" /\ e.items[2].t = "release"
            THEN <<"hold_release", Meaning(src, stmts, e.items[1]), Meaning(src, stmts, e.items[2])>>
            ELSE <<"sequence", TAP, All(e.items)>>
       [] e.t = "hold" -> <<"sequence", HOLD, All(e.items)>>
       [] e.t = "release" -> <<"sequence", RELEASE, All(e.items)>>
       [] e.t = "overload" -> Dual(Code(LAYER + Number(e.layer)))
       [] e.t = "dualaction" -> Dual(Meaning(src, stmts, e.hold))
       [] e.t = "tapdance" -> <<"tapdance", e.timeout, All(e.args)>>
       [] e.t = "delay" -> <<"delay", e.ms>>
       [] e.t = "mods" -> <<"mods", e.mods, e.code>>

\* The action of a key of a layer or composite: the last one assigned to it.
KeyMeaning(src, names, pos) ==
  LET stmts == Statements(src)
      found == {n \in DOMAIN stmts : \E a \in Assigned(stmts, n, names) : a[1] = pos}
      n == Max(found)
  IN IF found = {} THEN Code(0)
     ELSE Meaning(src, SubSeq(stmts, 1, n),
                  (CHOOSE a \in Assigned(stmts, n, names) : a[1] = pos)[2])

(***************************************************************************)
(* Settings.                                                               *)
(***************************************************************************)
\* The lines that give a setting.
SettingLines(src, names) ==
  SelectSeq(Statements(src), LAMBDA s : s.head.kind = "global" /\ s.line.name \in names)

\* The values that a text gives a timeout; two names of one timeout leave it open.
TimeoutMeaning(src, i) ==
  LET names == {n \in DOMAIN GlobalIndex : GlobalIndex[n] = i}
      values == {Last(SettingLines(src, {n})).line.value :
                   n \in {m \in names : SettingLines(src, {m}) # << >>}}
  IN values

\* The value that a text gives a float of a mouse profile; `unsaid` if it gives none.
FloatMeaning(src, i, field, j, unsaid) ==
  LET given == SelectSeq(Statements(src), LAMBDA s :
                 /\ s.head.kind = "profile" /\ GlobalIndex[s.head.name] = i /\ s.head.field = field
                 /\ j \in FieldAt[s.line.name])
  IN IF given = << >> THEN unsaid
     ELSE Last(given).line.value[IF Len(Last(given).line.value) = 1 THEN 1 ELSE j]
=============================================================================
