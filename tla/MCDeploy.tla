------------------------------ MODULE MCDeploy ------------------------------
(***************************************************************************)
(* Instances of Deploy: a keyboard of two rows and six columns, and small  *)
(* configurations, each a sequence of sections with the lines that may be  *)
(* written in them in any order, also twice.                               *)
(***************************************************************************)
EXTENDS Deploy

\* Actions.
K(code) == [t |-> "key", code |-> code]
Op(base, layer) == [t |-> "op", base |-> base, layer |-> layer]
Mods(mods, code) == [t |-> "mods", mods |-> mods, code |-> code]
Items(t, items) == [t |-> t, items |-> items]
Char(code, shifted) == [t |-> "char", code |-> code, shifted |-> shifted]
Unicode(digits) == [t |-> "unicode", digits |-> digits]
Dance(timeout, args) == [t |-> "tapdance", timeout |-> timeout, args |-> args]
Dual(hold, tap, times) == [t |-> "dualaction", hold |-> hold, tap |-> tap, times |-> times]
Overload(layer, tap) == [t |-> "overload", layer |-> layer, tap |-> tap, times |-> << >>]
Delay(ms) == [t |-> "delay", ms |-> ms]

\* Headers.
Matrix(rows, cols) == [kind |-> "matrix", names |-> << >>, rows |-> rows, cols |-> cols]
Plain(kind) == [kind |-> kind, names |-> <<kind>>, suffix |-> {}]
LayerOf(name, suffix) == [kind |-> "layer", names |-> <<name>>, suffix |-> suffix]
CompositeOf(names) == [kind |-> "layer", names |-> names, suffix |-> {}]
Profile(name, field) == [kind |-> "profile", names |-> << >>, name |-> name, field |-> field]

\* Lines.
At(pos) == [name |-> "", pos |-> pos]
Of(name) == [name |-> name, pos |-> 0]
Row(pos, names, codes) ==
  [pos |-> pos, keys |-> [i \in DOMAIN names |-> [name |-> names[i], code |-> codes[i]]]]
Alias(left, name) == [left |-> left, name |-> name]
Assign(left, right) == [left |-> left, right |-> right]
Set(name, value) == [name |-> name, value |-> value]
AroundLine(name, action) == [name |-> name, action |-> action]

\* A section: its header, the lines it may have, and how many of them.
Sect(header, menu, most) == [header |-> header, menu |-> menu, most |-> most]
TextOf(sections) ==
  [headers |-> [i \in DOMAIN sections |-> sections[i].header],
   menus |-> [i \in DOMAIN sections |-> sections[i].menu],
   most |-> [i \in DOMAIN sections |-> sections[i].most]]

TwoRows == Sect(Matrix(2, 6), {Row(0, <<"a", "b">>, <<10, 11>>)}, 1)

\* Rows of keys that overlap, sparse and dense; rows that are too long; unknown names.
Rows == TextOf(<<
  Sect(Matrix(2, 6), {Row(0, <<"a", "b", "c">>, <<10, NoKey, 0>>), Row(256, <<"d">>, <<NoKey>>),
                          Row(4, <<"e", "f", "g">>, <<14, 15, 16>>)}, 2),
  Sect(LayerOf("main", {}), {Assign(At(1), <<K(20), K(21)>>), Assign(Of("b"), <<K(22)>>),
                                 Assign(Of("a"), <<K(23), K(24), K(25), K(26), K(27)>>)}, 2),
  Sect(Plain("firmware"), {Set("serial_number", 1)}, 1),
  Sect(LayerOf("nav", {0, 2}), {Assign(Of("d"), <<Op(LAYER, "nav")>>), Assign(At(260), <<K(4), K(5)>>),
                                    Assign(At(258), <<K(6)>>), Assign(At(3), <<Op(TOGGLE, "sym")>>)}, 3)>>)

\* Composites, one of them written twice, and with a layer that comes later or not at all.
Composites == TextOf(<<
  TwoRows,
  Sect(CompositeOf(<<"shift", "control">>), {Assign(At(256), <<K(30)>>), Assign(Of("a"), <<K(31), K(32), K(33), K(34), K(35)>>)}, 1),
  Sect(CompositeOf(<<"nav", "control">>), {Assign(At(257), <<Op(ONESHOT, "nav")>>)}, 1),
  Sect(CompositeOf(<<"control", "shift">>), {Assign(At(256), <<K(36)>>)}, 1),
  Sect(LayerOf("nav", {2}), {Assign(At(261), <<K(37)>>)}, 1)>>)

UnknownPart == TextOf(<<TwoRows, Sect(CompositeOf(<<"nav", "control">>), {}, 0)>>)

\* Macros in macros, equal macros, dual actions, tap dances.
HoldRelease == Items("macro", <<Items("hold", <<K(224)>>), Items("release", <<K(224)>>)>>)
Macros == TextOf(<<
  TwoRows,
  Sect(LayerOf("main", {}),
    {Assign(At(2), <<HoldRelease, Mods({0, 1}, 6)>>),
     Assign(At(3), <<Items("macro", <<Char(4, FALSE), Char(5, TRUE), Delay(50), K(6)>>)>>),
     Assign(At(256), <<Dual(Op(LAYER, "nav"), Mods({1}, 5), <<200>>), Overload("nav", K(7))>>),
     Assign(At(258), <<Dance(300, <<K(8), HoldRelease, Dance(NoTimeout, <<K(9), K(9)>>), K(8)>>)>>),
     Assign(At(260), <<Items("hold", <<K(224), Mods({0, 1}, 6)>>)>>)}, 2),
  Sect(LayerOf("nav", {}),
    {Assign(At(5), <<Dual(Mods({0, 1}, 6), K(7), <<150, 5000>>)>>),
     Assign(At(5), <<Items("macro", <<Char(5, TRUE), Items("release", << >>)>>)>>)}, 1)>>)

\* What is refused.
Refused == TextOf(<<
  TwoRows,
  Sect(LayerOf("main", {}),
    {Assign(At(2), <<Items("macro", <<Dance(300, <<K(8), K(9)>>)>>)>>), Assign(At(2), <<Dance(300, <<K(8), K(9), K(10)>>)>>), Assign(At(2), <<Delay(5001)>>),
     Assign(At(2), <<Dual(K(4), K(5), <<200, 5001>>)>>), Assign(At(2), <<Overload("zap", K(4))>>),
     Assign(At(2), <<Unicode(<<13, 8, 0, 0>>)>>), Assign(Of("zap"), <<K(4)>>), Assign(At(512), <<K(4)>>),
     Assign(At(2), <<Op(SET_LAYOUT, "zap")>>), Assign(At(5), <<K(4), K(5)>>)}, 1)>>)

\* Unicode characters between a prefix and a suffix that change, twice, after a use.
PrefixLines == {AroundLine("unicode_prefix", Mods({0, 1}, 24)), AroundLine("unicode_suffix", K(44))}
UnicodeText == TextOf(<<
  TwoRows,
  Sect(Plain("global"), PrefixLines, 2),
  Sect(LayerOf("main", {}), {Assign(At(3), <<Unicode(<<0, 0, 2, 6, 3, 10>>)>>),
                                 Assign(At(4), <<Items("macro", <<[t |-> "uchar", digits |-> <<14, 9>>]>>)>>)}, 1),
  Sect(Plain("global"), {AroundLine("unicode_prefix", Items("macro", <<K(230), Char(24, TRUE)>>))}, 1),
  Sect(LayerOf("main", {}), {Assign(At(5), <<Unicode(<<2, 6, 3, 10>>)>>)}, 1)>>)

\* Names of several keys.
Aliases == TextOf(<<
  TwoRows,
  Sect(Plain("aliases"), {Alias(At(0), "h"), Alias(At(258), "h"), Alias(Of("b"), "h"), Alias(Of("h"), "k"), Alias(Of("zap"), "k")}, 3),
  Sect(LayerOf("main", {}), {Assign(Of("h"), <<K(20)>>), Assign(Of("k"), <<K(21)>>)}, 2)>>)

\* Settings, and a text that gives others.
SettingsText == TextOf(<<
  TwoRows,
  Sect(Plain("global"), {Set("dual_action_timeout", 200), Set("overload_tap_timeout", 150),
                             Set("debounce_settle_time", 100), Set("debounce_settle_time", 2499961),
                             Set("tapdance_tap_timeout", 5001), Set("zap", 1)}, 2),
  Sect(Profile("mouse_profile2", "movement"),
           {Set("curve", <<<<1, 2>>, <<3, 4>>>>), Set("max_time", <<<<5, 6>>>>), Set("zap", <<<<0, 0>>>>)}, 1)>>)
LaterSettings == TextOf(<<
  TwoRows,
  Sect(Plain("global"), {Set("tapdance_tap_timeout", 100)}, 1),
  Sect(Profile("mouse_profile2", "scroll"), {Set("min_ticks_per_ms", <<<<7, 8>>>>)}, 1)>>)
BadProfile == TextOf(<<Sect(Profile("dual_action_timeout2", "movement"), {Set("max_time", <<<<5, 6>>>>)}, 1)>>)
NoProfile == TextOf(<<Sect(Profile("mouse_profile4", "movement"), {}, 0)>>)

\* The modifiers of a layer may be repeated, not changed.
SameSuffix == TextOf(<<TwoRows, Sect(LayerOf("nav", {0}), {Assign(At(1), <<K(20)>>)}, 1),
                     Sect(LayerOf("nav", {}), {Assign(At(2), <<K(21)>>)}, 1), Sect(LayerOf("nav", {0}), {}, 0)>>)
OtherSuffix == TextOf(<<TwoRows, Sect(LayerOf("nav", {0}), {}, 0), Sect(LayerOf("nav", {1}), {}, 0)>>)

\* A matrix of another keyboard, and a layout that may not fit.
OtherMatrix == TextOf(<<Sect(Matrix(2, 5), {Row(0, <<"a">>, <<10>>)}, 1),
                        Sect(Plain("global"), {Set("dual_action_timeout2", 30)}, 1)>>)
SixKeys(base, pos) == Assign(At(pos), [i \in 1..6 |-> Mods({1, 2}, base + i)])
Large == TextOf(<<TwoRows, Sect(LayerOf("main", {}), {SixKeys(20, 0), SixKeys(30, 256)}, 2),
                  Sect(Plain("global"), {Set("dual_action_timeout2", 30)}, 1),
                  Sect(LayerOf("nav", {}), {SixKeys(40, 0)}, 1)>>)

\* Layouts of a few words less, as many and more words than there is room for.
Hold(n, code) == Items("hold", [i \in 1..n |-> K(code)])
Limit == TextOf(<<TwoRows, Sect(LayerOf("main", {}), {Assign(At(2), <<Hold(9, 10), Hold(9, 11)>>)}, 1),
                  Sect(LayerOf("nav", {}), {Assign(At(2), <<Hold(9, 12), Hold(9, 13)>>)}, 1),
                  Sect(LayerOf("main", {}), {Assign(At(256), <<Hold(n, 14)>>) : n \in 13..17}, 1)>>)

AllProjects ==
  {<<Rows>>, <<Composites>>, <<UnknownPart>>, <<Macros>>, <<Refused>>, <<UnicodeText>>, <<Aliases>>,
   <<SettingsText, LaterSettings>>, <<BadProfile, NoProfile>>, <<SameSuffix, OtherSuffix>>,
   <<OtherMatrix, Large>>, <<Large, OtherMatrix>>, <<Limit>>}

\* The layout in the firmware: the keys of the first row.
BuiltInWords ==
  LET k == ScanLayerNames(<<Matrix(2, 6)>>)
  IN Serialize(ReadMatrixLine(k, Row(0, <<"a", "b", "c", "d", "e", "f">>, <<4, 5, 6, 7, 8, 9>>)), "")
\* The pairs of a sparse layer with n keys, and whether search_code finds them all.
Pairs(n) == [i \in 1..(2 * n) |-> IF i % 2 = 1 THEN i \div 2 ELSE 1000 + (i \div 2) - 1]
FindsAll(n) == \A key \in 0..(n - 1) : SearchCode(Pairs(n), 2 * n, key) = 1000 + key

\* search_code halves its middle whatever is left of the pairs, so that there are sizes of
\* sparse layers in which the last keys are never found (see README.md).
ASSUME SparseSearch == {n \in 0..60 : ~ FindsAll(n)} = {16, 32, 33, 34, 36, 40, 48}
=============================================================================
