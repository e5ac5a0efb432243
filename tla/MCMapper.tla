------------------------------ MODULE MCMapper ------------------------------
(***************************************************************************)
(* Keyboards for Mapper.  Codes 4.. are the letters of the host, 224.. its *)
(* modifiers, 1536 + n is layer(n), 4096 + n macro n.  Layers 0..4 are the *)
(* modifier layers, 5 is main, from 6 on there are user layers.            *)
(***************************************************************************)
EXTENDS Mapper

Three(a, b, c) == (0 :> a) @@ (1 :> b) @@ (2 :> c)
Nothing == Three(0, 0, 0)
LayerWith(codes, mods) == [codes |-> codes, mods |-> mods]

\* A keyboard with this main layer and no other user layer that matters.
Main(a, b, c) ==
  [n \in 0..7 |-> LayerWith(IF n = 5 THEN Three(a, b, c) ELSE Nothing,
                            IF n = 4 THEN {6} ELSE IF n < 4 THEN {n} ELSE {})]

Plain(layers, macros) ==
  [keys |-> {0, 1, 2}, layers |-> layers, macros |-> macros, codes |-> << >>,
   slow_host |-> FALSE, presses |-> 3, each |-> 3, key_time |-> 2, max_time |-> 2,
   shows |-> << >>, makes |-> << >>]

Dual(tap, hold) == [type |-> "dual_action", tap |-> tap, hold |-> hold,
                    time1 |-> U16MAX, time2 |-> U16MAX]
ModMacro(code, mods) == [type |-> "modifier", code |-> code, mods |-> mods]

\* A key that is control when held and a letter when tapped, between two letters.
OneDual ==
  [Plain(Main(4096, 5, 6), (0 :> Dual(4, 224))) EXCEPT
    !.key_time = 2, !.max_time = 3, !.each = 2, !.shows = Three({4, 224}, {5}, {6})]

\* The same with two keys, at a host that does not take the reports in time.
SlowHost == [OneDual EXCEPT !.keys = {0, 1}, !.slow_host = TRUE, !.shows = << >>]

\* Two such keys, one for control and one for the shift layer, which changes the letter.
TwoDuals ==
  [Plain([Main(4096, 4097, 6) EXCEPT ![1].codes = Three(0, 0, 7)],
         (0 :> Dual(4, 224)) @@ (1 :> Dual(5, 1536 + 1))) EXCEPT
    !.each = 1, !.shows = Three({4, 224}, {5, 225}, {6, 7})]

\* A tap dance on key 0: hold for shift, tap for a letter, tap and hold for a layer,
\* tap twice for another letter.  The codes follow the timeout.
TapDance ==
  [Plain([Main(4096, 5, 5) EXCEPT ![6].codes = Three(0, 7, 7)],
         (0 :> [type |-> "tapdance", location |-> 100, len |-> 5])) EXCEPT
    !.keys = {0, 1}, !.key_time = 4, !.max_time = 4,
    !.codes = (100 :> U16MAX) @@ (101 :> 225) @@ (102 :> 4) @@ (103 :> 1536 + 6) @@ (104 :> 8)]

\* Shift has a code of its own for key 1, so that shift is taken away while key 1 is
\* down; key 2 activates a layer with control.
LayerModifiers ==
  [Plain([Main(225, 5, 1536 + 6) EXCEPT ![6].mods = {0}, ![1].codes = Three(0, 30, 0)], << >>)
    EXCEPT !.presses = 4]

\* Two modifier macros that share shift, and shift itself.
ModifierMacros ==
  [Plain(Main(4096, 4097, 225), (0 :> ModMacro(4, {0, 1})) @@ (1 :> ModMacro(5, {1})))
    EXCEPT !.presses = 4]

\* Key 0 holds shift and a letter while it is down, and taps two letters and a third
\* macro in between: macros that interrupt macros.
NestedMacros ==
  [Plain(Main(4096, 4099, 20),
         (0 :> [type |-> "hold_release", hold |-> 1, release |-> 2]) @@
         (1 :> Sequence("hold", 100, 3)) @@ (2 :> Sequence("release", 110, 2)) @@
         (3 :> Sequence("tap", 120, 3)) @@ (4 :> Sequence("tap", 130, 3))) EXCEPT
    !.codes = (100 :> 225) @@ (101 :> 4099) @@ (102 :> 10) @@ (110 :> 10) @@ (111 :> 225) @@
              (120 :> 4) @@ (121 :> 5) @@ (122 :> 4100) @@ (130 :> 6) @@ (131 :> 7) @@ (132 :> 8),
    !.makes = Three(<<225, 4, 5, 6, 7, 8, 10>>, <<4, 5, 6, 7, 8>>, <<20>>)]

\* The pointer to the right and to the left, and a key that is a letter when tapped and,
\* when held, a layer in which the first two keys move the pointer down and are a mouse button.
MousePointer ==
  [Plain([Main(1024 + 9, 1024 + 8, 4096) EXCEPT ![6].codes = Three(1024 + 10, 1024, 0)],
         (0 :> Dual(4, 1536 + 6))) EXCEPT !.key_time = 2, !.max_time = 3, !.each = 1]

\* Five movement keys are down, one of them the other direction of an axis, and four go
\* up.  The code counts down to none: there are no more reports, though a key is down
\* and its axis moves, and when another key goes down that axis has started later than
\* the time of the next report, a difference that the code takes of unsigned numbers.
AfterFiveKeys ==
  FoldLeft(LAMBDA m, e : Move(m, e[1], e[2], e[3]), NoMouse,
    <<<<8, TRUE, 2>>, <<9, TRUE, 50>>, <<10, TRUE, 50>>, <<12, TRUE, 50>>, <<14, TRUE, 50>>,
      <<8, FALSE, 60>>, <<10, FALSE, 60>>, <<12, FALSE, 60>>, <<14, FALSE, 60>>>>)

ASSUME FiveMovementKeys ==
  LET m == AfterFiveKeys
      n == Move(m, 10, TRUE, 70)
  IN /\ m.first = 0 /\ m.start[0] # 0
     /\ n.start[0] > 70 + 16 - n.first

\* clear_all next to a dual action.
ClearsAll ==
  [Plain(Main(4096, 8194, 5), (0 :> Dual(4, 224))) EXCEPT
    !.keys = {0, 1}, !.max_time = 3, !.each = 2]

\* Two keys that activate a layer when held, each pressed twice.
TwoLayers ==
  [TwoDuals EXCEPT !.macros = (0 :> Dual(4, 1536 + 7)) @@ (1 :> Dual(5, 1536 + 6)),
    !.each = 2, !.shows = << >>]

\* Keyboards whose actions break a property, see README.
StopsActive == Plain(Main(224, 8196, 5), << >>)
ClearsLayers == Plain(Main(224, 8195, 5), << >>)
TwoOneshots == Plain(Main(2304 + 6, 2304 + 7, 5), << >>)
MaskedLayer == Plain([Main(225, 1536 + 6, 5) EXCEPT ![6].mods = {0, 1}], << >>)

AllKeyboards ==
  [dual |-> OneDual, slow_host |-> SlowHost, two_duals |-> TwoDuals, tap_dance |-> TapDance,
   layer_modifiers |-> LayerModifiers, modifier_macros |-> ModifierMacros,
   macros |-> NestedMacros, mouse |-> MousePointer, clear_all |-> ClearsAll, two_layers |-> TwoLayers,
   stop_active |-> StopsActive, clear_layers |-> ClearsLayers, oneshots |-> TwoOneshots, mask |-> MaskedLayer]

\* The keyboards of the runs keep the counts: what is proved of such keyboards is about them too.
ASSUME CountsKept == \A b \in Boards : KeepsCount(Keyboards[b])
=============================================================================
