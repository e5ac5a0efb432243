------------------------------ MODULE MCLayout ------------------------------
(***************************************************************************)
(* Instances of Layout.  Layers 0..4 are the modifier layers, 5 is main, 6 *)
(* and 7 are user layers, from 8 on there are composites.                  *)
(***************************************************************************)
EXTENDS Layout, TLC

LayerCalls == {"push_layer", "pop_layer", "set_layout"}
MemoryCalls == LayerCalls \cup {"clear_all", "clear_layers", "push_memo", "pop_memo", "push_macro"}
StopCalls == {"push_layer", "pop_layer", "clear_modifier_layers"}
TightCalls ==
  StopCalls \cup {"clear_layers", "push_memo", "pop_memo", "push_macro", "push_macro_without_slot"}

\* [control+shift], [shift+alt] and [control+shift+alt], by number of parts.
ControlShiftAlt == {0, 1, 2}
ThreeComposites == (8 :> {0, 1}) @@ (9 :> {1, 2}) @@ (10 :> {0, 1, 2})

\* No composite at all.
NoComposites == << >>

\* A put off key event (5 words) and a put off release of an action (2 words).
KeyMemo == <<256, 0, 0, 0, 9>>
ActionMemo == <<7, 0>>
OneMemo == {KeyMemo}
BothMemos == {KeyMemo, ActionMemo}

\* A macro of two codes, mode TAP.
OneMacro == {[mode |-> 2, location |-> 40, rem |-> 2]}

\* The order Compiler::serialize writes composites in: by the value of the bitmap,
\* so control+shift+alt (7) comes before control+gui (9).
ByBitmap == (6 :> {0, 1, 2}) @@ (7 :> {0, 3})
=============================================================================
