------------------------------- MODULE Layout -------------------------------
(***************************************************************************)
(* The layout manager as the mapper drives it: every call the mapper makes *)
(* on layout::Manager is an action, together with what the mapper itself   *)
(* does around the call (macro_running, clear_all when a memo is refused). *)
(* LayoutOps has the operations.                                           *)
(*                                                                         *)
(* Which calls a keyboard makes depends on its configuration; Calls names  *)
(* the ones that may happen.                                               *)
(***************************************************************************)
EXTENDS LayoutOps

CONSTANTS
  Calls,          \* the calls that may happen
  PushLayers,     \* the layer words that are pushed, RIGHT_MOD included
  BaseLayers,     \* the layers set_layout is given
  Memos,          \* the memos: <<action, is_down>> or <<key, time words>>
  Macros,         \* the sequence macros, [mode, location, rem]
  MaxLayers,      \* bound: layers are pushed only on a stack below this size
  MaxMemos,       \* bound: memos are pushed only on a queue below this size
  MaxFrames       \* bound: macros are called only below this depth

AllCalls == {"push_layer", "pop_layer", "set_layout", "clear_all", "clear_layers",
             "clear_modifier_layers", "push_memo", "pop_memo", "push_macro",
             "push_macro_without_slot"}

ASSUME CallsAssumption ==
  /\ Calls \subseteq AllCalls
  /\ PushLayers \subseteq Nat /\ BaseLayers \subseteq 0..255
  /\ \A memo \in Memos : memo \in Seq(Nat) /\ Len(memo) \in {2, 5}
  /\ \A mac \in Macros : mac \in [mode : Nat \ {0}, location : Nat, rem : Nat \ {0}]
  /\ MaxLayers \in Nat /\ MaxMemos \in Nat /\ MaxFrames \in Nat

VARIABLES
  mgr,            \* the layout manager
  macro_running,  \* Mapper.macro_running
  panicked        \* an index was out of range: the firmware stopped

vars == <<mgr, macro_running, panicked>>

Init == mgr = Loaded /\ macro_running = Noop /\ panicked = FALSE

\* The firmware still runs, and this keyboard makes this call.
May(call) == ~ panicked /\ call \in Calls

Panic == panicked' = TRUE /\ UNCHANGED <<mgr, macro_running>>

\* The memory of the running macro and its callers, in words.
MacroWords == mgr.memo_bottom - mgr.macro_stack

\* Mutant: the running macro goes on after everything was cleared.
ResetKeepsMacro == mgr' = ClearAll(mgr) /\ UNCHANGED <<macro_running, panicked>>

\* Mapper::clear_all, as far as the layout is concerned.
Reset == mgr' = ClearAll(mgr) /\ macro_running' = Noop /\ UNCHANGED panicked

Push(layer_num) ==
  /\ May("push_layer")
  /\ mgr.layout_top - layout_bottom < MaxLayers
  /\ mgr' = PushLayer(mgr, layer_num).m
  /\ UNCHANGED <<macro_running, panicked>>

Pop(layer_num) ==
  /\ May("pop_layer")
  /\ mgr' = PopLayer(mgr, layer_num).m
  /\ UNCHANGED <<macro_running, panicked>>

SetBase(layer_num) ==
  /\ May("set_layout")
  /\ mgr' = SetLayout(mgr, layer_num)
  /\ UNCHANGED <<macro_running, panicked>>

ClearEverything == May("clear_all") /\ Reset

ClearToBase ==
  /\ May("clear_layers")
  /\ mgr' = ClearLayers(mgr)
  /\ UNCHANGED <<macro_running, panicked>>

ClearModifiers ==
  /\ May("clear_modifier_layers")
  /\ ~ ClearModifierPanics(mgr)
  /\ mgr' = ClearModifierLayers(mgr)
  /\ UNCHANGED <<macro_running, panicked>>

ClearModifiersPanics ==
  /\ May("clear_modifier_layers")
  /\ ClearModifierPanics(mgr)
  /\ Panic

\* push_scan_key, push_action: a memo that is refused clears everything.
PutOff(memo) ==
  /\ May("push_memo")
  /\ mgr.memo_top - mgr.memo_bottom < MaxMemos * 6
  /\ \/ /\ PushMemo(mgr, memo).ok
        /\ mgr' = PushMemo(mgr, memo).m
        /\ UNCHANGED <<macro_running, panicked>>
     \/ ~ PushMemo(mgr, memo).ok /\ Reset

\* run_memo, which only runs when no macro does.  A memo whose length is neither
\* that of an action nor that of a key event is "unreachable!".
RunMemo ==
  /\ May("pop_memo")
  /\ macro_running = Noop
  /\ mgr.memo_bottom # mgr.memo_top
  /\ IF mgr.mapping[mgr.memo_top - 1] \in {2, 5}
     THEN mgr' = PopMemo(mgr).m /\ UNCHANGED <<macro_running, panicked>>
     ELSE Panic

\* Does the next macro find room for its slot?
SlotRoom == DefragStack(mgr).macro_stack - mgr.layout_top > 3

\* Mapper::push_macro: save the running macro in its slot, start another.
CallMacro(mac) ==
  /\ May(IF SlotRoom THEN "push_macro" ELSE "push_macro_without_slot")
  /\ MacroWords < 3 * MaxFrames
  /\ IF UpdateMacroPanics(mgr, macro_running) THEN Panic
     ELSE /\ mgr' = PushMacro(UpdateMacro(mgr, macro_running), mac)
          /\ macro_running' = mac
          /\ UNCHANGED panicked

\* next_macro_seq takes one code of the running macro.
AdvanceMacro ==
  /\ ~ panicked /\ macro_running # Noop /\ macro_running.rem > 1
  /\ macro_running' = [macro_running EXCEPT !.location = @ + 1, !.rem = @ - 1]
  /\ UNCHANGED <<mgr, panicked>>

\* ... or takes the last one: Mapper::pop_macro.
ReturnMacro ==
  /\ ~ panicked /\ macro_running # Noop /\ macro_running.rem <= 1
  /\ IF PopMacroPanics(mgr) THEN Panic
     ELSE /\ mgr' = PopMacro(mgr).m
          /\ macro_running' = PopMacro(mgr).mac
          /\ UNCHANGED panicked

Next ==
  \/ \E n \in PushLayers : Push(n) \/ Pop(LayerOf(n))
  \/ \E n \in BaseLayers : SetBase(n)
  \/ ClearEverything
  \/ ClearToBase
  \/ ClearModifiers
  \/ ClearModifiersPanics
  \/ \E memo \in Memos : PutOff(memo)
  \/ RunMemo
  \/ \E mac \in Macros : CallMacro(mac)
  \/ AdvanceMacro
  \/ ReturnMacro

Spec == Init /\ [][Next]_vars

-----------------------------------------------------------------------------
(***************************************************************************)
(* Properties.                                                             *)
(***************************************************************************)
\* The manager stays in its type: every word written is in the array.
TypeOK ==
  /\ mgr \in Manager
  /\ macro_running \in [mode : Nat, location : Nat, rem : Nat]
  /\ panicked \in BOOLEAN

\* The three users of the memory behind the layout never overlap: layers end
\* before macro states begin, macro states before memos, and all of them lie
\* inside the array (the guards of push_layer, push_macro and push_memo).
RegionsOrdered ==
  /\ layout_bottom <= mgr.layout_top
  /\ mgr.layout_top <= mgr.macro_stack
  /\ mgr.macro_stack <= mgr.memo_bottom
  /\ mgr.memo_bottom <= mgr.memo_top
  /\ mgr.memo_top <= LAYOUT_MAX

\* The running macro always has a slot to be saved in and to be popped from:
\* update_macro and pop_macro never touch a word that is not the macro's own.
MacroHasSlot == macro_running # Noop => MacroWords >= 3

\* The bitmap of active parts, which push_layer and pop_layer maintain by hand,
\* says what is really on the stack.
PartsExact ==
  /\ mgr.active_comp_part_layers = ActiveLayers(mgr) \cap part_layers
  /\ mgr.active_comp_count = Cardinality(mgr.active_comp_part_layers)

\* layers.md: "The layer will be active when, and only when, all the constituent
\* names are active".
CompositeActive ==
  \A c \in Composites :
    c \in ActiveLayers(mgr) <=> composite_bitmap[c] \subseteq ActiveLayers(mgr)

\* The addresses of the activations of a layer.
On(m, layer_num) == Occurrences(m, layer_num, m.layout_top)

\* The composite is above every activation of its part.
Over(m, c, p) == \A a \in On(m, c), b \in On(m, p) : b < a

\* layers.md: a composite "is given precedence": it is on the stack once, when it comes it
\* is above every activation of its parts, so find_code meets it first, and it stays there
\* whatever is pushed and popped until a part is activated once more.  That activation goes
\* on top of the composite and find_code meets it first; the composite stays above another
\* activation of the part as long as it is active.
CompositePrecedes ==
  [][\A c \in Composites : \A p \in composite_bitmap[c] :
       c \in ActiveLayers(mgr') =>
         /\ \A a, b \in On(mgr', c) : a = b
         /\ \A a \in On(mgr', c) : \E b \in On(mgr', p) : b < a
         /\ \/ Over(mgr', c, p)
            \/ ~ Over(mgr, c, p)
            \/ c \in ActiveLayers(mgr) /\ \E n \in PushLayers : LayerOf(n) = p /\ Push(n)]_vars

\* No index of the layout memory is out of range, no memo has an impossible length.
NeverPanics == ~ panicked

\* The words at the addresses of S, in order.
WordsAt(m, S) == [n \in 1..Cardinality(S) |-> m.mapping[Nth(S, n)]]

\* The layers above the base that are not modifier layers, in order.
UserAt(m) == {a \in (layout_bottom + 1)..(m.layout_top - 1) : m.mapping[a] >= 5}

UserLayers(m) == WordsAt(m, UserAt(m))

\* stop_active keeps every user layer, in order, whatever else it does.
StopKeepsUserLayers ==
  [][ClearModifiers =>
       /\ Len(UserLayers(mgr)) <= Len(UserLayers(mgr'))
       /\ SubSeq(UserLayers(mgr'), 1, Len(UserLayers(mgr))) = UserLayers(mgr)]_vars

(***************************************************************************)
(* The stack without its composites implements LayerStack.                 *)
(***************************************************************************)
PlainAt(m) == {a \in layout_bottom..(m.layout_top - 1) : LayerOf(m.mapping[a]) \notin Composites}

PlainLayers(m) == WordsAt(m, PlainAt(m))

Layers == INSTANCE LayerStack WITH
  layers <- PlainLayers(mgr), Words <- PushLayers \cup BaseLayers

\* Composites come and go without disturbing the layers they are built from, and
\* a deactivation removes the topmost activation of its layer only.
LayersStacked == Layers!Spec

(***************************************************************************)
(* The macro states and memos implement EventQueue.                        *)
(***************************************************************************)
\* The lower end of the memo that ends at e, and its words.
Below(m, e) == e - 1 - m.mapping[e - 1]

MemoAt(m, e) == [i \in 1..m.mapping[e - 1] |-> m.mapping[Below(m, e) + i - 1]]

\* The memos that end at e or below, the highest first.
MemosFrom(m) ==
  LET from[e \in m.memo_bottom..m.memo_top] ==
        IF e = m.memo_bottom \/ Below(m, e) < m.memo_bottom THEN << >>
        ELSE <<MemoAt(m, e)>> \o from[Below(m, e)]
  IN from

\* The memos in the array, read from memo_top down.
MemoQueue(m) == MemosFrom(m)[m.memo_top]

\* The i-th macro state above macro_stack.
Slot(m, i) ==
  LET a == m.macro_stack + 3 * (i - 1)
  IN [mode |-> m.mapping[a], location |-> m.mapping[a + 1], rem |-> m.mapping[a + 2]]

\* The slot of the running macro itself is stale; the others hold its callers.
MacroFrames(m, running) ==
  IF running = Noop THEN << >>
  ELSE [i \in 1..((m.memo_bottom - m.macro_stack) \div 3) |->
          IF 3 * i < m.memo_bottom - m.macro_stack THEN Slot(m, i + 1) ELSE Noop]

Queue == INSTANCE EventQueue WITH
  queue <- MemoQueue(mgr), running <- macro_running, frames <- MacroFrames(mgr, macro_running),
  Idle <- Noop

\* Memos come back first in first out and word for word, and a macro that was
\* interrupted resumes where it stopped, although both move in memory.
EventsQueued == Queue!Spec
=============================================================================
