----------------------------- MODULE LayoutOps -----------------------------
(***************************************************************************)
(* layout::Manager (rpk-firmware/src/layout.rs) as functions from manager  *)
(* to manager.                                                             *)
(*                                                                         *)
(* The manager keeps everything that changes at run time in one array of   *)
(* words, `mapping`, behind the loaded layout:                             *)
(*                                                                         *)
(*   layout_bottom   layout_top        macro_stack  memo_bottom   memo_top *)
(*        | base, layers ->|    free        |<- macros  |<- memos    |     *)
(*                                                                         *)
(* Layers grow up from layout_bottom.  Macro states grow down from         *)
(* memo_bottom.  Memos are a queue: written at memo_bottom, read at        *)
(* memo_top, and moved up to the end of the array (defrag_stack) before    *)
(* anything is written.  A memo is followed by a word with its length.     *)
(*                                                                         *)
(* The words below layout_bottom (the loaded layout) never change after    *)
(* load; what the code reads there is given by the constants.              *)
(***************************************************************************)
EXTENDS Integers, Sequences, FiniteSets

CONSTANTS
  LAYOUT_MAX,             \* length of mapping
  layout_bottom,          \* end of the loaded layout, address of the base layer
  macro_dir_base,         \* number of layers, composites included
  composite_start_index,  \* the first composite layer
  part_layers,            \* the layers flagged COMPOSITE_PART_BIT
  composite_bitmap        \* composite layer -> the set of its parts

(***************************************************************************)
(* What a successful load establishes: there are at least the six default  *)
(* layers, the composites come last, and the layout leaves a free word.    *)
(***************************************************************************)
ASSUME LayoutAssumption ==
  /\ LAYOUT_MAX \in Nat /\ layout_bottom \in Nat /\ layout_bottom < LAYOUT_MAX
  /\ composite_start_index \in 6..255 /\ macro_dir_base \in 6..255
  /\ composite_start_index <= macro_dir_base
  /\ part_layers \subseteq 0..(composite_start_index - 1)
  /\ composite_bitmap \in
       [composite_start_index..(macro_dir_base - 1) -> SUBSET part_layers]

MAIN_BASE == 5
RIGHT_MOD == 32768

Composites == composite_start_index..(macro_dir_base - 1)
Addr == layout_bottom..(LAYOUT_MAX - 1)

\* The smaller of two numbers.
Least(a, b) == IF a < b THEN a ELSE b

\* The layer a stack word names (v & 0xff); RIGHT_MOD marks a right modifier.
LayerOf(v) == v % 256

\* The layers that are on the stack.
ActiveLayers(m) == {LayerOf(m.mapping[a]) : a \in layout_bottom..(m.layout_top - 1)}

\* The states of a manager whose layout has been loaded.
Manager ==
  [mapping : [Addr -> Nat],
   layout_top : Int, macro_stack : Int, memo_bottom : Int, memo_top : Int,
   active_comp_part_layers : SUBSET part_layers, active_comp_count : Int]

(***************************************************************************)
(* clear_all, clear_layers, set_layout                                     *)
(***************************************************************************)
ClearLayers(m) == [m EXCEPT !.layout_top = layout_bottom + 1]

SetLayout(m, layer_num) == [m EXCEPT !.mapping[layout_bottom] = layer_num]

ClearAll(m) ==
  SetLayout(ClearLayers([m EXCEPT !.macro_stack = LAYOUT_MAX,
                                  !.memo_bottom = LAYOUT_MAX,
                                  !.memo_top    = LAYOUT_MAX]), MAIN_BASE)

\* Manager::default() with the layout loaded: load ends with clear_all.
Loaded ==
  ClearAll([mapping |-> [a \in Addr |-> 0], layout_top |-> 0, macro_stack |-> 0,
            memo_bottom |-> 0, memo_top |-> 0,
            active_comp_part_layers |-> {}, active_comp_count |-> 0])

(***************************************************************************)
(* clear_modifier_layers.  The slice it filters ends AT layout_top: it     *)
(* takes one word more than the stack has, and there is no such word (a    *)
(* panic) when layout_top is the end of the array.                         *)
(***************************************************************************)
ClearModifierPanics(m) == m.layout_top >= LAYOUT_MAX

\* Mutant: the slice ends one word too early.
KeptWordsShort(m) == {a \in (layout_bottom + 1)..(m.layout_top - 2) : m.mapping[a] >= 5}

\* The words that stay, by address.
KeptWords(m) == {a \in (layout_bottom + 1)..m.layout_top : m.mapping[a] >= 5}

\* The n-th address of S, the lowest first.
Nth(S, n) == CHOOSE a \in S : Cardinality({b \in S : b < a}) = n - 1

ClearModifierLayers(m) ==
  LET kept == KeptWords(m)
  IN [m EXCEPT
       !.mapping = [a \in Addr |->
         IF a - layout_bottom \in 1..Cardinality(kept)
         THEN m.mapping[Nth(kept, a - layout_bottom)] ELSE m.mapping[a]],
       !.layout_top = layout_bottom + 1 + Cardinality(kept)]

(***************************************************************************)
(* push_layer.  A part that becomes active brings in every composite it    *)
(* completes, in index order.  The loop stops early after the first        *)
(* composite with more parts than there are parts active, and it fails     *)
(* half done when a composite finds no room.                               *)
(***************************************************************************)
\* Mutant: stop at a composite with as many parts as are active.
CompletedTooFew(old, parts, count) ==
  {i \in Composites :
     /\ composite_bitmap[i] \subseteq parts
     /\ ~ composite_bitmap[i] \subseteq old
     /\ \A j \in Composites : j <= i => Cardinality(composite_bitmap[j]) < count}

\* Mutant: the composites that were complete before are pushed again.
CompletedAgain(old, parts, count) ==
  {i \in Composites :
     /\ composite_bitmap[i] \subseteq parts
     /\ \A j \in Composites : j < i => Cardinality(composite_bitmap[j]) <= count}

Completed(old, parts, count) ==
  {i \in Composites :
     /\ composite_bitmap[i] \subseteq parts
     /\ ~ composite_bitmap[i] \subseteq old
     /\ \A j \in Composites : j < i => Cardinality(composite_bitmap[j]) <= count}

\* Mutants: any layer is taken for a part; a part is counted again.
FreshAny(m, n) == n \notin m.active_comp_part_layers
FreshAgain(m, n) == n \in part_layers

\* Layer n is a part, and was not active.
FreshPart(m, n) == n \in part_layers /\ n \notin m.active_comp_part_layers

\* There is no room for a layer (one free word stays below the macros).
StackFull(m) == m.layout_top + 1 >= m.macro_stack

PushLayer(m, layer_num) ==
  LET n     == LayerOf(layer_num)
      old   == m.active_comp_part_layers
      fresh == FreshPart(m, n)
      count == m.active_comp_count + 1
      comps == IF fresh /\ count > 1 THEN Completed(old, old \cup {n}, count) ELSE {}
      room  == m.macro_stack - m.layout_top - 2
      Rank(i) == Cardinality({j \in comps : j < i})
      At(a) == {i \in comps : Rank(i) = a - m.layout_top - 1 /\ Rank(i) < room}
  IN IF StackFull(m) \/ n >= macro_dir_base
     THEN [ok |-> FALSE, m |-> m]
     ELSE [ok |-> Cardinality(comps) <= room,
           m  |-> [m EXCEPT
             !.mapping = [a \in Addr |->
                IF a = m.layout_top THEN layer_num
                ELSE IF At(a) # {} THEN CHOOSE i \in At(a) : TRUE
                ELSE m.mapping[a]],
             !.layout_top = m.layout_top + 1 + Least(room, Cardinality(comps)),
             !.active_comp_part_layers = IF fresh THEN old \cup {n} ELSE old,
             !.active_comp_count = IF fresh THEN count ELSE @]]

PushRightModLayer(m, layer_num) == PushLayer(m, layer_num + RIGHT_MOD)

(***************************************************************************)
(* pop_layer removes the topmost occurrence of a layer.  When it was the   *)
(* last occurrence of a part, the composites above it that needed the part *)
(* go first, from the top down.  Every removal is a copy_within that moves *)
(* the words above it down by one and leaves the word at the old top.      *)
(***************************************************************************)
Occurrences(m, layer_num, search_top) ==
  {a \in layout_bottom..(search_top - 1) : LayerOf(m.mapping[a]) = layer_num}

\* Mutant: the lowest occurrence instead of the topmost.
Lowest(S) == CHOOSE a \in S : \A b \in S : a <= b

Top(S) == CHOOSE a \in S : \A b \in S : b <= a

\* The word at a comes from a higher address when words at or below it go.  A word
\* that is left above the new top was moved by the first removals only, while the
\* stack still reached it.
Movers(m, gone, a) ==
  {g \in gone : Cardinality({h \in gone : h > g}) < m.layout_top - a - 1}

Source(m, gone, a) ==
  LET movers == Movers(m, gone, a)
  IN a + Cardinality({g \in movers : g - Cardinality({h \in movers : h < g}) <= a})

RemoveWords(m, gone) ==
  [m EXCEPT
    !.mapping = [a \in Addr |-> IF a < m.layout_top THEN m.mapping[Source(m, gone, a)]
                                                    ELSE m.mapping[a]],
    !.layout_top = m.layout_top - Cardinality(gone)]

PopLayer(m, layer_num) ==
  LET found == Occurrences(m, layer_num, m.layout_top)
      pos   == Top(found)
      old   == m.active_comp_part_layers
      last  == /\ layer_num \in part_layers /\ layer_num \in old
               /\ Occurrences(m, layer_num, pos) = {}
      parts == old \ {layer_num}
      Broken(c) == /\ c \in Composites
                   /\ composite_bitmap[c] \subseteq old
                   /\ ~ composite_bitmap[c] \subseteq parts
      comps == IF last /\ m.active_comp_count > 1
               THEN {a \in (pos + 1)..(m.layout_top - 1) : Broken(LayerOf(m.mapping[a]))}
               ELSE {}
      marked == IF last THEN [m EXCEPT !.active_comp_part_layers = parts,
                                       !.active_comp_count = @ - 1] ELSE m
  IN IF found = {} \/ layer_num >= macro_dir_base
     THEN [ok |-> FALSE, m |-> m]
     ELSE [ok |-> TRUE, m |-> RemoveWords(marked, comps \cup {pos})]

(***************************************************************************)
(* Memos: key events and actions put off until later.                      *)
(***************************************************************************)
\* Mutant: the pointers move, the words stay.
DefragPointers(m) ==
  LET diff == LAYOUT_MAX - m.memo_top
  IN [m EXCEPT !.macro_stack = @ + diff, !.memo_bottom = @ + diff, !.memo_top = @ + diff]

\* Move the macro and memo words up against the end of the array.
DefragStack(m) ==
  LET diff == LAYOUT_MAX - m.memo_top
  IN [m EXCEPT
       !.mapping = [a \in Addr |-> IF a >= m.macro_stack + diff
                                   THEN m.mapping[a - diff] ELSE m.mapping[a]],
       !.macro_stack = @ + diff, !.memo_bottom = @ + diff, !.memo_top = @ + diff]

\* Mutant: the words of the layers count as free.
NoMemoRoomLate(d, base) == d.macro_stack # d.memo_bottom

\* A memo is refused while a macro runs, and when it would reach the layers.
NoMemoRoom(d, base) == d.macro_stack # d.memo_bottom \/ base <= d.layout_top

PushMemo(m, memo) ==
  LET d    == DefragStack(m)
      base == d.memo_bottom - Len(memo) - 1
  IN IF NoMemoRoom(d, base)
     THEN [ok |-> FALSE, m |-> d]
     ELSE [ok |-> TRUE,
           m  |-> [d EXCEPT
             !.mapping = [a \in Addr |->
                IF a >= base /\ a < base + Len(memo) THEN memo[a - base + 1]
                ELSE IF a = d.memo_bottom - 1 THEN Len(memo)
                ELSE d.mapping[a]],
             !.macro_stack = base, !.memo_bottom = base]]

\* Mutant: the length word of the memo is not passed over.
PopMemoShort(m) ==
  LET end   == m.memo_top - 1
      start == end - m.mapping[end]
  IN IF m.memo_bottom = m.memo_top THEN [ok |-> FALSE, m |-> m, memo |-> << >>]
     ELSE [ok |-> TRUE, m |-> [m EXCEPT !.memo_top = start + 1],
           memo |-> [i \in 1..(end - start) |-> m.mapping[start + i - 1]]]

\* The oldest memo and the manager without it; ok is FALSE when there is none.
PopMemo(m) ==
  LET end   == m.memo_top - 1
      start == end - m.mapping[end]
  IN IF m.memo_bottom = m.memo_top THEN [ok |-> FALSE, m |-> m, memo |-> << >>]
     ELSE [ok |-> TRUE, m |-> [m EXCEPT !.memo_top = start],
           memo |-> [i \in 1..(end - start) |-> m.mapping[start + i - 1]]]

(***************************************************************************)
(* Macros.  A macro that runs is Noop or a Sequence; only a Sequence has a *)
(* slot of three words.  The slot is the place its state is saved to when  *)
(* another macro starts.                                                   *)
(***************************************************************************)
Noop == [mode |-> 0, location |-> 0, rem |-> 0]

\* Macro::update at macro_stack: nothing to do for Noop.
UpdateMacro(m, mac) ==
  IF mac = Noop THEN m
  ELSE [m EXCEPT !.mapping[m.macro_stack]     = mac.mode,
                 !.mapping[m.macro_stack + 1] = mac.location,
                 !.mapping[m.macro_stack + 2] = mac.rem]

UpdateMacroPanics(m, mac) == mac # Noop /\ m.macro_stack + 3 > LAYOUT_MAX

\* Manager::push_macro: a macro that finds no room runs without a slot.
PushMacro(m, mac) ==
  LET d == DefragStack(m)
  IN IF d.macro_stack - d.layout_top > 3
     THEN UpdateMacro([d EXCEPT !.macro_stack = @ - 3], mac)
     ELSE d

PopMacroPanics(m) == m.macro_stack + 3 > m.memo_bottom

\* Manager::pop_macro: drop the top slot, resume the macro of the next one.
PopMacro(m) ==
  LET next == m.macro_stack + 3
  IN [m   |-> [m EXCEPT !.macro_stack = next],
      mac |-> IF next = m.memo_bottom THEN Noop
              ELSE [mode |-> m.mapping[next], location |-> m.mapping[next + 1],
                    rem |-> m.mapping[next + 2]]]
=============================================================================
