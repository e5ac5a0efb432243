---------------------------- MODULE LayoutProofs ----------------------------
(***************************************************************************)
(* The memory behind the layout is safe for every layout, array length and *)
(* choice of macros and memos: the layers, the macro states and the memos  *)
(* never overlap, and every word read as a memo's length or as a macro's   *)
(* state was written as one.                                               *)
(*                                                                         *)
(* RegionsOrdered is not inductive: pop_memo moves memo_top by a length    *)
(* that it reads from the array, and pop_macro resumes what it finds in a  *)
(* slot.  The invariant therefore says that the ends of the memos form a   *)
(* chain (MemoChain) and that slots are whole (WholeSlots).                *)
(*                                                                         *)
(* With that the upper end of the memory implements EventQueue.            *)
(***************************************************************************)
EXTENDS Layout, OrderLemmas, SequenceTheorems

\* The regions are in order, and the base layer has its word.
Ordered(m) ==
  /\ layout_bottom <= m.layout_top
  /\ layout_bottom < m.macro_stack
  /\ m.layout_top <= m.macro_stack
  /\ m.macro_stack <= m.memo_bottom
  /\ m.memo_bottom <= m.memo_top
  /\ m.memo_top <= LAYOUT_MAX

\* ends holds the ends of the memos and memo_bottom: under each end but the last is
\* the length of an action or of a key event, and it leads to the next end.
Chained(m, ends) ==
  /\ ends \subseteq m.memo_bottom..m.memo_top
  /\ m.memo_bottom \in ends /\ m.memo_top \in ends
  /\ \A e \in ends : e # m.memo_bottom => /\ m.mapping[e - 1] \in {2, 5}
                                          /\ e - 1 - m.mapping[e - 1] \in ends

MemoChain(m) == \E ends \in SUBSET Int : Chained(m, ends)

\* The macro states are three words each.
WholeSlots(m) == \E k \in Nat : m.memo_bottom = m.macro_stack + 3 * k

\* What the memory invariant says of one manager.
MemoryInv(m) == Ordered(m) /\ MemoChain(m) /\ WholeSlots(m)

IInv ==
  /\ TypeOK
  /\ MemoryInv(mgr)
  /\ macro_running # Noop => mgr.memo_bottom > mgr.macro_stack
  /\ ~ panicked

\* n has the same macro states and memos as m.
SameMemory(m, n) ==
  /\ n.macro_stack = m.macro_stack
  /\ n.memo_bottom = m.memo_bottom /\ n.memo_top = m.memo_top
  /\ \A a \in Addr : a >= m.macro_stack => n.mapping[a] = m.mapping[a]

\* The array and its bounds.
LEMMA Bounds == /\ layout_bottom \in Nat /\ LAYOUT_MAX \in Nat /\ layout_bottom < LAYOUT_MAX
                /\ macro_dir_base \in 6..255 /\ composite_start_index \in 6..255
BY LayoutAssumption

LEMMA Fields ==
  ASSUME NEW m \in Manager
  PROVE  /\ m.mapping \in [Addr -> Nat]
         /\ m.layout_top \in Int /\ m.macro_stack \in Int
         /\ m.memo_bottom \in Int /\ m.memo_top \in Int
         /\ m.active_comp_part_layers \in SUBSET part_layers
         /\ m.active_comp_count \in Int
BY DEF Manager

\* The chain survives whatever changes only words below the memos.
LEMMA ChainKept ==
  ASSUME NEW m \in Manager, NEW n \in Manager, Ordered(m), MemoChain(m),
         n.memo_bottom = m.memo_bottom, n.memo_top = m.memo_top,
         \A a \in Addr : a >= m.memo_bottom => n.mapping[a] = m.mapping[a]
  PROVE  MemoChain(n)
<1> USE Bounds, Fields
<1>1. PICK ends \in SUBSET Int : Chained(m, ends)  BY DEF MemoChain
<1>2. ASSUME NEW e \in ends, e # m.memo_bottom PROVE n.mapping[e - 1] = m.mapping[e - 1]
  <2>1. e \in m.memo_bottom..m.memo_top  BY <1>1 DEF Chained
  <2>2. e - 1 >= m.memo_bottom /\ e - 1 \in Addr  BY <1>2, <2>1 DEF Ordered, Addr
  <2> QED BY <2>2
<1>3. Chained(n, ends)  BY <1>1, <1>2 DEF Chained
<1> QED BY <1>3 DEF MemoChain

\* Whoever changes only words below macro_stack keeps the memory invariant.
LEMMA SameMemoryInv ==
  ASSUME NEW m \in Manager, NEW n \in Manager, MemoryInv(m), SameMemory(m, n),
         layout_bottom <= n.layout_top, n.layout_top <= m.macro_stack
  PROVE  MemoryInv(n)
<1> USE Bounds, Fields
<1>1. Ordered(n)  BY DEF MemoryInv, Ordered, SameMemory
<1>2. MemoChain(n)
  <2>1. \A a \in Addr : a >= m.memo_bottom => n.mapping[a] = m.mapping[a]
    BY DEF SameMemory, MemoryInv, Ordered, Addr
  <2> QED BY <2>1, ChainKept DEF SameMemory, MemoryInv
<1>3. WholeSlots(n)  BY DEF MemoryInv, WholeSlots, SameMemory
<1> QED BY <1>1, <1>2, <1>3 DEF MemoryInv

\* clear_all leaves an empty memory.
LEMMA ClearAllInv ==
  ASSUME NEW m,
         m \in Manager
  PROVE  ClearAll(m) \in Manager /\ MemoryInv(ClearAll(m))
<1> DEFINE c == ClearAll(m)
<1> USE Bounds
<1> DEFINE e == [m EXCEPT !.macro_stack = LAYOUT_MAX, !.memo_bottom = LAYOUT_MAX,
                       !.memo_top = LAYOUT_MAX]
<1>1. c \in Manager
  <2>1. e \in Manager
    <3>1. \A x \in Int : [m EXCEPT !.macro_stack = x, !.memo_bottom = x, !.memo_top = x]
                             \in Manager
      BY DEF Manager
    <3>2. LAYOUT_MAX \in Int  OBVIOUS
    <3> QED BY <3>1, <3>2, Zenon
  <2> HIDE DEF e
  <2>2. ClearLayers(e) \in Manager  BY <2>1 DEF ClearLayers, Manager
  <2>3. SetLayout(ClearLayers(e), MAIN_BASE) \in Manager
    BY <2>2 DEF SetLayout, Manager, MAIN_BASE
  <2> QED BY <2>3 DEF ClearAll, e
<1>2. /\ c.layout_top = layout_bottom + 1 /\ c.macro_stack = LAYOUT_MAX
      /\ c.memo_bottom = LAYOUT_MAX /\ c.memo_top = LAYOUT_MAX
  BY DEF ClearAll, ClearLayers, SetLayout, Manager
<1> HIDE DEF c
<1>3. Ordered(c) /\ WholeSlots(c)
  <2>1. c.memo_bottom = c.macro_stack + 3 * 0  BY <1>2
  <2> QED BY <1>2, <2>1 DEF Ordered, WholeSlots
<1>4. Chained(c, {LAYOUT_MAX})  BY <1>2 DEF Chained
<1>5. MemoChain(c)  BY <1>4 DEF MemoChain
<1> QED BY <1>1, <1>3, <1>5 DEF MemoryInv, c

\* push_layer stays below the macro states, composites included.
LEMMA PushLayerInv ==
  ASSUME NEW m \in Manager, MemoryInv(m), NEW w \in Nat
  PROVE  /\ PushLayer(m, w).m \in Manager /\ MemoryInv(PushLayer(m, w).m)
         /\ SameMemory(m, PushLayer(m, w).m)
<1> USE Bounds, Fields
<1> DEFINE n     == LayerOf(w)
           old   == m.active_comp_part_layers
           fresh == FreshPart(m, n)
           count == m.active_comp_count + 1
           comps == IF fresh /\ count > 1 THEN Completed(old, old \cup {n}, count) ELSE {}
           room  == m.macro_stack - m.layout_top - 2
           Rank(i) == Cardinality({j \in comps : j < i})
           At(a) == {i \in comps : Rank(i) = a - m.layout_top - 1 /\ Rank(i) < room}
           map   == [a \in Addr |-> IF a = m.layout_top THEN w
                                    ELSE IF At(a) # {} THEN CHOOSE i \in At(a) : TRUE
                                    ELSE m.mapping[a]]
           top   == m.layout_top + 1 + Least(room, Cardinality(comps))
           parts == IF fresh THEN old \cup {n} ELSE old
           cnt   == IF fresh THEN count ELSE m.active_comp_count
           r     == [m EXCEPT !.mapping = map, !.layout_top = top,
                              !.active_comp_part_layers = parts, !.active_comp_count = cnt]
<1>1. CASE StackFull(m) \/ n >= macro_dir_base
  <2>1. PushLayer(m, w).m = m  BY <1>1 DEF PushLayer
  <2> QED BY <2>1 DEF SameMemory
<1>2. CASE ~ (StackFull(m) \/ n >= macro_dir_base)
  <2>1. PushLayer(m, w).m = r  BY <1>2 DEF PushLayer
  <2>2. comps \subseteq Composites  BY DEF Completed
  <2>3. IsFiniteSet(comps) /\ Cardinality(comps) \in Nat
    <3>1. IsFiniteSet(Composites)  BY FS_Interval DEF Composites
    <3> QED BY <2>2, <3>1, FS_Subset, FS_CardinalityType
  <2>4. \A a \in Addr : At(a) # {} =>
          /\ (CHOOSE i \in At(a) : TRUE) \in Nat
          /\ a < m.macro_stack
    <3> SUFFICES ASSUME NEW a \in Addr, NEW i \in At(a)
                 PROVE  (CHOOSE j \in At(a) : TRUE) \in Nat /\ a < m.macro_stack
      OBVIOUS
    <3>1. At(a) \subseteq Nat
      <4>1. Composites \subseteq Nat  BY DEF Composites
      <4> HIDE DEF comps
      <4> QED BY <2>2, <4>1
    <3>2. (CHOOSE j \in At(a) : TRUE) \in At(a)  OBVIOUS
    <3>3. a - m.layout_top - 1 < room  OBVIOUS
    <3>4. a < m.macro_stack  BY <3>3 DEF Addr
    <3> QED BY <3>1, <3>2, <3>4
  <2>5. room \in Nat /\ m.layout_top + 1 < m.macro_stack
    BY <1>2 DEF StackFull
  <2>6. top \in Int /\ layout_bottom <= top /\ top <= m.macro_stack
    <3> HIDE DEF comps
    <3>1. Least(room, Cardinality(comps)) \in Nat /\ Least(room, Cardinality(comps)) <= room
      BY <2>3, <2>5 DEF Least
    <3> QED BY <2>5, <3>1 DEF MemoryInv, Ordered
  <2>7. map \in [Addr -> Nat]
    <3> HIDE DEF At
    <3> QED BY <2>4
  <2>8. parts \in SUBSET part_layers /\ cnt \in Int  BY DEF FreshPart
  <2> HIDE DEF map, top, parts, cnt
  <2>9. r \in Manager  BY <2>6, <2>7, <2>8 DEF Manager
  <2>10. /\ r.mapping = map /\ r.layout_top = top /\ r.macro_stack = m.macro_stack
         /\ r.memo_bottom = m.memo_bottom /\ r.memo_top = m.memo_top
    BY DEF Manager
  <2>11. \A a \in Addr : a >= m.macro_stack => map[a] = m.mapping[a]
    <3> HIDE DEF At
    <3> SUFFICES ASSUME NEW a \in Addr, a >= m.macro_stack  PROVE map[a] = m.mapping[a]
      OBVIOUS
    <3>1. At(a) = {}  BY <2>4 DEF Addr
    <3>2. a # m.layout_top  BY <2>5 DEF Addr
    <3> QED BY <3>1, <3>2 DEF map
  <2>12. SameMemory(m, r)  BY <2>10, <2>11 DEF SameMemory
  <2> QED BY <2>1, <2>6, <2>9, <2>10, <2>12, SameMemoryInv
<1> QED BY <1>1, <1>2

\* Removing words from the stack moves every word that stays to a place in the array
\* below the old top.
LEMMA RemoveWordsInv ==
  ASSUME NEW m \in Manager, MemoryInv(m),
         NEW gone \in SUBSET (layout_bottom..(m.layout_top - 1))
  PROVE  /\ RemoveWords(m, gone) \in Manager /\ MemoryInv(RemoveWords(m, gone))
         /\ SameMemory(m, RemoveWords(m, gone))
<1> USE Bounds, Fields
<1> DEFINE map == [a \in Addr |-> IF a < m.layout_top THEN m.mapping[Source(m, gone, a)]
                                                     ELSE m.mapping[a]]
           top == m.layout_top - Cardinality(gone)
           r   == [m EXCEPT !.mapping = map, !.layout_top = top]
<1>1. RemoveWords(m, gone) = r  BY DEF RemoveWords
<1>2. IsFiniteSet(gone) /\ Cardinality(gone) \in 0..(m.layout_top - layout_bottom)
  <2> DEFINE stack == layout_bottom..(m.layout_top - 1)
  <2>1. IsFiniteSet(stack) /\ Cardinality(stack) = m.layout_top - layout_bottom
    <3>1. m.layout_top - 1 \in Int /\ layout_bottom \in Int  OBVIOUS
    <3>2. layout_bottom <= m.layout_top  BY DEF MemoryInv, Ordered
    <3>3. /\ IsFiniteSet(stack)
          /\ Cardinality(stack) = IF layout_bottom > m.layout_top - 1 THEN 0
                                  ELSE m.layout_top - 1 - layout_bottom + 1
      BY <3>1, FS_Interval
    <3> HIDE DEF stack
    <3> QED BY <3>2, <3>3
  <2> HIDE DEF stack
  <2>2. IsFiniteSet(gone) /\ Cardinality(gone) <= Cardinality(stack)
    BY <2>1, FS_Subset DEF stack
  <2> QED BY <2>1, <2>2, FS_CardinalityType
<1>3. ASSUME NEW a \in Addr, a < m.layout_top
      PROVE  Source(m, gone, a) \in Addr
  <2> DEFINE movers == Movers(m, gone, a)
             passed == {g \in movers : g - Cardinality({h \in movers : h < g}) <= a}
             n == m.layout_top - a - 1
  <2>1. n \in Nat  BY <1>3 DEF Addr
  <2>2. gone \in SUBSET Int  OBVIOUS
  <2>3. movers = {g \in gone : Cardinality({h \in gone : h > g}) < n}  BY DEF Movers
  <2> HIDE DEF movers, n
  <2>4. IsFiniteSet(movers) /\ Cardinality(movers) \in 0..n
    BY <1>2, <2>1, <2>2, <2>3, FewAbove
  <2>5. passed \in SUBSET movers  OBVIOUS
  <2> HIDE DEF passed
  <2>6. IsFiniteSet(passed) /\ Cardinality(passed) <= Cardinality(movers)
    BY <2>4, <2>5, FS_Subset
  <2>7. Cardinality(passed) \in Nat  BY <2>6, FS_CardinalityType
  <2>8. Source(m, gone, a) = a + Cardinality(passed)  BY DEF Source, passed, movers
  <2>9. Cardinality(passed) \in 0..(m.layout_top - a - 1)
    <3>1. n = m.layout_top - a - 1  BY DEF n
    <3> QED BY <2>1, <2>4, <2>6, <2>7, <3>1
  <2>10. a \in Int /\ layout_bottom <= a  BY DEF Addr
  <2>11. m.layout_top <= LAYOUT_MAX  BY DEF MemoryInv, Ordered
  <2> QED BY <2>8, <2>9, <2>10, <2>11 DEF Addr
<1>4. map \in [Addr -> Nat]  BY <1>3
<1>5. top \in Int /\ layout_bottom <= top /\ top <= m.layout_top  BY <1>2
<1>6. \A a \in Addr : a >= m.macro_stack => map[a] = m.mapping[a]
  BY DEF MemoryInv, Ordered, Addr
<1> HIDE DEF map, top
<1>7. r \in Manager  BY <1>4, <1>5 DEF Manager
<1>8. /\ r.mapping = map /\ r.layout_top = top /\ r.macro_stack = m.macro_stack
      /\ r.memo_bottom = m.memo_bottom /\ r.memo_top = m.memo_top
  BY DEF Manager
<1> HIDE DEF r
<1>9. SameMemory(m, r)  BY <1>6, <1>8 DEF SameMemory
<1>10. r.layout_top <= m.macro_stack  BY <1>5, <1>8 DEF MemoryInv, Ordered
<1> QED BY <1>1, <1>5, <1>7, <1>8, <1>9, <1>10, SameMemoryInv

\* pop_layer removes only words of the stack.
LEMMA PopLayerInv ==
  ASSUME NEW m \in Manager, MemoryInv(m), NEW w \in Nat
  PROVE  /\ PopLayer(m, w).m \in Manager /\ MemoryInv(PopLayer(m, w).m)
         /\ SameMemory(m, PopLayer(m, w).m)
<1> USE Bounds, Fields
<1> DEFINE found == Occurrences(m, w, m.layout_top)
           pos   == Top(found)
           old   == m.active_comp_part_layers
           last  == /\ w \in part_layers /\ w \in old
                    /\ Occurrences(m, w, pos) = {}
           parts == old \ {w}
           Broken(c) == /\ c \in Composites
                        /\ composite_bitmap[c] \subseteq old
                        /\ ~ composite_bitmap[c] \subseteq parts
           comps == IF last /\ m.active_comp_count > 1
                    THEN {a \in (pos + 1)..(m.layout_top - 1) : Broken(LayerOf(m.mapping[a]))}
                    ELSE {}
           marked == IF last THEN [m EXCEPT !.active_comp_part_layers = parts,
                                            !.active_comp_count = @ - 1] ELSE m
<1>1. CASE found = {} \/ w >= macro_dir_base
  <2>1. PopLayer(m, w).m = m  BY <1>1 DEF PopLayer
  <2> QED BY <2>1 DEF SameMemory
<1>2. CASE ~ (found = {} \/ w >= macro_dir_base)
  <2>1. PopLayer(m, w).m = RemoveWords(marked, comps \cup {pos})  BY <1>2 DEF PopLayer
  <2>2. found \in SUBSET (layout_bottom..(m.layout_top - 1))  BY DEF Occurrences
  <2>3. pos \in found
    <3>1. \E x \in found : \A y \in found : y <= x
      <4> HIDE DEF found
      <4>1. found \in SUBSET Int /\ \A a \in found : a <= m.layout_top  BY <2>2
      <4> QED BY <1>2, <4>1, GreatestElement
    <3> QED BY <3>1 DEF Top
  <2> HIDE DEF found, pos, last
  <2>4. comps \cup {pos} \in SUBSET (layout_bottom..(m.layout_top - 1))
    BY <2>2, <2>3
  <2> HIDE DEF comps
  <2>5. /\ marked \in Manager /\ marked.layout_top = m.layout_top /\ MemoryInv(marked)
        /\ SameMemory(m, marked)
    <3>1. marked \in Manager
      <4>1. parts \in SUBSET part_layers /\ m.active_comp_count - 1 \in Int  OBVIOUS
      <4> HIDE DEF parts
      <4> QED BY <4>1 DEF Manager
    <3>2. /\ marked.layout_top = m.layout_top /\ marked.mapping = m.mapping
          /\ marked.macro_stack = m.macro_stack /\ marked.memo_bottom = m.memo_bottom
          /\ marked.memo_top = m.memo_top
      BY DEF Manager
    <3> HIDE DEF marked
    <3>3. SameMemory(m, marked)  BY <3>2 DEF SameMemory
    <3>4. layout_bottom <= marked.layout_top /\ marked.layout_top <= m.macro_stack
      BY <3>2 DEF MemoryInv, Ordered
    <3> QED BY <3>1, <3>2, <3>3, <3>4, SameMemoryInv
  <2> HIDE DEF marked
  <2>6. comps \cup {pos} \in SUBSET (layout_bottom..(marked.layout_top - 1))
    BY <2>4, <2>5
  <2> DEFINE rest == RemoveWords(marked, comps \cup {pos})
  <2>7. rest \in Manager /\ MemoryInv(rest) /\ SameMemory(marked, rest)
    BY <2>5, <2>6, RemoveWordsInv
  <2>8. SameMemory(m, rest)  BY <2>5, <2>7 DEF SameMemory
  <2> QED BY <2>1, <2>7, <2>8
<1> QED BY <1>1, <1>2

\* setlayout and clear_layers touch the bottom of the stack only.
LEMMA BaseInv ==
  ASSUME NEW m \in Manager, MemoryInv(m), NEW w \in Nat
  PROVE  /\ SetLayout(m, w) \in Manager /\ MemoryInv(SetLayout(m, w))
         /\ SameMemory(m, SetLayout(m, w))
         /\ ClearLayers(m) \in Manager /\ MemoryInv(ClearLayers(m))
         /\ SameMemory(m, ClearLayers(m))
<1> USE Bounds, Fields
<1>1. SetLayout(m, w) \in Manager /\ MemoryInv(SetLayout(m, w)) /\ SameMemory(m, SetLayout(m, w))
  <2> DEFINE s == SetLayout(m, w)
  <2>1. s \in Manager  BY DEF SetLayout, Manager
  <2>2. /\ s.layout_top = m.layout_top /\ s.macro_stack = m.macro_stack
        /\ s.memo_bottom = m.memo_bottom /\ s.memo_top = m.memo_top
        /\ \A a \in Addr : a # layout_bottom => s.mapping[a] = m.mapping[a]
    BY DEF SetLayout, Manager
  <2> HIDE DEF s
  <2>3. SameMemory(m, s)  BY <2>2 DEF SameMemory, MemoryInv, Ordered, Addr
  <2>4. layout_bottom <= s.layout_top /\ s.layout_top <= m.macro_stack
    BY <2>2 DEF MemoryInv, Ordered
  <2>5. MemoryInv(s)  BY <2>1, <2>3, <2>4, SameMemoryInv
  <2> QED BY <2>1, <2>3, <2>5 DEF s
<1>2. ClearLayers(m) \in Manager /\ MemoryInv(ClearLayers(m)) /\ SameMemory(m, ClearLayers(m))
  <2> DEFINE s == ClearLayers(m)
  <2>1. s \in Manager  BY DEF ClearLayers, Manager
  <2>2. /\ s.layout_top = layout_bottom + 1 /\ s.macro_stack = m.macro_stack
        /\ s.memo_bottom = m.memo_bottom /\ s.memo_top = m.memo_top
        /\ s.mapping = m.mapping
    BY DEF ClearLayers, Manager
  <2> HIDE DEF s
  <2>3. SameMemory(m, s)  BY <2>2 DEF SameMemory
  <2>4. layout_bottom <= s.layout_top /\ s.layout_top <= m.macro_stack
    BY <2>2 DEF MemoryInv, Ordered
  <2>5. MemoryInv(s)  BY <2>1, <2>3, <2>4, SameMemoryInv
  <2> QED BY <2>1, <2>3, <2>5 DEF s
<1> QED BY <1>1, <1>2

\* defrag_stack moves the macro states and the memos to the end of the array as they
\* are, so that the memos end where the array ends.
LEMMA DefragInv ==
  ASSUME NEW m \in Manager, MemoryInv(m), NEW d, d = DefragStack(m)
  PROVE  /\ d \in Manager /\ MemoryInv(d)
         /\ d.memo_top = LAYOUT_MAX /\ d.layout_top = m.layout_top
         /\ d.memo_bottom - d.macro_stack = m.memo_bottom - m.macro_stack
<1> USE Bounds, Fields
<1> DEFINE diff == LAYOUT_MAX - m.memo_top
           map  == [a \in Addr |-> IF a >= m.macro_stack + diff THEN m.mapping[a - diff]
                                                               ELSE m.mapping[a]]
<1>1. diff \in Nat  BY DEF MemoryInv, Ordered
<1>2. map \in [Addr -> Nat]
  <2>1. ASSUME NEW a \in Addr, a >= m.macro_stack + diff PROVE a - diff \in Addr
    <3> HIDE DEF diff
    <3> QED BY <1>1, <2>1 DEF Addr, MemoryInv, Ordered
  <2> QED BY <2>1
<1> HIDE DEF map
<1>3. /\ d.mapping = map /\ d.layout_top = m.layout_top
      /\ d.macro_stack = m.macro_stack + diff /\ d.memo_bottom = m.memo_bottom + diff
      /\ d.memo_top = m.memo_top + diff
      /\ d.active_comp_part_layers = m.active_comp_part_layers
      /\ d.active_comp_count = m.active_comp_count
  BY DEF DefragStack, Manager, map
<1>4. d \in Manager
  <2>1. d = [m EXCEPT !.mapping = map, !.macro_stack = m.macro_stack + diff,
                      !.memo_bottom = m.memo_bottom + diff, !.memo_top = m.memo_top + diff]
    BY DEF DefragStack, map
  <2>2. /\ m.macro_stack + diff \in Int /\ m.memo_bottom + diff \in Int
        /\ m.memo_top + diff \in Int
    BY <1>1
  <2> HIDE DEF diff
  <2> QED BY <1>2, <2>1, <2>2 DEF Manager
<1>5. Ordered(d)  BY <1>1, <1>3 DEF MemoryInv, Ordered
<1>6. WholeSlots(d)  BY <1>1, <1>3 DEF MemoryInv, WholeSlots
<1>7. MemoChain(d)
  <2>1. PICK ends \in SUBSET Int : Chained(m, ends)  BY DEF MemoryInv, MemoChain
  <2> DEFINE moved == {e + diff : e \in ends}
  <2> HIDE DEF diff
  <2>2. moved \in SUBSET Int  BY <1>1
  <2>3. moved \subseteq d.memo_bottom..d.memo_top
    BY <1>1, <1>3, <2>1 DEF Chained
  <2>4. d.memo_bottom \in moved /\ d.memo_top \in moved  BY <1>3, <2>1 DEF Chained
  <2>5. ASSUME NEW e \in ends, e # m.memo_bottom, NEW b \in Int, b = e + diff
        PROVE  d.mapping[b - 1] = m.mapping[e - 1]
    <3>1. e \in Int /\ m.memo_bottom < e /\ e <= m.memo_top
      <4>1. e \in m.memo_bottom..m.memo_top  BY <2>1 DEF Chained
      <4> QED BY <2>5, <4>1
    <3>2. e + diff - 1 \in Addr
      <4>1. e + diff <= LAYOUT_MAX  BY <3>1 DEF diff
      <4>2. layout_bottom < e  BY <3>1 DEF MemoryInv, Ordered
      <4> QED BY <1>1, <3>1, <4>1, <4>2 DEF Addr
    <3>3. e + diff - 1 >= m.macro_stack + diff  BY <1>1, <3>1 DEF MemoryInv, Ordered
    <3>4. ASSUME NEW a \in Addr, a >= m.macro_stack + diff
          PROVE  d.mapping[a] = m.mapping[a - diff]
      BY <1>3, <3>4 DEF map
    <3> DEFINE a == b - 1
    <3>5. a \in Addr /\ a >= m.macro_stack + diff
      BY <1>1, <2>5, <3>1, <3>2, <3>3
    <3>6. a - diff = e - 1  BY <1>1, <2>5, <3>1
    <3> HIDE DEF a
    <3>7. d.mapping[a] = m.mapping[a - diff]  BY <3>4, <3>5
    <3>8. d.mapping[a] = m.mapping[e - 1]  BY <3>6, <3>7
    <3> QED BY <3>8 DEF a
  <2>6. ASSUME NEW b \in moved, b # d.memo_bottom
        PROVE  d.mapping[b - 1] \in {2, 5} /\ b - 1 - d.mapping[b - 1] \in moved
    <3>1. PICK e \in ends : b = e + diff  OBVIOUS
    <3>2. e # m.memo_bottom  BY <1>3, <2>6, <3>1
    <3>3. m.mapping[e - 1] \in {2, 5} /\ e - 1 - m.mapping[e - 1] \in ends
      BY <2>1, <3>2 DEF Chained
    <3>4. m.mapping[e - 1] \in Int
      <4>1. e \in m.memo_bottom..m.memo_top  BY <2>1 DEF Chained
      <4>2. e - 1 \in Addr  BY <3>2, <4>1 DEF Addr, MemoryInv, Ordered
      <4> QED BY <4>2
    <3>5. d.mapping[b - 1] = m.mapping[e - 1]
      <4>1. b \in Int  BY <2>2, <2>6
      <4> QED BY <2>5, <3>1, <3>2, <4>1
    <3>6. b - 1 - d.mapping[b - 1] = e - 1 - m.mapping[e - 1] + diff
      BY <1>1, <3>1, <3>4, <3>5
    <3> QED BY <3>3, <3>5, <3>6
  <2> HIDE DEF moved
  <2>7. Chained(d, moved)  BY <2>3, <2>4, <2>6 DEF Chained
  <2> QED BY <2>2, <2>7 DEF MemoChain
<1>8. d.memo_top = LAYOUT_MAX /\ d.memo_bottom - d.macro_stack = m.memo_bottom - m.macro_stack
  BY <1>1, <1>3
<1> QED BY <1>3, <1>4, <1>5, <1>6, <1>7, <1>8 DEF MemoryInv

\* A memo is pushed below the others, with its length above it.
LEMMA PushMemoInv ==
  ASSUME NEW m \in Manager, MemoryInv(m), NEW memo \in Seq(Nat), Len(memo) \in {2, 5}
  PROVE  /\ PushMemo(m, memo).m \in Manager /\ MemoryInv(PushMemo(m, memo).m)
         /\ PushMemo(m, memo).ok => m.memo_bottom = m.macro_stack
<1> USE Bounds, Fields
<1> DEFINE d    == DefragStack(m)
           len  == Len(memo)
           base == d.memo_bottom - len - 1
           map  == [a \in Addr |->
                      IF a >= base /\ a < base + len THEN memo[a - base + 1]
                      ELSE IF a = d.memo_bottom - 1 THEN len ELSE d.mapping[a]]
           r    == [d EXCEPT !.mapping = map, !.macro_stack = base, !.memo_bottom = base]
<1>1. d \in Manager /\ MemoryInv(d)  BY DefragInv
<1>a. d.memo_bottom - d.macro_stack = m.memo_bottom - m.macro_stack  BY DefragInv
<1>2. CASE d.macro_stack # d.memo_bottom \/ base <= d.layout_top
  <2>1. PushMemo(m, memo).m = d /\ PushMemo(m, memo).ok = FALSE  BY <1>2 DEF PushMemo, NoMemoRoom
  <2> QED BY <1>1, <2>1
<1>3. CASE ~ (d.macro_stack # d.memo_bottom \/ base <= d.layout_top)
  <2>1. PushMemo(m, memo).m = r  BY <1>3 DEF PushMemo, NoMemoRoom
  <2> HIDE DEF d
  <2>a. m.memo_bottom = m.macro_stack  BY <1>1, <1>a, <1>3
  <2>2. len \in Nat /\ len \in {2, 5} /\ \A i \in 1..len : memo[i] \in Nat  OBVIOUS
  <2> HIDE DEF len
  <2>3. base \in Int /\ base + len = d.memo_bottom - 1  BY <1>1, <2>2
  <2>4. d.layout_top < base  BY <1>1, <1>3, <2>3
  <2> HIDE DEF base
  <2>5. map \in [Addr -> Nat]
    <3>1. ASSUME NEW a \in Addr, a >= base, a < base + len PROVE memo[a - base + 1] \in Nat
      <4>1. a - base + 1 \in 1..len  BY <2>2, <2>3, <3>1 DEF Addr
      <4> QED BY <2>2, <4>1
    <3> QED BY <1>1, <2>2, <3>1
  <2>6. \A a \in Addr : a >= d.memo_bottom => map[a] = d.mapping[a]
    BY <1>1, <2>2, <2>3 DEF Addr
  <2>7. d.memo_bottom - 1 \in Addr
    <3>1. d.memo_bottom <= LAYOUT_MAX /\ layout_bottom <= d.layout_top
      BY <1>1 DEF MemoryInv, Ordered
    <3>2. d.memo_bottom \in Int /\ d.layout_top \in Int  BY <1>1
    <3>3. layout_bottom <= d.memo_bottom - 1  BY <2>2, <2>3, <2>4, <3>1, <3>2
    <3> QED BY <3>1, <3>2, <3>3 DEF Addr
  <2>8. map[d.memo_bottom - 1] = len
    <3>1. ~ (d.memo_bottom - 1 < base + len)  BY <1>1, <2>3
    <3> QED BY <2>7, <3>1
  <2> HIDE DEF map
  <2>9. r \in Manager  BY <1>1, <2>3, <2>5 DEF Manager
  <2>10. /\ r.mapping = map /\ r.layout_top = d.layout_top /\ r.macro_stack = base
         /\ r.memo_bottom = base /\ r.memo_top = d.memo_top
    BY <1>1 DEF Manager
  <2> HIDE DEF r
  <2>11. Ordered(r)
    <3>1. /\ layout_bottom <= d.layout_top /\ d.memo_bottom <= d.memo_top
          /\ d.memo_top <= LAYOUT_MAX
      BY <1>1 DEF MemoryInv, Ordered
    <3>2. d.layout_top \in Int /\ d.memo_bottom \in Int /\ d.memo_top \in Int  BY <1>1
    <3>3. base < d.memo_bottom  BY <2>2, <2>3, <3>2
    <3>4. /\ layout_bottom < base /\ d.layout_top <= base /\ base <= base
          /\ base <= d.memo_top
      BY <2>3, <2>4, <3>1, <3>2, <3>3
    <3> QED BY <2>10, <3>1, <3>4 DEF Ordered
  <2>12. WholeSlots(r)
    <3>1. r.memo_bottom = r.macro_stack + 3 * 0  BY <2>3, <2>10
    <3> QED BY <3>1 DEF WholeSlots
  <2>13. MemoChain(r)
    <3>1. PICK ends \in SUBSET Int : Chained(d, ends)  BY <1>1 DEF MemoryInv, MemoChain
    <3> DEFINE more == ends \cup {base}
    <3>2. more \in SUBSET Int  BY <2>3
    <3>3. more \subseteq r.memo_bottom..r.memo_top
      BY <1>1, <2>2, <2>3, <2>10, <2>11, <3>1 DEF Chained, Ordered
    <3>4. r.memo_bottom \in more /\ r.memo_top \in more  BY <2>10, <3>1 DEF Chained
    <3>5. ASSUME NEW e \in more, e # r.memo_bottom
          PROVE  r.mapping[e - 1] \in {2, 5} /\ e - 1 - r.mapping[e - 1] \in more
      <4>1. e \in ends /\ e \in d.memo_bottom..d.memo_top  BY <2>10, <3>1, <3>5 DEF Chained
      <4>2. CASE e = d.memo_bottom
        <5>1. r.mapping[e - 1] = len  BY <2>8, <2>10, <4>2
        <5>2. e - 1 - len = base  BY <1>1, <2>2, <2>3, <4>2
        <5> QED BY <2>2, <5>1, <5>2
      <4>3. CASE e # d.memo_bottom
        <5>1. e - 1 \in Addr /\ e - 1 >= d.memo_bottom
          BY <1>1, <4>1, <4>3 DEF Addr, MemoryInv, Ordered
        <5>2. r.mapping[e - 1] = d.mapping[e - 1]  BY <2>6, <2>10, <5>1
        <5>3. d.mapping[e - 1] \in {2, 5} /\ e - 1 - d.mapping[e - 1] \in ends
          BY <3>1, <4>1, <4>3 DEF Chained
        <5> QED BY <5>2, <5>3
      <4> QED BY <4>2, <4>3
    <3> HIDE DEF more
    <3>6. Chained(r, more)  BY <3>3, <3>4, <3>5 DEF Chained
    <3> QED BY <3>2, <3>6 DEF MemoChain
  <2> QED BY <2>1, <2>a, <2>9, <2>11, <2>12, <2>13 DEF MemoryInv
<1> QED BY <1>2, <1>3

\* The oldest memo goes, and the chain is one link shorter.
LEMMA PopMemoInv ==
  ASSUME NEW m \in Manager, MemoryInv(m), m.memo_bottom # m.memo_top
  PROVE  PopMemo(m).m \in Manager /\ MemoryInv(PopMemo(m).m)
<1> USE Bounds, Fields
<1> DEFINE top   == m.memo_top
           start == top - 1 - m.mapping[top - 1]
           r     == [m EXCEPT !.memo_top = start]
<1>1. PopMemo(m).m = r  BY DEF PopMemo
<1>2. PICK ends \in SUBSET Int : Chained(m, ends)  BY DEF MemoryInv, MemoChain
<1>3. start \in ends  BY <1>2 DEF Chained
<1>4. start \in Int /\ start >= m.memo_bottom /\ start < top
  <2>1. start \in m.memo_bottom..m.memo_top  BY <1>2, <1>3 DEF Chained
  <2>2. top - 1 \in Addr  BY DEF Addr, MemoryInv, Ordered
  <2>3. m.mapping[top - 1] \in Nat  BY <2>2
  <2> QED BY <2>1, <2>3
<1> HIDE DEF start
<1>5. r \in Manager  BY <1>4 DEF Manager
<1>6. /\ r.mapping = m.mapping /\ r.layout_top = m.layout_top
      /\ r.macro_stack = m.macro_stack /\ r.memo_bottom = m.memo_bottom
      /\ r.memo_top = start
  BY DEF Manager
<1> HIDE DEF r
<1>7. Ordered(r)  BY <1>4, <1>6 DEF MemoryInv, Ordered
<1>8. WholeSlots(r)  BY <1>6 DEF MemoryInv, WholeSlots
<1>9. MemoChain(r)
  <2> DEFINE less == {e \in ends : e <= start}
  <2>1. less \in SUBSET Int  OBVIOUS
  <2>2. less \subseteq r.memo_bottom..r.memo_top
    <3>1. ASSUME NEW e \in less PROVE e \in r.memo_bottom..r.memo_top
      <4>1. e \in m.memo_bottom..m.memo_top /\ e <= start  BY <1>2 DEF Chained
      <4> QED BY <1>4, <1>6, <4>1
    <3> QED BY <3>1
  <2>3. r.memo_bottom \in less /\ r.memo_top \in less  BY <1>2, <1>3, <1>4, <1>6 DEF Chained
  <2>4. ASSUME NEW e \in less, e # r.memo_bottom PROVE r.mapping[e - 1] \in {2, 5} /\ e - 1 - r.mapping[e - 1] \in less
    <3>1. e \in ends /\ e \in m.memo_bottom..m.memo_top /\ e <= start
      BY <1>2 DEF Chained
    <3>2. m.mapping[e - 1] \in {2, 5} /\ e - 1 - m.mapping[e - 1] \in ends
      BY <1>2, <1>6, <2>4, <3>1 DEF Chained
    <3>3. e - 1 \in Addr  BY <1>6, <2>4, <3>1 DEF Addr, MemoryInv, Ordered
    <3>4. m.mapping[e - 1] \in Nat  BY <3>3
    <3>5. e - 1 - m.mapping[e - 1] <= start  BY <1>4, <3>1, <3>4
    <3> QED BY <1>6, <3>2, <3>5
  <2> HIDE DEF less
  <2>5. Chained(r, less)  BY <2>2, <2>3, <2>4 DEF Chained
  <2> QED BY <2>1, <2>5 DEF MemoChain
<1> QED BY <1>1, <1>5, <1>7, <1>8, <1>9 DEF MemoryInv

MacroType == [mode : Nat, location : Nat, rem : Nat]

\* A slot that is there is whole.
LEMMA SlotIsWhole ==
  ASSUME NEW m \in Manager, MemoryInv(m), m.memo_bottom > m.macro_stack
  PROVE  m.macro_stack + 3 <= m.memo_bottom
<1>1. PICK k \in Nat : m.memo_bottom = m.macro_stack + 3 * k  BY DEF MemoryInv, WholeSlots
<1>2. k # 0  BY <1>1, Fields
<1> QED BY <1>1, <1>2, Fields

\* The state of the running macro is written into a slot, never over a memo.
LEMMA UpdateMacroInv ==
  ASSUME NEW m \in Manager, MemoryInv(m), NEW mac \in MacroType,
         mac # Noop => m.memo_bottom > m.macro_stack
  PROVE  /\ UpdateMacro(m, mac) \in Manager /\ MemoryInv(UpdateMacro(m, mac))
         /\ UpdateMacro(m, mac).macro_stack = m.macro_stack
         /\ UpdateMacro(m, mac).memo_bottom = m.memo_bottom
         /\ UpdateMacro(m, mac).layout_top = m.layout_top
<1> USE Bounds, Fields
<1>1. CASE mac = Noop  BY <1>1 DEF UpdateMacro
<1>2. CASE mac # Noop
  <2> DEFINE ms == m.macro_stack
             u  == UpdateMacro(m, mac)
  <2>1. ms + 3 <= m.memo_bottom  BY <1>2, SlotIsWhole
  <2>2. ms \in Addr /\ ms + 1 \in Addr /\ ms + 2 \in Addr
    BY <2>1 DEF Addr, MemoryInv, Ordered
  <2> HIDE DEF ms
  <2>3. mac.mode \in Nat /\ mac.location \in Nat /\ mac.rem \in Nat  BY DEF MacroType
  <2> DEFINE map == [m.mapping EXCEPT ![ms] = mac.mode, ![ms + 1] = mac.location,
                                      ![ms + 2] = mac.rem]
  <2>4. map \in [Addr -> Nat]  BY <2>2, <2>3
  <2>5. \A a \in Addr : a >= m.memo_bottom => map[a] = m.mapping[a]
    <3> SUFFICES ASSUME NEW a \in Addr, a >= m.memo_bottom PROVE map[a] = m.mapping[a]
      OBVIOUS
    <3>1. a # ms /\ a # ms + 1 /\ a # ms + 2  BY <2>1, <2>2 DEF Addr
    <3> QED BY <3>1
  <2> HIDE DEF map
  <2>6. u = [m EXCEPT !.mapping = map]  BY <1>2 DEF UpdateMacro, Manager, map, ms
  <2> HIDE DEF u
  <2>7. u \in Manager  BY <2>4, <2>6 DEF Manager
  <2>8. /\ u.mapping = map /\ u.layout_top = m.layout_top
        /\ u.macro_stack = m.macro_stack /\ u.memo_bottom = m.memo_bottom
        /\ u.memo_top = m.memo_top
    BY <2>6 DEF Manager
  <2>9. Ordered(u) /\ WholeSlots(u)  BY <2>8 DEF MemoryInv, Ordered, WholeSlots
  <2>10. MemoChain(u)  BY <2>5, <2>7, <2>8, ChainKept DEF MemoryInv
  <2> QED BY <2>7, <2>8, <2>9, <2>10 DEF MemoryInv, u
<1> QED BY <1>1, <1>2

\* A macro that finds room gets a slot of its own.
LEMMA PushMacroInv ==
  ASSUME NEW m \in Manager, MemoryInv(m), NEW mac \in MacroType,
         DefragStack(m).macro_stack - DefragStack(m).layout_top > 3
  PROVE  /\ PushMacro(m, mac) \in Manager /\ MemoryInv(PushMacro(m, mac))
         /\ PushMacro(m, mac).memo_bottom > PushMacro(m, mac).macro_stack
<1> USE Bounds, Fields
<1> DEFINE d == DefragStack(m)
           ms == d.macro_stack - 3
           r == [d EXCEPT !.macro_stack = ms]
<1>1. d \in Manager /\ MemoryInv(d) /\ ms > d.layout_top  BY DefragInv
<1>2. PushMacro(m, mac) = UpdateMacro(r, mac)  BY DEF PushMacro
<1> HIDE DEF d
<1>3. ms \in Int  BY <1>1
<1> HIDE DEF ms
<1>4. r \in Manager  BY <1>1, <1>3 DEF Manager
<1>5. /\ r.mapping = d.mapping /\ r.layout_top = d.layout_top /\ r.macro_stack = ms
      /\ r.memo_bottom = d.memo_bottom /\ r.memo_top = d.memo_top
  BY <1>1 DEF Manager
<1> HIDE DEF r
<1>6. Ordered(r) /\ r.memo_bottom > r.macro_stack
  BY <1>1, <1>3, <1>5 DEF MemoryInv, Ordered, ms
<1>7. WholeSlots(r)
  <2>1. PICK k \in Nat : d.memo_bottom = d.macro_stack + 3 * k
    BY <1>1 DEF MemoryInv, WholeSlots
  <2>2. r.memo_bottom = r.macro_stack + 3 * (k + 1)  BY <1>1, <1>5, <2>1 DEF ms
  <2>3. k + 1 \in Nat  OBVIOUS
  <2> QED BY <2>2, <2>3 DEF WholeSlots
<1>8. MemoChain(r)  BY <1>1, <1>4, <1>5, ChainKept DEF MemoryInv
<1>9. MemoryInv(r)  BY <1>6, <1>7, <1>8 DEF MemoryInv
<1> QED BY <1>2, <1>4, <1>6, <1>9, UpdateMacroInv

\* A macro that ends frees its slot; the one below it, if any, has a whole slot.
LEMMA PopMacroInv ==
  ASSUME NEW m \in Manager, MemoryInv(m), m.memo_bottom > m.macro_stack
  PROVE  /\ PopMacro(m).m \in Manager /\ MemoryInv(PopMacro(m).m)
         /\ PopMacro(m).mac \in MacroType
         /\ PopMacro(m).mac # Noop => PopMacro(m).m.memo_bottom > PopMacro(m).m.macro_stack
<1> USE Bounds, Fields
<1> DEFINE next == m.macro_stack + 3
           r == [m EXCEPT !.macro_stack = next]
<1>1. PICK k \in Nat : m.memo_bottom = next + 3 * k
  <2>1. PICK k \in Nat : m.memo_bottom = m.macro_stack + 3 * k  BY DEF MemoryInv, WholeSlots
  <2>2. k # 0  BY <2>1
  <2>3. k - 1 \in Nat /\ m.memo_bottom = next + 3 * (k - 1)  BY <2>1, <2>2
  <2> QED BY <2>3
<1>2. next \in Int /\ next <= m.memo_bottom  BY <1>1
<1>3. PopMacro(m).mac \in MacroType
  <2>1. CASE next = m.memo_bottom
    <3>1. PopMacro(m).mac = Noop  BY <2>1 DEF PopMacro
    <3> QED BY <3>1 DEF Noop, MacroType
  <2>2. CASE next # m.memo_bottom
    <3>1. next \in Addr /\ next + 1 \in Addr /\ next + 2 \in Addr
      <4>1. next + 3 <= m.memo_bottom  BY <1>1, <2>2
      <4>2. layout_bottom < m.macro_stack /\ m.memo_bottom <= LAYOUT_MAX
        BY DEF MemoryInv, Ordered
      <4> QED BY <4>1, <4>2 DEF Addr
    <3>2. PopMacro(m).mac = [mode |-> m.mapping[next], location |-> m.mapping[next + 1],
                             rem |-> m.mapping[next + 2]]
      BY <2>2 DEF PopMacro
    <3> HIDE DEF next
    <3> QED BY <3>1, <3>2 DEF MacroType
  <2> QED BY <2>1, <2>2
<1>4. PopMacro(m).m = r  BY DEF PopMacro
<1>5. PopMacro(m).mac # Noop => next # m.memo_bottom  BY DEF PopMacro
<1>6. layout_bottom <= m.layout_top /\ m.layout_top <= next /\ layout_bottom < next
  BY DEF MemoryInv, Ordered
<1> HIDE DEF next
<1>7. r \in Manager  BY <1>2 DEF Manager
<1>8. /\ r.mapping = m.mapping /\ r.layout_top = m.layout_top /\ r.macro_stack = next
      /\ r.memo_bottom = m.memo_bottom /\ r.memo_top = m.memo_top
  BY DEF Manager
<1> HIDE DEF r
<1>9. Ordered(r) /\ WholeSlots(r)  BY <1>1, <1>2, <1>6, <1>8 DEF MemoryInv, Ordered, WholeSlots
<1>10. MemoChain(r)  BY <1>7, <1>8, ChainKept DEF MemoryInv
<1>11. MemoryInv(r)  BY <1>9, <1>10 DEF MemoryInv
<1> QED BY <1>2, <1>3, <1>4, <1>5, <1>7, <1>8, <1>11

-----------------------------------------------------------------------------
(***************************************************************************)
(* The theorem: for a keyboard without stop_active whose macros find room  *)
(* (the two calls that are left out break the invariant: a macro without a *)
(* slot writes into a memo, and stop_active may move layout_top past       *)
(* macro_stack).                                                           *)
(***************************************************************************)
SafeCalls == Calls \cap {"clear_modifier_layers", "push_macro_without_slot"} = {}

LEMMA InitInv == Init => IInv
<1> SUFFICES ASSUME Init PROVE IInv
  OBVIOUS
<1> DEFINE m == [mapping |-> [a \in Addr |-> 0], layout_top |-> 0, macro_stack |-> 0,
                 memo_bottom |-> 0, memo_top |-> 0,
                 active_comp_part_layers |-> {}, active_comp_count |-> 0]
<1>1. m \in Manager  BY DEF Manager
<1>2. mgr = ClearAll(m)  BY DEF Init, Loaded
<1> HIDE DEF m
<1>3. mgr \in Manager /\ MemoryInv(mgr)  BY <1>1, <1>2, ClearAllInv
<1>4. macro_running = Noop /\ panicked = FALSE  BY DEF Init
<1>5. Noop \in MacroType  BY DEF Noop, MacroType
<1> QED BY <1>3, <1>4, <1>5 DEF IInv, TypeOK, MacroType

LEMMA StepInv ==
  ASSUME SafeCalls, IInv, [Next]_vars
  PROVE  IInv'
<1>0. /\ mgr \in Manager /\ MemoryInv(mgr) /\ macro_running \in MacroType
      /\ panicked = FALSE /\ Noop \in MacroType
      /\ macro_running # Noop => mgr.memo_bottom > mgr.macro_stack
  BY DEF IInv, TypeOK, MacroType, Noop
<1> DEFINE Good(m, mac) == /\ m \in Manager /\ MemoryInv(m) /\ mac \in MacroType
                           /\ mac # Noop => m.memo_bottom > m.macro_stack
           Goal == Good(mgr', macro_running') /\ panicked' = FALSE
<1>a. Good(mgr, macro_running)  BY <1>0
<1> SUFFICES Goal
  BY DEF IInv, TypeOK, MacroType, MemoryInv, Ordered, MemoChain, Chained, WholeSlots
<1>b. Reset => Goal  BY <1>0, ClearAllInv DEF Reset
<1>d. ASSUME NEW m, m \in Manager, MemoryInv(m), SameMemory(mgr, m), mgr' = m,
             UNCHANGED <<macro_running, panicked>>
      PROVE  Goal
  BY <1>0, <1>d DEF SameMemory
<1>1. CASE UNCHANGED vars  BY <1>0, <1>a, <1>1 DEF vars
<1>2. ASSUME NEW n \in PushLayers, Push(n) \/ Pop(LayerOf(n)) PROVE Goal
  <2>1. n \in Nat /\ LayerOf(n) \in Nat  BY CallsAssumption DEF LayerOf
  <2>2. CASE Push(n)
    <3>1. mgr' = PushLayer(mgr, n).m /\ UNCHANGED <<macro_running, panicked>>
      BY <2>2 DEF Push
    <3> QED BY <1>0, <1>d, <2>1, <3>1, PushLayerInv
  <2>3. CASE Pop(LayerOf(n))
    <3>1. mgr' = PopLayer(mgr, LayerOf(n)).m /\ UNCHANGED <<macro_running, panicked>>
      BY <2>3 DEF Pop
    <3> QED BY <1>0, <1>d, <2>1, <3>1, PopLayerInv
  <2> QED BY <1>2, <2>2, <2>3
<1>3. ASSUME NEW n \in BaseLayers, SetBase(n) PROVE Goal
  <2>1. n \in Nat  BY CallsAssumption
  <2>2. mgr' = SetLayout(mgr, n) /\ UNCHANGED <<macro_running, panicked>>
    BY <1>3 DEF SetBase
  <2> QED BY <1>0, <1>d, <2>1, <2>2, BaseInv
<1>4. CASE ClearEverything  BY <1>4, <1>b DEF ClearEverything
<1>5. CASE ClearToBase
  <2>1. mgr' = ClearLayers(mgr) /\ UNCHANGED <<macro_running, panicked>>
    BY <1>5 DEF ClearToBase
  <2>2. 0 \in Nat  OBVIOUS
  <2> QED BY <1>0, <1>d, <2>1, <2>2, BaseInv
<1>6. CASE ClearModifiers \/ ClearModifiersPanics
  BY <1>6 DEF ClearModifiers, ClearModifiersPanics, May, SafeCalls
<1>7. ASSUME NEW memo \in Memos, PutOff(memo) PROVE Goal
  <2>1. memo \in Seq(Nat) /\ Len(memo) \in {2, 5}  BY CallsAssumption
  <2>2. CASE Reset  BY <1>b, <2>2
  <2>3. CASE /\ PushMemo(mgr, memo).ok
             /\ mgr' = PushMemo(mgr, memo).m
             /\ UNCHANGED <<macro_running, panicked>>
    <3>1. mgr.memo_bottom = mgr.macro_stack  BY <1>0, <2>1, <2>3, PushMemoInv
    <3>2. macro_running = Noop  BY <1>0, <3>1, Fields
    <3>3. mgr' \in Manager /\ MemoryInv(mgr')  BY <1>0, <2>1, <2>3, PushMemoInv
    <3> QED BY <1>0, <2>3, <3>2, <3>3
  <2> QED BY <1>7, <2>2, <2>3 DEF PutOff
<1>8. CASE RunMemo
  <2>1. mgr.memo_bottom # mgr.memo_top /\ macro_running = Noop  BY <1>8 DEF RunMemo
  <2>2. mgr.mapping[mgr.memo_top - 1] \in {2, 5}
    BY <1>0, <2>1 DEF MemoryInv, MemoChain, Chained
  <2>3. mgr' = PopMemo(mgr).m /\ UNCHANGED <<macro_running, panicked>>
    BY <1>8, <2>2 DEF RunMemo
  <2>4. mgr' \in Manager /\ MemoryInv(mgr')  BY <1>0, <2>1, <2>3, PopMemoInv
  <2> QED BY <1>0, <2>1, <2>3, <2>4
<1>9. ASSUME NEW mac \in Macros, CallMacro(mac) PROVE Goal
  <2>1. mac \in MacroType  BY CallsAssumption DEF MacroType
  <2>2. SlotRoom  BY <1>9 DEF CallMacro, May, SafeCalls
  <2>3. ~ UpdateMacroPanics(mgr, macro_running)
    <3>1. macro_running # Noop => mgr.macro_stack + 3 <= LAYOUT_MAX
      BY <1>0, SlotIsWhole, Bounds, Fields DEF MemoryInv, Ordered
    <3> QED BY <1>0, <3>1, Bounds, Fields DEF UpdateMacroPanics
  <2>4. CASE /\ mgr' = PushMacro(UpdateMacro(mgr, macro_running), mac)
             /\ macro_running' = mac
             /\ UNCHANGED panicked
    <3> DEFINE u == UpdateMacro(mgr, macro_running)
    <3>1. /\ u \in Manager /\ MemoryInv(u) /\ u.macro_stack = mgr.macro_stack
          /\ u.memo_bottom = mgr.memo_bottom /\ u.layout_top = mgr.layout_top
      BY <1>0, UpdateMacroInv
    <3>2. DefragStack(u).macro_stack - DefragStack(u).layout_top > 3
      <4>1. u.memo_top = mgr.memo_top
        BY <1>0 DEF UpdateMacro, Manager
      <4>2. /\ DefragStack(u).macro_stack = DefragStack(mgr).macro_stack
            /\ DefragStack(u).layout_top = mgr.layout_top
        BY <1>0, <3>1, <4>1 DEF DefragStack, Manager
      <4> QED BY <2>2, <4>2 DEF SlotRoom
    <3> HIDE DEF u
    <3>3. /\ PushMacro(u, mac) \in Manager /\ MemoryInv(PushMacro(u, mac))
          /\ PushMacro(u, mac).memo_bottom > PushMacro(u, mac).macro_stack
      BY <2>1, <3>1, <3>2, PushMacroInv
    <3> QED BY <1>0, <2>1, <2>4, <3>3 DEF u
  <2> QED BY <1>9, <2>3, <2>4 DEF CallMacro
<1>10. CASE AdvanceMacro
  <2>1. UNCHANGED <<mgr, panicked>> /\ macro_running # Noop
    BY <1>10 DEF AdvanceMacro
  <2>2. macro_running' \in MacroType
    <3>1. macro_running.location + 1 \in Nat /\ macro_running.rem - 1 \in Nat
      BY <1>0, <1>10 DEF AdvanceMacro, MacroType
    <3> QED BY <1>0, <1>10, <3>1 DEF AdvanceMacro, MacroType
  <2> QED BY <1>0, <2>1, <2>2
<1>11. CASE ReturnMacro
  <2>1. ~ PopMacroPanics(mgr)
    <3>1. mgr.macro_stack + 3 <= mgr.memo_bottom
      BY <1>0, <1>11, SlotIsWhole DEF ReturnMacro
    <3> QED BY <1>0, <3>1, Fields DEF PopMacroPanics
  <2>2. CASE /\ mgr' = PopMacro(mgr).m /\ macro_running' = PopMacro(mgr).mac
             /\ UNCHANGED panicked
    <3>1. mgr.memo_bottom > mgr.macro_stack  BY <1>0, <1>11 DEF ReturnMacro
    <3> QED BY <1>0, <2>2, <3>1, PopMacroInv
  <2> QED BY <1>11, <2>1, <2>2 DEF ReturnMacro
<1> HIDE DEF Goal
<1> QED BY <1>1, <1>2, <1>3, <1>4, <1>5, <1>6, <1>7, <1>8, <1>9, <1>10, <1>11 DEF Next

LEMMA Invariance == ASSUME SafeCalls PROVE Spec => []IInv
<1>1. Init => IInv  BY InitInv
<1>2. IInv /\ [Next]_vars => IInv'  BY StepInv
<1> QED BY <1>1, <1>2, PTL DEF Spec

\* Every word of the layout memory and every pointer into it stays in its type.
THEOREM TypeCorrect == ASSUME SafeCalls PROVE Spec => []TypeOK
<1>1. IInv => TypeOK  BY DEF IInv
<1> QED BY <1>1, Invariance, PTL

\* Layers, macro states and memos never overlap, whatever is pushed in what order.
THEOREM RegionsSafe == ASSUME SafeCalls PROVE Spec => []RegionsOrdered
<1>1. IInv => RegionsOrdered  BY DEF IInv, MemoryInv, Ordered, RegionsOrdered
<1> QED BY <1>1, Invariance, PTL

\* The running macro has a slot, whatever macros call each other.
THEOREM SlotSafe == ASSUME SafeCalls PROVE Spec => []MacroHasSlot
<1>1. IInv => MacroHasSlot
  <2>1. IInv /\ macro_running # Noop => mgr.macro_stack + 3 <= mgr.memo_bottom
    BY SlotIsWhole DEF IInv, TypeOK
  <2>2. IInv => mgr.macro_stack \in Int /\ mgr.memo_bottom \in Int
    BY Fields DEF IInv, TypeOK
  <2> QED BY <2>1, <2>2 DEF MacroHasSlot, MacroWords
<1> QED BY <1>1, Invariance, PTL

\* No access to the layout memory is out of range, and run_memo never meets a memo
\* of an impossible length.
THEOREM PanicFree == ASSUME SafeCalls PROVE Spec => []NeverPanics
<1>1. IInv => NeverPanics  BY DEF IInv, NeverPanics
<1> QED BY <1>1, Invariance, PTL

-----------------------------------------------------------------------------
(***************************************************************************)
(* EventQueue: key events and actions that are put off come back in order  *)
(* and word for word, and an interrupted macro resumes where it stopped,   *)
(* although both move in memory all the time.                              *)
(*                                                                         *)
(* The refinement mapping reads the queue by following the lengths in the  *)
(* array from memo_top down, and the frames from every third word.  The    *)
(* invariant gives both a shape that can be reasoned about: a function     *)
(* from the position of a memo to its end (Links), and no idle macro among *)
(* the callers (Callers).                                                  *)
(***************************************************************************)
\* f[i] is the end of the i-th memo, and f[n + 1] is memo_bottom.
Links(m, n, f) ==
  /\ f \in [1..(n + 1) -> Int]
  /\ f[1] = m.memo_top /\ f[n + 1] = m.memo_bottom
  /\ \A i \in 1..n : /\ m.memo_bottom < f[i] /\ f[i] <= m.memo_top
                     /\ m.mapping[f[i] - 1] \in {2, 5}
                     /\ f[i + 1] = Below(m, f[i])

Linked(m) == \E n \in Nat : \E f \in [1..(n + 1) -> Int] : Links(m, n, f)

\* There is a slot for the running macro, and the slots above it hold macros that
\* were interrupted: none of them is idle.
Callers(m, running) ==
  /\ running = Noop <=> m.macro_stack = m.memo_bottom
  /\ \A i \in Nat : 3 * i < m.memo_bottom - m.macro_stack /\ i # 0 => Slot(m, i + 1) # Noop

QInv == IInv /\ Linked(mgr) /\ Callers(mgr, macro_running)

\* p has the memos of m, delta words further up.
MovedMemos(m, p, delta) ==
  /\ p.memo_bottom = m.memo_bottom + delta /\ p.memo_top = m.memo_top + delta
  /\ \A a \in Addr : m.memo_bottom <= a /\ a < m.memo_top => p.mapping[a + delta] = m.mapping[a]

\* Sequences by their elements.
LEMMA ConsIs ==
  ASSUME NEW k \in Nat, NEW M, NEW s \in [1..k -> M], NEW q \in [1..(k + 1) -> M],
         \A i \in 1..k : q[i + 1] = s[i]
  PROVE  q = <<q[1]>> \o s /\ q # << >> /\ Head(q) = q[1] /\ Tail(q) = s
<1> DEFINE x == q[1]
           t == <<x>> \o s
<1>1. k + 1 \in Nat /\ 1 \in 1..(k + 1)  OBVIOUS
<1>2. s \in Seq(M) /\ Len(s) = k  BY LenProperties
<1>3. ASSUME NEW i \in 1..(k + 1), i # 1 PROVE i - 1 \in 1..k /\ i - 1 + 1 = i
  BY <1>3
<1>4. q \in Seq(M) /\ Len(q) = k + 1  BY <1>1, LenProperties
<1>a. x \in M  BY <1>1
<1> HIDE DEF x
<1>5. <<x>> \in Seq(M) /\ Len(<<x>>) = 1 /\ <<x>>[1] = x  BY <1>a
<1>6. /\ t \in Seq(M) /\ Len(t) = k + 1
      /\ \A i \in 1..(k + 1) : t[i] = IF i <= 1 THEN x ELSE s[i - 1]
  BY <1>2, <1>5, ConcatProperties
<1>7. \A i \in 1..(k + 1) : q[i] = t[i]
  <2> HIDE DEF t
  <2> SUFFICES ASSUME NEW i \in 1..(k + 1) PROVE q[i] = t[i]
    OBVIOUS
  <2>1. CASE i = 1  BY <1>6, <2>1 DEF x
  <2>2. CASE i # 1
    <3>1. q[i - 1 + 1] = s[i - 1]  BY <1>3, <2>2
    <3>2. t[i] = s[i - 1]
      <4>1. ~ (i <= 1)  BY <2>2
      <4> QED BY <1>6, <4>1
    <3> QED BY <1>3, <2>2, <3>1, <3>2
  <2> QED BY <2>1, <2>2
<1>8. q = t
  <2> HIDE DEF t
  <2> QED BY <1>4, <1>6, <1>7, SeqEqual
<1>9. q # << >>
  <2>1. Len(<< >>) = 0  OBVIOUS
  <2> QED BY <1>4, <2>1
<1> DEFINE r == Tail(q)
<1>10. Head(q) = x /\ r \in Seq(M) /\ Len(r) = k /\ \A i \in 1..k : r[i] = q[i + 1]
  <2>1. Len(q) - 1 = k  BY <1>4
  <2>2. Len(r) = Len(q) - 1 /\ \A i \in 1..(Len(q) - 1) : r[i] = q[i + 1]
    BY <1>4, <1>9, HeadTailProperties
  <2>3. r \in Seq(M) /\ Head(q) = q[1]  BY <1>4, <1>9, HeadTailProperties
  <2>4. q[1] = x  BY DEF x
  <2> HIDE DEF r
  <2> QED BY <2>1, <2>2, <2>3, <2>4
<1> HIDE DEF r
<1>11. r = s  BY <1>2, <1>10, SeqEqual
<1> QED BY <1>8, <1>9, <1>10, <1>11 DEF r, x

-----------------------------------------------------------------------------
(***************************************************************************)
(* Memos.                                                                  *)
(***************************************************************************)
Rest(m, g, e) ==
  IF e = m.memo_bottom \/ Below(m, e) < m.memo_bottom THEN << >>
  ELSE <<MemoAt(m, e)>> \o g[Below(m, e)]

\* The recursion that reads the queue is well founded: a memo starts below its end.
LEMMA MemosFromDef ==
  ASSUME NEW m \in Manager, MemoryInv(m)
  PROVE  MemosFrom(m) = [e \in m.memo_bottom..m.memo_top |-> Rest(m, MemosFrom(m), e)]
<1> USE Bounds, Fields
<1> DEFINE lo == m.memo_bottom
           hi == m.memo_top
           Reads(k) == \E g : g = [e \in lo..(lo + k) |-> Rest(m, g, e)]
           bad == {k \in 0..(hi - lo) : ~ Reads(k)}
<1>1. lo \in Int /\ hi \in Int /\ lo <= hi  BY DEF MemoryInv, Ordered
<1>2. ASSUME NEW e \in Int, lo < e, e <= hi PROVE Below(m, e) \in Int /\ Below(m, e) < e
  <2>1. e - 1 \in Addr  BY <1>2 DEF MemoryInv, Ordered, Addr
  <2>2. m.mapping[e - 1] \in Nat  BY <2>1
  <2> QED BY <2>2 DEF Below
<1>3. Reads(0)
  <2> DEFINE g == [e \in lo..(lo + 0) |-> << >>]
  <2>1. \A e \in lo..(lo + 0) : e = lo  BY <1>1
  <2>2. \A e \in lo..(lo + 0) : Rest(m, g, e) = << >>  BY <2>1 DEF Rest
  <2>3. g = [e \in lo..(lo + 0) |-> Rest(m, g, e)]  BY <2>2
  <2> HIDE DEF g
  <2> QED BY <2>3
<1>4. ASSUME NEW k \in Nat, k < hi - lo, Reads(k) PROVE Reads(k + 1)
  <2> HIDE DEF lo, hi
  <2>1. PICK g : g = [e \in lo..(lo + k) |-> Rest(m, g, e)]  BY <1>4
  <2> DEFINE h == [e \in lo..(lo + (k + 1)) |->
                     IF e <= lo + k THEN g[e] ELSE Rest(m, g, e)]
  <2>2. ASSUME NEW e \in lo..(lo + (k + 1)) PROVE Rest(m, h, e) = Rest(m, g, e)
    <3>1. CASE e = lo \/ Below(m, e) < lo  BY <3>1 DEF Rest, lo
    <3>2. CASE ~ (e = lo \/ Below(m, e) < lo)
      <4>1. e \in Int /\ lo < e /\ e <= hi  BY <1>1, <1>4, <3>2
      <4>2. Below(m, e) \in Int /\ Below(m, e) < e  BY <1>2, <4>1
      <4>3. Below(m, e) \in lo..(lo + (k + 1)) /\ Below(m, e) <= lo + k
        BY <1>1, <3>2, <4>1, <4>2
      <4>4. h[Below(m, e)] = g[Below(m, e)]  BY <4>3
      <4> HIDE DEF h
      <4> QED BY <4>4 DEF Rest
    <3> QED BY <3>1, <3>2
  <2>3. ASSUME NEW e \in lo..(lo + (k + 1)), e <= lo + k PROVE g[e] = Rest(m, g, e)
    <3>1. e \in lo..(lo + k)  BY <1>1, <2>3
    <3> QED BY <2>1, <3>1
  <2>4. \A e \in lo..(lo + (k + 1)) : h[e] = Rest(m, g, e)  BY <2>3
  <2>5. h = [e \in lo..(lo + (k + 1)) |-> h[e]]  OBVIOUS
  <2> HIDE DEF h
  <2>6. h = [e \in lo..(lo + (k + 1)) |-> Rest(m, h, e)]  BY <2>2, <2>4, <2>5
  <2> QED BY <2>6
<1> HIDE DEF Reads
<1>5. bad = {}
  <2> SUFFICES ASSUME bad # {} PROVE FALSE
    OBVIOUS
  <2> HIDE DEF lo, hi
  <2>1. bad \in SUBSET Nat  BY <1>1
  <2>2. PICK k \in bad : \A j \in bad : k <= j  BY <2>1, LeastElement
  <2>3. k \in Nat /\ k <= hi - lo /\ ~ Reads(k)  BY <1>1
  <2>4. k # 0  BY <1>3, <2>3
  <2>5. k - 1 \in 0..(hi - lo) /\ k - 1 \notin bad  BY <1>1, <2>1, <2>2, <2>3, <2>4
  <2>6. Reads(k - 1)  BY <2>5
  <2>7. k - 1 \in Nat /\ k - 1 < hi - lo  BY <1>1, <2>3, <2>4
  <2>8. Reads(k - 1 + 1)  BY <1>4, <2>6, <2>7
  <2>9. k - 1 + 1 = k  BY <2>3
  <2> QED BY <2>3, <2>8, <2>9
<1>6. Reads(hi - lo)
  <2>1. hi - lo \in 0..(hi - lo)  BY <1>1
  <2> QED BY <1>5, <2>1
<1>7. lo + (hi - lo) = hi  BY <1>1
<1>8. \E g : g = [e \in lo..hi |-> Rest(m, g, e)]  BY <1>6, <1>7 DEF Reads
<1>9. MemosFrom(m) = CHOOSE g : g = [e \in lo..hi |-> Rest(m, g, e)]
  BY DEF MemosFrom, Rest
<1> QED BY <1>8, <1>9

\* What MemoQueue computes: the memos at the links, in order.
LEMMA QueueIs ==
  ASSUME NEW m \in Manager, MemoryInv(m), NEW n \in Nat,
         NEW f \in [1..(n + 1) -> Int], Links(m, n, f)
  PROVE  MemoQueue(m) = [i \in 1..n |-> MemoAt(m, f[i])]
<1> USE Bounds, Fields
<1> DEFINE from == MemosFrom(m)
           Tails(k) == [j \in 1..k |-> MemoAt(m, f[n - k + j])]
           Right(k) == from[f[n + 1 - k]] = Tails(k)
           bad == {k \in 0..n : ~ Right(k)}
<1>1. /\ m.memo_bottom \in Int /\ m.memo_top \in Int /\ m.memo_bottom <= m.memo_top
  BY DEF MemoryInv, Ordered
<1>2. \A e \in m.memo_bottom..m.memo_top : from[e] = Rest(m, from, e)
  <2>1. from = [e \in m.memo_bottom..m.memo_top |-> Rest(m, from, e)]  BY MemosFromDef
  <2> HIDE DEF from
  <2> QED BY <2>1
<1> HIDE DEF from
<1>4. Right(0)
  <2>1. f[n + 1 - 0] = m.memo_bottom  BY DEF Links
  <2>2. from[m.memo_bottom] = << >>
    <3>1. m.memo_bottom \in m.memo_bottom..m.memo_top  BY <1>1
    <3> QED BY <1>2, <3>1 DEF Rest
  <2>3. Tails(0) = << >>  OBVIOUS
  <2> HIDE DEF Tails
  <2> QED BY <2>1, <2>2, <2>3
<1>5. ASSUME NEW k \in 0..(n - 1), Right(k) PROVE Right(k + 1)
  <2> DEFINE i == n - k
             e == f[i]
  <2>1. i \in 1..n /\ i + 1 \in 1..(n + 1) /\ n + 1 - (k + 1) = i /\ n + 1 - k = i + 1
    OBVIOUS
  <2>2. /\ e \in Int /\ m.memo_bottom < e /\ e <= m.memo_top /\ f[i + 1] = Below(m, e)
    BY <2>1 DEF Links
  <2>3. f[i + 1] \in Int /\ m.memo_bottom <= f[i + 1]
    <3>1. CASE i = n  BY <1>1, <3>1 DEF Links
    <3>2. CASE i # n
      <4>1. i + 1 \in 1..n  BY <2>1, <3>2
      <4> QED BY <1>1, <4>1 DEF Links
    <3> QED BY <3>1, <3>2
  <2>4. from[e] = <<MemoAt(m, e)>> \o from[f[i + 1]]
    <3>1. e \in m.memo_bottom..m.memo_top  BY <1>1, <2>2
    <3>2. ~ (e = m.memo_bottom \/ Below(m, e) < m.memo_bottom)  BY <1>1, <2>2, <2>3
    <3> QED BY <1>2, <2>2, <3>1, <3>2 DEF Rest
  <2>5. from[f[i + 1]] = Tails(k)  BY <1>5, <2>1
  <2>6. \A j \in 1..k : Tails(k + 1)[j + 1] = Tails(k)[j]
    <3> SUFFICES ASSUME NEW j \in 1..k PROVE Tails(k + 1)[j + 1] = Tails(k)[j]
      OBVIOUS
    <3>1. n - (k + 1) + (j + 1) = n - k + j /\ j + 1 \in 1..(k + 1)  OBVIOUS
    <3> QED BY <3>1
  <2>7. Tails(k + 1)[1] = MemoAt(m, e)
    <3>1. n - (k + 1) + 1 = i /\ 1 \in 1..(k + 1)  OBVIOUS
    <3> QED BY <3>1
  <2> DEFINE M == {MemoAt(m, f[j]) : j \in 1..n}
  <2>8. k \in Nat /\ Tails(k) \in [1..k -> M]
    <3>1. \A j \in 1..k : n - k + j \in 1..n  OBVIOUS
    <3> QED BY <3>1
  <2>9. Tails(k + 1) \in [1..(k + 1) -> M]
    <3>1. \A j \in 1..(k + 1) : n - (k + 1) + j \in 1..n  OBVIOUS
    <3> QED BY <3>1
  <2> HIDE DEF Tails, e, i, M
  <2>10. Tails(k + 1) = <<MemoAt(m, e)>> \o Tails(k)  BY <2>6, <2>7, <2>8, <2>9, ConsIs
  <2> QED BY <2>1, <2>4, <2>5, <2>10 DEF e
<1>6. bad = {}
  <2> HIDE DEF Right
  <2> SUFFICES ASSUME bad # {} PROVE FALSE
    OBVIOUS
  <2>1. bad \in SUBSET Nat  OBVIOUS
  <2>2. PICK k \in bad : \A j \in bad : k <= j  BY <2>1, LeastElement
  <2>3. k \in 0..n /\ k # 0 /\ ~ Right(k)  BY <1>4
  <2>4. k - 1 \in 0..(n - 1) /\ k - 1 \notin bad  BY <2>1, <2>2, <2>3
  <2>5. Right(k - 1 + 1)  BY <1>5, <2>4
  <2>6. k - 1 + 1 = k  BY <2>3
  <2> QED BY <2>3, <2>5, <2>6
<1>7. Right(n)
  <2>1. n \in 0..n  OBVIOUS
  <2> QED BY <1>6, <2>1
<1>8. f[n + 1 - n] = m.memo_top  BY DEF Links
<1>9. \A j \in 1..n : n - n + j = j  OBVIOUS
<1> QED BY <1>7, <1>8, <1>9 DEF MemoQueue, from

\* A memo lies between its link and the next one, inside the array.
LEMMA LinkBounds ==
  ASSUME NEW m \in Manager, MemoryInv(m), NEW n \in Nat,
         NEW f \in [1..(n + 1) -> Int], Links(m, n, f), NEW i \in 1..n
  PROVE  /\ f[i] \in Int /\ f[i] - 1 \in Addr /\ f[i] <= m.memo_top
         /\ m.mapping[f[i] - 1] \in Nat
         /\ m.memo_bottom <= Below(m, f[i])
         /\ Below(m, f[i]) = f[i] - 1 - m.mapping[f[i] - 1]
<1> USE Bounds, Fields
<1>1. /\ f[i] \in Int /\ m.memo_bottom < f[i] /\ f[i] <= m.memo_top
      /\ f[i + 1] = Below(m, f[i])
  BY DEF Links
<1>2. f[i] - 1 \in Addr
  <2>1. /\ m.memo_bottom \in Int /\ m.memo_top \in Int
        /\ layout_bottom < m.memo_bottom /\ m.memo_top <= LAYOUT_MAX
    BY DEF MemoryInv, Ordered
  <2>2. layout_bottom <= f[i] - 1 /\ f[i] - 1 <= LAYOUT_MAX - 1  BY <1>1, <2>1
  <2> QED BY <1>1, <2>2 DEF Addr
<1>3. m.memo_bottom <= f[i + 1]
  <2>1. CASE i = n  BY <2>1 DEF Links
  <2>2. CASE i # n
    <3>1. i + 1 \in 1..n  BY <2>2
    <3>2. m.memo_bottom < f[i + 1] /\ f[i + 1] \in Int  BY <3>1 DEF Links
    <3> QED BY <3>2
  <2> QED BY <2>1, <2>2
<1> QED BY <1>1, <1>2, <1>3 DEF Below

\* Memos that move in memory are still the same queue.
LEMMA MovedQueue ==
  ASSUME NEW m \in Manager, NEW p \in Manager, MemoryInv(m), MemoryInv(p),
         NEW delta \in Int, MovedMemos(m, p, delta), Linked(m)
  PROVE  Linked(p) /\ MemoQueue(p) = MemoQueue(m)
<1> USE Bounds, Fields
<1>1. PICK n \in Nat : \E f \in [1..(n + 1) -> Int] : Links(m, n, f)  BY DEF Linked
<1>2. PICK f \in [1..(n + 1) -> Int] : Links(m, n, f)  BY <1>1
<1> DEFINE g == [i \in 1..(n + 1) |-> f[i] + delta]
<1>3. g \in [1..(n + 1) -> Int]  OBVIOUS
<1>4. ASSUME NEW a \in Int, m.memo_bottom <= a, a < m.memo_top
      PROVE  p.mapping[a + delta] = m.mapping[a]
  <2>1. a \in Addr  BY <1>4 DEF MemoryInv, Ordered, Addr
  <2> QED BY <1>4, <2>1 DEF MovedMemos
<1>5. ASSUME NEW i \in 1..n
      PROVE  /\ g[i] = f[i] + delta /\ g[i + 1] = f[i + 1] + delta
             /\ p.mapping[g[i] - 1] = m.mapping[f[i] - 1]
             /\ Below(p, g[i]) = Below(m, f[i]) + delta
             /\ MemoAt(p, g[i]) = MemoAt(m, f[i])
  <2> DEFINE e == f[i]
  <2>1. g[i] = f[i] + delta /\ g[i + 1] = f[i + 1] + delta  OBVIOUS
  <2>2. /\ e \in Int /\ e <= m.memo_top /\ m.mapping[e - 1] \in Nat
        /\ m.memo_bottom <= Below(m, e) /\ Below(m, e) = e - 1 - m.mapping[e - 1]
    BY <1>2, LinkBounds
  <2>3. p.mapping[e + delta - 1] = m.mapping[e - 1]
    <3>1. m.memo_bottom <= e - 1 /\ e - 1 < m.memo_top /\ e - 1 \in Int  BY <2>2
    <3>2. p.mapping[e - 1 + delta] = m.mapping[e - 1]  BY <1>4, <3>1
    <3>3. e - 1 + delta = e + delta - 1
      <4> SUFFICES ASSUME NEW x \in Int PROVE x - 1 + delta = x + delta - 1
        BY <2>2
      <4> QED OBVIOUS
    <3> QED BY <3>2, <3>3
  <2>4. Below(p, e + delta) = Below(m, e) + delta
    BY <2>2, <2>3 DEF Below
  <2> HIDE DEF e
  <2>5. ASSUME NEW j \in 1..m.mapping[e - 1]
        PROVE  p.mapping[Below(p, e + delta) + j - 1] = m.mapping[Below(m, e) + j - 1]
    <3> DEFINE a == Below(m, e) + j - 1
    <3>1. a \in Int /\ m.memo_bottom <= a /\ a < m.memo_top  BY <2>2
    <3>2. Below(p, e + delta) + j - 1 = a + delta  BY <2>2, <2>4
    <3> HIDE DEF a
    <3>3. p.mapping[a + delta] = m.mapping[a]  BY <1>4, <3>1
    <3> QED BY <3>2, <3>3 DEF a
  <2>6. MemoAt(p, e + delta) = MemoAt(m, e)
    <3>1. MemoAt(m, e) = [j \in 1..m.mapping[e - 1] |-> m.mapping[Below(m, e) + j - 1]]
      BY DEF MemoAt
    <3>2. MemoAt(p, e + delta) =
            [j \in 1..m.mapping[e - 1] |-> p.mapping[Below(p, e + delta) + j - 1]]
      <4> DEFINE x == e + delta
      <4>1. p.mapping[x - 1] = m.mapping[e - 1]  BY <2>2, <2>3
      <4> HIDE DEF x
      <4>2. MemoAt(p, x) = [j \in 1..m.mapping[e - 1] |-> p.mapping[Below(p, x) + j - 1]]
        BY <4>1, Zenon DEF MemoAt
      <4> QED BY <4>2 DEF x
    <3> QED BY <2>5, <3>1, <3>2
  <2> QED BY <2>1, <2>3, <2>4, <2>6 DEF e
<1>6. g[1] = m.memo_top + delta /\ g[n + 1] = m.memo_bottom + delta  BY <1>2 DEF Links
<1> HIDE DEF g
<1>7. Links(p, n, g)
  <2>1. g[1] = p.memo_top /\ g[n + 1] = p.memo_bottom  BY <1>6 DEF MovedMemos
  <2>2. ASSUME NEW i \in 1..n
        PROVE  /\ p.memo_bottom < g[i] /\ g[i] <= p.memo_top
               /\ p.mapping[g[i] - 1] \in {2, 5} /\ g[i + 1] = Below(p, g[i])
    <3>1. /\ m.memo_bottom < f[i] /\ f[i] <= m.memo_top
          /\ m.mapping[f[i] - 1] \in {2, 5} /\ f[i + 1] = Below(m, f[i])
      BY <1>2 DEF Links
    <3>2. f[i] \in Int /\ m.memo_bottom \in Int /\ m.memo_top \in Int  OBVIOUS
    <3>3. /\ g[i] = f[i] + delta
          /\ p.memo_bottom = m.memo_bottom + delta /\ p.memo_top = m.memo_top + delta
      BY <1>5 DEF MovedMemos
    <3>4. f[i] + delta <= m.memo_top + delta /\ m.memo_bottom + delta < f[i] + delta
      BY <3>1, <3>2
    <3>5. p.memo_bottom < g[i] /\ g[i] <= p.memo_top
      BY <3>3, <3>4, Zenon
    <3> QED BY <1>5, <3>1, <3>5
  <2> QED BY <1>3, <2>1, <2>2 DEF Links
<1>8. MemoQueue(p) = [i \in 1..n |-> MemoAt(p, g[i])]  BY <1>3, <1>7, QueueIs
<1>9. MemoQueue(m) = [i \in 1..n |-> MemoAt(m, f[i])]  BY <1>2, QueueIs
<1>10. MemoQueue(p) = MemoQueue(m)  BY <1>5, <1>8, <1>9
<1> QED BY <1>3, <1>7, <1>10 DEF Linked

\* defrag_stack moves macro states and memos as they are.
LEMMA DefragMoves ==
  ASSUME NEW m \in Manager, MemoryInv(m), NEW diff, diff = LAYOUT_MAX - m.memo_top,
         NEW d, d = DefragStack(m)
  PROVE  /\ d \in Manager /\ MemoryInv(d) /\ diff \in Int
         /\ d.layout_top = m.layout_top /\ d.macro_stack = m.macro_stack + diff
         /\ \A a \in Addr : m.macro_stack <= a /\ a < m.memo_top
                              => d.mapping[a + diff] = m.mapping[a]
         /\ MovedMemos(m, d, diff)
<1> USE Bounds, Fields
<1>1. d \in Manager /\ MemoryInv(d)  BY DefragInv
<1>2. diff \in Nat  BY DEF MemoryInv, Ordered
<1>3. /\ d.layout_top = m.layout_top /\ d.macro_stack = m.macro_stack + diff
      /\ d.memo_bottom = m.memo_bottom + diff /\ d.memo_top = m.memo_top + diff
      /\ d.mapping = [a \in Addr |-> IF a >= m.macro_stack + diff
                                     THEN m.mapping[a - diff] ELSE m.mapping[a]]
  BY DEF DefragStack, Manager
<1>4. ASSUME NEW a \in Addr, m.macro_stack <= a, a < m.memo_top
      PROVE  d.mapping[a + diff] = m.mapping[a]
  <2> DEFINE b == a + diff
  <2>1. a \in Int /\ layout_bottom <= a  BY DEF Addr
  <2>2. b \in Int /\ b >= m.macro_stack + diff /\ b - diff = a  BY <1>2, <1>4, <2>1
  <2>3. b \in Addr
    <3>1. m.memo_top \in Int /\ LAYOUT_MAX \in Int /\ layout_bottom \in Int  OBVIOUS
    <3>2. a + diff < LAYOUT_MAX /\ layout_bottom <= a + diff  BY <1>2, <1>4, <2>1, <3>1
    <3> QED BY <2>2, <3>1, <3>2 DEF Addr
  <2> HIDE DEF b
  <2>4. d.mapping[b] = m.mapping[b - diff]  BY <1>3, <2>2, <2>3
  <2> QED BY <2>2, <2>4 DEF b
<1>5. MovedMemos(m, d, diff)
  <2>1. \A a \in Addr : m.memo_bottom <= a => m.macro_stack <= a
    BY DEF MemoryInv, Ordered, Addr
  <2> QED BY <1>3, <1>4, <2>1 DEF MovedMemos
<1> QED BY <1>1, <1>2, <1>3, <1>4, <1>5

\* A memo that is put off is the last of the queue.
LEMMA PushMemoQueue ==
  ASSUME NEW m \in Manager, MemoryInv(m), Linked(m),
         NEW memo \in Seq(Nat), Len(memo) \in {2, 5}, PushMemo(m, memo).ok,
         NEW p, p = PushMemo(m, memo).m
  PROVE  /\ Linked(p) /\ MemoQueue(p) = Append(MemoQueue(m), memo)
         /\ p.macro_stack = p.memo_bottom
         /\ Len(MemoQueue(p)) \in Nat \ {0} /\ MemoQueue(p)[Len(MemoQueue(p))] = memo
<1> USE Bounds, Fields
<1> DEFINE d    == DefragStack(m)
           len  == Len(memo)
           base == d.memo_bottom - len - 1
           map  == [a \in Addr |->
                      IF a >= base /\ a < base + len THEN memo[a - base + 1]
                      ELSE IF a = d.memo_bottom - 1 THEN len ELSE d.mapping[a]]
<1>1. p \in Manager /\ MemoryInv(p)  BY PushMemoInv
<1>2. d \in Manager /\ MemoryInv(d) /\ Linked(d) /\ MemoQueue(d) = MemoQueue(m)
  BY DefragMoves, MovedQueue
<1>3. ~ (d.macro_stack # d.memo_bottom \/ base <= d.layout_top)
  BY DEF PushMemo, NoMemoRoom
<1>4. /\ p.mapping = map /\ p.macro_stack = base /\ p.memo_bottom = base
      /\ p.memo_top = d.memo_top
  <2>1. p = [d EXCEPT !.mapping = map, !.macro_stack = base, !.memo_bottom = base]
    BY <1>3 DEF PushMemo, NoMemoRoom
  <2> HIDE DEF map, d, base
  <2> QED BY <1>2, <2>1 DEF Manager
<1>5. len \in Nat /\ len \in {2, 5} /\ \A i \in 1..len : memo[i] \in Nat  OBVIOUS
<1> HIDE DEF d, len
<1>6. /\ d.memo_bottom \in Int /\ d.memo_top \in Int /\ d.layout_top \in Int
      /\ layout_bottom <= d.layout_top /\ d.memo_bottom <= d.memo_top
      /\ d.memo_top <= LAYOUT_MAX
  BY <1>2 DEF MemoryInv, Ordered
<1>7. /\ base \in Int /\ base + len = d.memo_bottom - 1 /\ base < d.memo_bottom
      /\ layout_bottom < base
  <2>1. base \in Int /\ base + len = d.memo_bottom - 1 /\ base < d.memo_bottom
    <3>1. ASSUME NEW b \in Int, NEW l \in Nat
          PROVE  b - l - 1 \in Int /\ b - l - 1 + l = b - 1 /\ b - l - 1 < b
      OBVIOUS
    <3> QED BY <1>5, <1>6, <3>1
  <2>2. ~ (base <= d.layout_top)  BY <1>3
  <2> HIDE DEF base
  <2>3. layout_bottom < base  BY <1>6, <2>1, <2>2
  <2> QED BY <2>1, <2>3
<1> HIDE DEF base
<1>8. /\ d.memo_bottom - 1 \in Addr
      /\ \A i \in 1..len : /\ base + i - 1 \in Addr /\ base + i - 1 >= base
                           /\ base + i - 1 < base + len /\ base + i - 1 - base + 1 = i
  <2>1. LAYOUT_MAX \in Int /\ layout_bottom \in Int  OBVIOUS
  <2>2. d.memo_bottom - 1 < LAYOUT_MAX /\ layout_bottom <= d.memo_bottom - 1
    BY <1>6, <1>7, <2>1
  <2>3. ASSUME NEW i \in 1..len, NEW b \in Int, b = base
        PROVE  /\ layout_bottom <= b + i - 1 /\ b + i - 1 < LAYOUT_MAX
               /\ b + i - 1 >= b /\ b + i - 1 < b + len /\ b + i - 1 - b + 1 = i
    <3>1. i \in Int /\ 1 <= i /\ i <= len  BY <1>5
    <3>2. layout_bottom < b /\ b + len = d.memo_bottom - 1  BY <1>7, <2>3
    <3>3. b + len < LAYOUT_MAX  BY <2>2, <3>2
    <3> QED BY <1>5, <2>1, <3>1, <3>2, <3>3
  <2> QED BY <1>5, <1>6, <1>7, <2>1, <2>2, <2>3 DEF Addr
<1>9. p.mapping[d.memo_bottom - 1] = len
  <2>1. ~ (d.memo_bottom - 1 < base + len)  BY <1>6, <1>7
  <2> QED BY <1>4, <1>8, <2>1
<1>10. \A i \in 1..len : p.mapping[base + i - 1] = memo[i]
  <2> SUFFICES ASSUME NEW i \in 1..len PROVE p.mapping[base + i - 1] = memo[i]
    OBVIOUS
  <2>1. PICK a \in Addr : a = base + i - 1  BY <1>8
  <2>2. a >= base /\ a < base + len /\ a - base + 1 = i  BY <1>5, <1>7, <2>1
  <2>3. p.mapping[a] = memo[a - base + 1]  BY <1>4, <2>2
  <2> QED BY <2>1, <2>2, <2>3
<1>11. \A a \in Addr : d.memo_bottom <= a => p.mapping[a] = d.mapping[a]
  BY <1>4, <1>5, <1>6, <1>7 DEF Addr
<1> HIDE DEF map
<1>12. PICK n \in Nat : \E f \in [1..(n + 1) -> Int] : Links(d, n, f)  BY <1>2 DEF Linked
<1>13. PICK f \in [1..(n + 1) -> Int] : Links(d, n, f)  BY <1>12
<1> DEFINE g == [i \in 1..(n + 1 + 1) |-> IF i = n + 2 THEN base ELSE f[i]]
<1>14. g \in [1..(n + 1 + 1) -> Int]  BY <1>7
<1>15. ASSUME NEW i \in 1..n
       PROVE  /\ g[i] = f[i] /\ g[i + 1] = f[i + 1]
              /\ p.mapping[g[i] - 1] = d.mapping[f[i] - 1]
              /\ Below(p, g[i]) = Below(d, f[i])
              /\ MemoAt(p, g[i]) = MemoAt(d, f[i])
  <2>1. g[i] = f[i] /\ g[i + 1] = f[i + 1]  OBVIOUS
  <2>2. /\ f[i] \in Int /\ f[i] - 1 \in Addr /\ f[i] <= d.memo_top
        /\ d.mapping[f[i] - 1] \in Nat
        /\ d.memo_bottom <= Below(d, f[i]) /\ Below(d, f[i]) = f[i] - 1 - d.mapping[f[i] - 1]
    BY <1>2, <1>13, LinkBounds
  <2>3. p.mapping[f[i] - 1] = d.mapping[f[i] - 1]
    <3>1. d.memo_bottom <= f[i] - 1  BY <1>6, <2>2
    <3> QED BY <1>11, <2>2, <3>1
  <2>4. Below(p, f[i]) = Below(d, f[i])  BY <2>3, Zenon DEF Below
  <2>5. ASSUME NEW j \in 1..d.mapping[f[i] - 1]
        PROVE  p.mapping[Below(d, f[i]) + j - 1] = d.mapping[Below(d, f[i]) + j - 1]
    <3> DEFINE a == Below(d, f[i]) + j - 1
    <3>1. a \in Int /\ d.memo_bottom <= a /\ a < d.memo_top
      <4> DEFINE x == Below(d, f[i])
                 w == d.mapping[f[i] - 1]
                 e == f[i]
      <4>1. /\ e \in Int /\ e <= d.memo_top /\ w \in Nat /\ d.memo_bottom <= x
            /\ x = e - 1 - w /\ j \in Int /\ 1 <= j /\ j <= w
        BY <2>2
      <4> HIDE DEF x, w, e
      <4>2. x + j - 1 \in Int /\ d.memo_bottom <= x + j - 1 /\ x + j - 1 < d.memo_top
        <5>1. ASSUME NEW b \in Int, NEW u \in Int, x = e - 1 - w, e <= u, b <= x
              PROVE  x + j - 1 \in Int /\ b <= x + j - 1 /\ x + j - 1 < u
          BY <4>1, <5>1
        <5> QED BY <1>6, <4>1, <5>1
      <4> QED BY <4>2 DEF x
    <3> HIDE DEF a
    <3>2. a \in Addr  BY <1>6, <1>7, <3>1 DEF Addr
    <3>3. p.mapping[a] = d.mapping[a]  BY <1>11, <3>1, <3>2
    <3> QED BY <3>3 DEF a
  <2>6. MemoAt(p, f[i]) = MemoAt(d, f[i])
    <3>1. MemoAt(d, f[i]) =
            [j \in 1..d.mapping[f[i] - 1] |-> d.mapping[Below(d, f[i]) + j - 1]]
      BY DEF MemoAt
    <3>2. MemoAt(p, f[i]) =
            [j \in 1..d.mapping[f[i] - 1] |-> p.mapping[Below(d, f[i]) + j - 1]]
      BY <2>3, <2>4, Zenon DEF MemoAt
    <3> QED BY <2>5, <3>1, <3>2
  <2> HIDE DEF g
  <2> QED BY <2>1, <2>3, <2>4, <2>6
<1>16. g[n + 1] = d.memo_bottom /\ g[n + 1 + 1] = base /\ g[1] = d.memo_top
  BY <1>7, <1>13 DEF Links
<1> HIDE DEF g
<1>17. Below(p, d.memo_bottom) = base  BY <1>5, <1>6, <1>7, <1>9 DEF Below
<1>18. Links(p, n + 1, g)
  <2>1. ASSUME NEW i \in 1..(n + 1)
        PROVE  /\ p.memo_bottom < g[i] /\ g[i] <= p.memo_top
               /\ p.mapping[g[i] - 1] \in {2, 5} /\ g[i + 1] = Below(p, g[i])
    <3>1. CASE i = n + 1
      BY <1>4, <1>5, <1>6, <1>7, <1>9, <1>16, <1>17, <3>1
    <3>2. CASE i # n + 1
      <4>1. i \in 1..n  BY <3>2
      <4>2. /\ d.memo_bottom < f[i] /\ f[i] <= d.memo_top
            /\ d.mapping[f[i] - 1] \in {2, 5} /\ f[i + 1] = Below(d, f[i])
        BY <1>13, <4>1 DEF Links
      <4>3. f[i] \in Int  BY <4>1
      <4>4. p.memo_bottom < f[i] /\ f[i] <= p.memo_top  BY <1>4, <1>6, <1>7, <4>2, <4>3
      <4> QED BY <1>15, <4>1, <4>2, <4>4
    <3> QED BY <3>1, <3>2
  <2> QED BY <1>4, <1>14, <1>16, <2>1 DEF Links
<1>19. n + 1 \in Nat  OBVIOUS
<1>20. MemoQueue(p) = [i \in 1..(n + 1) |-> MemoAt(p, g[i])]
  BY <1>1, <1>14, <1>18, <1>19, QueueIs
<1>21. MemoQueue(m) = [i \in 1..n |-> MemoAt(d, f[i])]  BY <1>2, <1>13, QueueIs
<1>22. MemoAt(p, d.memo_bottom) = memo
  <2>1. MemoAt(p, d.memo_bottom) = [i \in 1..len |-> p.mapping[base + i - 1]]
    BY <1>9, <1>17, Zenon DEF MemoAt
  <2>2. memo = [i \in 1..len |-> memo[i]]  BY LenProperties DEF len
  <2> QED BY <1>10, <2>1, <2>2
<1>23. MemoQueue(p) = Append(MemoQueue(m), memo)
  <2> DEFINE M == {MemoAt(d, f[i]) : i \in 1..n} \cup {memo}
             s == MemoQueue(m)
             t == Append(s, memo)
             q == MemoQueue(p)
  <2>1. s \in [1..n -> M]  BY <1>21
  <2>2. \A i \in 1..n : q[i] = s[i]  BY <1>15, <1>20, <1>21
  <2>3. q[n + 1] = memo  BY <1>16, <1>20, <1>22
  <2>4. memo \in M  OBVIOUS
  <2>5. q = [i \in 1..(n + 1) |-> q[i]]  BY <1>20
  <2> HIDE DEF M, s, q
  <2>6. s \in Seq(M) /\ Len(s) = n  BY <2>1, LenProperties
  <2>7. /\ t \in Seq(M) /\ Len(t) = n + 1 /\ t[n + 1] = memo
        /\ \A i \in 1..n : t[i] = s[i]
    BY <2>4, <2>6, AppendProperties
  <2> HIDE DEF t
  <2>8. t = [i \in 1..(n + 1) |-> t[i]]  BY <2>7, LenProperties
  <2>9. \A i \in 1..(n + 1) : q[i] = t[i]
    <3> SUFFICES ASSUME NEW i \in 1..(n + 1) PROVE q[i] = t[i]
      OBVIOUS
    <3>1. CASE i = n + 1  BY <2>3, <2>7, <3>1
    <3>2. CASE i # n + 1
      <4>1. i \in 1..n  BY <3>2
      <4> QED BY <2>2, <2>7, <4>1
    <3> QED BY <3>1, <3>2
  <2>10. q = t  BY <2>5, <2>8, <2>9
  <2> QED BY <2>10 DEF q, t, s
<1>24. Len(MemoQueue(p)) = n + 1  BY <1>19, <1>20
<1>25. MemoQueue(p)[n + 1] = memo
  <2>1. n + 1 \in 1..(n + 1)  OBVIOUS
  <2> QED BY <1>16, <1>20, <1>22, <2>1
<1>26. Linked(p)  BY <1>14, <1>18, <1>19 DEF Linked
<1> QED BY <1>4, <1>19, <1>23, <1>24, <1>25, <1>26

\* run_memo takes the first memo of the queue.
LEMMA PopMemoQueue ==
  ASSUME NEW m \in Manager, MemoryInv(m), Linked(m), m.memo_bottom # m.memo_top,
         NEW p, p = PopMemo(m).m
  PROVE  /\ Linked(p) /\ MemoQueue(m) # << >> /\ MemoQueue(p) = Tail(MemoQueue(m))
         /\ p.macro_stack = m.macro_stack /\ p.memo_bottom = m.memo_bottom
<1> USE Bounds, Fields
<1> DEFINE start == Below(m, m.memo_top)
<1>1. p \in Manager /\ MemoryInv(p)  BY PopMemoInv
<1>2. p = [m EXCEPT !.memo_top = start]  BY DEF PopMemo, Below
<1> HIDE DEF start
<1>3. /\ p.mapping = m.mapping /\ p.macro_stack = m.macro_stack
      /\ p.memo_bottom = m.memo_bottom /\ p.memo_top = start
  BY <1>2 DEF Manager
<1>4. PICK n \in Nat : \E f \in [1..(n + 1) -> Int] : Links(m, n, f)  BY DEF Linked
<1>5. PICK f \in [1..(n + 1) -> Int] : Links(m, n, f)  BY <1>4
<1>6. n # 0  BY <1>5 DEF Links
<1>7. PICK k \in Nat : n = k + 1
  <2>1. n - 1 \in Nat /\ n = n - 1 + 1  BY <1>6
  <2> QED BY <2>1
<1> DEFINE g == [i \in 1..(k + 1) |-> f[i + 1]]
<1>8. g \in [1..(k + 1) -> Int]  BY <1>7
<1>9. \A i \in 1..(k + 1) : g[i] = f[i + 1]  OBVIOUS
<1> HIDE DEF g
<1>10. ASSUME NEW e, NEW x, x = m PROVE Below(p, e) = Below(x, e) /\ MemoAt(p, e) = MemoAt(x, e)
  BY <1>3, <1>10, Zenon DEF Below, MemoAt
<1>11. g[1] = start /\ start < m.memo_top /\ start \in Int
  <2>1. 1 \in 1..n /\ 1 \in 1..(k + 1)  BY <1>7
  <2>2. f[1] = m.memo_top /\ f[1 + 1] = Below(m, f[1])  BY <1>5, <2>1 DEF Links
  <2>3. /\ f[1] \in Int /\ Below(m, f[1]) = f[1] - 1 - m.mapping[f[1] - 1]
        /\ m.mapping[f[1] - 1] \in Nat
    BY <1>5, <2>1, LinkBounds
  <2>4. g[1] = start  BY <1>9, <2>1, <2>2 DEF start
  <2>5. start = f[1] - 1 - m.mapping[f[1] - 1]  BY <2>2, <2>3 DEF start
  <2>6. start < f[1] /\ start \in Int  BY <2>3, <2>5
  <2> QED BY <2>2, <2>4, <2>6
<1>12. \A i \in 1..(k + 1) : g[i] <= start
  <2> DEFINE bad == {i \in 1..(k + 1) : ~ (g[i] <= start)}
  <2> SUFFICES ASSUME bad # {} PROVE FALSE
    OBVIOUS
  <2>1. bad \in SUBSET Nat  OBVIOUS
  <2>2. PICK i \in bad : \A j \in bad : i <= j  BY <2>1, LeastElement
  <2>3. i \in 1..(k + 1) /\ ~ (g[i] <= start)  OBVIOUS
  <2>4. i # 1  BY <1>11, <2>3
  <2>5. i - 1 \in 1..(k + 1) /\ i \in 1..n  BY <1>7, <2>3, <2>4
  <2>6. i - 1 \notin bad  BY <2>2, <2>3
  <2>7. g[i - 1] <= start  BY <2>5, <2>6
  <2>8. g[i - 1] = f[i] /\ g[i] = f[i + 1]
    <3>1. i - 1 + 1 = i  BY <2>3
    <3> QED BY <1>9, <2>3, <2>5, <3>1
  <2>9. f[i + 1] < f[i]
    <3>1. f[i + 1] = Below(m, f[i])  BY <1>5, <2>5 DEF Links
    <3>2. /\ f[i] \in Int /\ Below(m, f[i]) = f[i] - 1 - m.mapping[f[i] - 1]
          /\ m.mapping[f[i] - 1] \in Nat
      BY <1>5, <2>5, LinkBounds
    <3> QED BY <3>1, <3>2
  <2>10. g[i] \in Int /\ g[i - 1] \in Int  BY <1>8, <2>3, <2>5
  <2> HIDE DEF bad
  <2> QED BY <1>11, <2>3, <2>7, <2>8, <2>9, <2>10
<1>13. Links(p, k, g)
  <2>1. g[k + 1] = m.memo_bottom
    <3>1. g[k + 1] = f[n + 1]  BY <1>7, <1>9
    <3> QED BY <1>5, <3>1 DEF Links
  <2>2. ASSUME NEW i \in 1..k
        PROVE  /\ p.memo_bottom < g[i] /\ g[i] <= p.memo_top
               /\ p.mapping[g[i] - 1] \in {2, 5} /\ g[i + 1] = Below(p, g[i])
    <3>1. i + 1 \in 1..n /\ i \in 1..(k + 1) /\ i + 1 \in 1..(k + 1)  BY <1>7
    <3>2. g[i] = f[i + 1] /\ g[i + 1] = f[i + 1 + 1]  BY <1>9, <3>1
    <3>3. /\ m.memo_bottom < f[i + 1] /\ m.mapping[f[i + 1] - 1] \in {2, 5}
          /\ f[i + 1 + 1] = Below(m, f[i + 1])
      BY <1>5, <3>1 DEF Links
    <3>4. g[i] <= start  BY <1>12, <3>1
    <3> QED BY <1>3, <1>10, <3>2, <3>3, <3>4
  <2> QED BY <1>3, <1>8, <1>11, <2>1, <2>2 DEF Links
<1>14. MemoQueue(p) = [i \in 1..k |-> MemoAt(p, g[i])]  BY <1>1, <1>8, <1>13, QueueIs
<1>15. MemoQueue(m) = [i \in 1..n |-> MemoAt(m, f[i])]  BY <1>5, QueueIs
<1>16. MemoQueue(m) # << >> /\ MemoQueue(p) = Tail(MemoQueue(m))
  <2> DEFINE s == MemoQueue(p)
             q == MemoQueue(m)
  <2>1. \A i \in 1..k : q[i + 1] = s[i]
    <3> SUFFICES ASSUME NEW i \in 1..k PROVE q[i + 1] = s[i]
      OBVIOUS
    <3>1. i + 1 \in 1..n /\ i \in 1..(k + 1)  BY <1>7
    <3>2. g[i] = f[i + 1]  BY <1>9, <3>1
    <3> QED BY <1>10, <1>14, <1>15, <3>1, <3>2
  <2> DEFINE M == {MemoAt(m, f[i]) : i \in 1..n}
  <2>2. q \in [1..(k + 1) -> M]  BY <1>7, <1>15
  <2>3. s \in [1..k -> M]
    <3>1. \A i \in 1..k : i + 1 \in 1..(k + 1)  OBVIOUS
    <3>2. \A i \in 1..k : s[i] \in M  BY <2>1, <2>2, <3>1
    <3>3. s = [i \in 1..k |-> s[i]]  BY <1>14
    <3> HIDE DEF s, M
    <3> QED BY <3>2, <3>3
  <2> HIDE DEF s, q, M
  <2>4. q # << >> /\ Tail(q) = s  BY <2>1, <2>2, <2>3, ConsIs
  <2> QED BY <2>4 DEF s, q
<1> QED BY <1>3, <1>8, <1>13, <1>16 DEF Linked

-----------------------------------------------------------------------------
(***************************************************************************)
(* Macros.                                                                 *)
(***************************************************************************)
\* The frames of k macro states.
LEMMA FramesAre ==
  ASSUME NEW m \in Manager, NEW k \in Nat, m.memo_bottom = m.macro_stack + 3 * k,
         NEW running, running # Noop
  PROVE  MacroFrames(m, running) = [i \in 1..k |-> IF i < k THEN Slot(m, i + 1) ELSE Noop]
<1> USE Fields
<1>1. m.memo_bottom - m.macro_stack = 3 * k
  <2>1. ASSUME NEW x \in Int, NEW y \in Int, y = x + 3 * k PROVE y - x = 3 * k
    BY <2>1
  <2> QED BY <2>1
<1>2. (3 * k) \div 3 = k  OBVIOUS
<1>3. \A i \in 1..k : 3 * i < 3 * k <=> i < k  OBVIOUS
<1>4. MacroFrames(m, running) =
        [i \in 1..((3 * k) \div 3) |-> IF 3 * i < 3 * k THEN Slot(m, i + 1) ELSE Noop]
  BY <1>1, Zenon DEF MacroFrames
<1> QED BY <1>2, <1>3, <1>4

\* A macro state is its three words.
LEMMA SlotMoves ==
  ASSUME NEW m \in Manager, NEW p \in Manager, MemoryInv(m), NEW delta \in Int,
         p.macro_stack = m.macro_stack + delta, NEW i \in Nat, i # 0,
         m.macro_stack + 3 * i <= m.memo_bottom,
         \A a \in Addr : m.macro_stack + 3 * (i - 1) <= a /\ a < m.memo_bottom
                           => p.mapping[a + delta] = m.mapping[a]
  PROVE  Slot(p, i) = Slot(m, i)
<1> USE Bounds, Fields
<1> DEFINE a == m.macro_stack + 3 * (i - 1)
           b == p.macro_stack + 3 * (i - 1)
<1>1. b = a + delta
  <2>1. ASSUME NEW x \in Int PROVE x + delta + 3 * (i - 1) = x + 3 * (i - 1) + delta
    OBVIOUS
  <2> QED BY <2>1
<1>2. /\ a \in Int /\ m.macro_stack <= a /\ a + 3 <= m.memo_bottom
  <2>1. ASSUME NEW x \in Int, NEW y \in Int, x + 3 * i <= y
        PROVE  x + 3 * (i - 1) \in Int /\ x <= x + 3 * (i - 1) /\ x + 3 * (i - 1) + 3 <= y
    BY <2>1
  <2> QED BY <2>1
<1> HIDE DEF a, b
<1>3. a \in Addr /\ a + 1 \in Addr /\ a + 2 \in Addr
  <2>1. /\ layout_bottom < m.macro_stack /\ m.memo_bottom <= LAYOUT_MAX
        /\ m.macro_stack \in Int /\ m.memo_bottom \in Int
    BY DEF MemoryInv, Ordered
  <2>2. layout_bottom <= a /\ a + 2 < LAYOUT_MAX  BY <1>2, <2>1
  <2> QED BY <1>2, <2>2 DEF Addr
<1>4. \A c \in Addr : a <= c /\ c < m.memo_bottom => p.mapping[c + delta] = m.mapping[c]
  BY DEF a
<1>5. a + 2 < m.memo_bottom /\ a + 1 < m.memo_bottom /\ a < m.memo_bottom
      /\ a <= a /\ a <= a + 1 /\ a <= a + 2
  BY <1>2
<1>6. /\ p.mapping[a + delta] = m.mapping[a] /\ p.mapping[a + 1 + delta] = m.mapping[a + 1]
      /\ p.mapping[a + 2 + delta] = m.mapping[a + 2]
  BY <1>3, <1>4, <1>5
<1>7. a + 1 + delta = b + 1 /\ a + 2 + delta = b + 2  BY <1>1, <1>2
<1>8. Slot(m, i) = [mode |-> m.mapping[a], location |-> m.mapping[a + 1],
                    rem |-> m.mapping[a + 2]]
  BY DEF Slot, a
<1>9. Slot(p, i) = [mode |-> p.mapping[b], location |-> p.mapping[b + 1],
                    rem |-> p.mapping[b + 2]]
  BY DEF Slot, b
<1> QED BY <1>1, <1>6, <1>7, <1>8, <1>9

\* Macro states that move in memory are still the same frames.
LEMMA MovedFrames ==
  ASSUME NEW m \in Manager, NEW p \in Manager, MemoryInv(m), NEW delta \in Int,
         p.macro_stack = m.macro_stack + delta, p.memo_bottom = m.memo_bottom + delta,
         \A a \in Addr : m.macro_stack <= a /\ a < m.memo_bottom
                           => p.mapping[a + delta] = m.mapping[a],
         NEW running, Callers(m, running)
  PROVE  Callers(p, running) /\ MacroFrames(p, running) = MacroFrames(m, running)
<1> USE Bounds, Fields
<1>1. PICK k \in Nat : m.memo_bottom = m.macro_stack + 3 * k  BY DEF MemoryInv, WholeSlots
<1>2. /\ m.memo_bottom - m.macro_stack = 3 * k
      /\ p.memo_bottom - p.macro_stack = 3 * k
      /\ p.memo_bottom = p.macro_stack + 3 * k
      /\ m.macro_stack = m.memo_bottom <=> p.macro_stack = p.memo_bottom
  <2>1. ASSUME NEW x \in Int, NEW y \in Int, y = x + 3 * k
        PROVE  /\ y - x = 3 * k /\ (y + delta) - (x + delta) = 3 * k
               /\ y + delta = x + delta + 3 * k
               /\ x = y <=> x + delta = y + delta
    BY <2>1
  <2> QED BY <1>1, <2>1
<1>3. ASSUME NEW j \in Nat, j # 0, j <= k PROVE Slot(p, j) = Slot(m, j)
  <2>1. /\ m.macro_stack \in Int /\ m.macro_stack + 3 * j <= m.memo_bottom
        /\ \A a \in Int : m.macro_stack + 3 * (j - 1) <= a => m.macro_stack <= a
    <3>1. ASSUME NEW x \in Int, NEW y \in Int, y = x + 3 * k
          PROVE  /\ x + 3 * j <= y
                 /\ \A a \in Int : x + 3 * (j - 1) <= a => x <= a
      BY <1>3, <3>1
    <3> QED BY <1>1, <3>1
  <2>2. \A a \in Addr : m.macro_stack + 3 * (j - 1) <= a /\ a < m.memo_bottom
                          => p.mapping[a + delta] = m.mapping[a]
    BY <2>1 DEF Addr
  <2> QED BY <1>3, <2>1, <2>2, SlotMoves
<1>4. Callers(p, running)
  <2>1. ASSUME NEW i \in Nat, 3 * i < 3 * k, i # 0 PROVE Slot(p, i + 1) # Noop
    <3>1. i + 1 \in Nat /\ i + 1 # 0 /\ i + 1 <= k  BY <2>1
    <3>2. Slot(m, i + 1) # Noop  BY <1>2, <2>1 DEF Callers
    <3>3. Slot(p, i + 1) = Slot(m, i + 1)  BY <1>3, <3>1
    <3> QED BY <3>2, <3>3
  <2>2. running = Noop <=> p.macro_stack = p.memo_bottom  BY <1>2 DEF Callers
  <2> QED BY <1>2, <2>1, <2>2 DEF Callers
<1>5. CASE running = Noop  BY <1>4, <1>5 DEF MacroFrames
<1>6. CASE running # Noop
  <2>f. ASSUME NEW x \in Manager, x.memo_bottom = x.macro_stack + 3 * k
        PROVE  MacroFrames(x, running) = [i \in 1..k |-> IF i < k THEN Slot(x, i + 1) ELSE Noop]
    BY ONLY <1>6, <2>f, FramesAre, k \in Nat
  <2>1. MacroFrames(m, running) = [i \in 1..k |-> IF i < k THEN Slot(m, i + 1) ELSE Noop]
    BY ONLY <1>1, <2>f, m \in Manager
  <2>2. MacroFrames(p, running) = [i \in 1..k |-> IF i < k THEN Slot(p, i + 1) ELSE Noop]
    BY ONLY <1>2, <2>f, p \in Manager
  <2>3. ASSUME NEW i \in 1..k, i < k PROVE Slot(p, i + 1) = Slot(m, i + 1)
    <3>1. i + 1 \in Nat /\ i + 1 # 0 /\ i + 1 <= k  BY <2>3
    <3> QED BY <1>3, <3>1
  <2> QED BY <1>4, <2>1, <2>2, <2>3
<1> QED BY <1>5, <1>6

\* Three words further down, a macro state has the next number.
LEMMA SlotBelow ==
  ASSUME NEW m \in Manager, NEW p \in Manager, MemoryInv(m),
         p.macro_stack = m.macro_stack - 3, NEW j \in Nat, j # 0,
         m.macro_stack + 3 * j <= m.memo_bottom,
         \A a \in Addr : m.macro_stack <= a => p.mapping[a] = m.mapping[a]
  PROVE  Slot(p, j + 1) = Slot(m, j)
<1> USE Bounds, Fields
<1> DEFINE a == m.macro_stack + 3 * (j - 1)
           b == p.macro_stack + 3 * (j + 1 - 1)
<1>1. a = b
  <2>1. ASSUME NEW x \in Int PROVE x + 3 * (j - 1) = x - 3 + 3 * (j + 1 - 1)
    OBVIOUS
  <2> QED BY <2>1
<1>2. /\ a \in Int /\ m.macro_stack <= a /\ a + 3 <= m.memo_bottom
  <2>1. ASSUME NEW x \in Int, NEW y \in Int, x + 3 * j <= y
        PROVE  x + 3 * (j - 1) \in Int /\ x <= x + 3 * (j - 1) /\ x + 3 * (j - 1) + 3 <= y
    BY <2>1
  <2> QED BY <2>1
<1>3. Slot(m, j) = [mode |-> m.mapping[a], location |-> m.mapping[a + 1],
                    rem |-> m.mapping[a + 2]]
  BY DEF Slot
<1>4. Slot(p, j + 1) = [mode |-> p.mapping[b], location |-> p.mapping[b + 1],
                        rem |-> p.mapping[b + 2]]
  BY DEF Slot
<1> HIDE DEF a, b
<1>5. a \in Addr /\ a + 1 \in Addr /\ a + 2 \in Addr
  <2>1. /\ layout_bottom < m.macro_stack /\ m.memo_bottom <= LAYOUT_MAX
        /\ m.macro_stack \in Int /\ m.memo_bottom \in Int
    BY DEF MemoryInv, Ordered
  <2>2. layout_bottom <= a /\ a + 2 < LAYOUT_MAX  BY <1>2, <2>1
  <2> QED BY <1>2, <2>2 DEF Addr
<1>6. m.macro_stack <= a + 1 /\ m.macro_stack <= a + 2  BY <1>2
<1>7. /\ p.mapping[a] = m.mapping[a] /\ p.mapping[a + 1] = m.mapping[a + 1]
      /\ p.mapping[a + 2] = m.mapping[a + 2]
  BY <1>2, <1>5, <1>6
<1> QED BY <1>1, <1>3, <1>4, <1>7

\* What Macro::update writes, and what it leaves alone.
LEMMA UpdateMacroWords ==
  ASSUME NEW m \in Manager, NEW mac \in MacroType,
         mac # Noop => {m.macro_stack, m.macro_stack + 1, m.macro_stack + 2} \subseteq Addr,
         NEW u, u = UpdateMacro(m, mac)
  PROVE  /\ u.macro_stack = m.macro_stack /\ u.memo_bottom = m.memo_bottom
         /\ u.memo_top = m.memo_top /\ u.layout_top = m.layout_top
         /\ mac # Noop => Slot(u, 1) = mac
         /\ \A a \in Addr : mac = Noop \/ m.macro_stack + 3 <= a => u.mapping[a] = m.mapping[a]
<1> USE Bounds, Fields
<1>1. CASE mac = Noop  BY <1>1 DEF UpdateMacro
<1>2. CASE mac # Noop
  <2> DEFINE ms == m.macro_stack
             map == [m.mapping EXCEPT ![ms] = mac.mode, ![ms + 1] = mac.location,
                                      ![ms + 2] = mac.rem]
  <2>1. ms \in Addr /\ ms + 1 \in Addr /\ ms + 2 \in Addr  BY <1>2
  <2>2. ms \in Int /\ ms # ms + 1 /\ ms # ms + 2 /\ ms + 1 # ms + 2  OBVIOUS
  <2>3. u = [m EXCEPT !.mapping = map]  BY <1>2 DEF UpdateMacro, Manager
  <2>4. map[ms] = mac.mode /\ map[ms + 1] = mac.location /\ map[ms + 2] = mac.rem
    <3> HIDE DEF ms
    <3> QED BY <2>1, <2>2
  <2>5. \A a \in Addr : ms + 3 <= a => map[a] = m.mapping[a]
    <3> SUFFICES ASSUME NEW a \in Addr, ms + 3 <= a PROVE map[a] = m.mapping[a]
      OBVIOUS
    <3>1. a # ms /\ a # ms + 1 /\ a # ms + 2  BY <2>2 DEF Addr
    <3> QED BY <3>1
  <2> HIDE DEF map
  <2>6. /\ u.mapping = map /\ u.macro_stack = m.macro_stack /\ u.memo_bottom = m.memo_bottom
        /\ u.memo_top = m.memo_top /\ u.layout_top = m.layout_top
    BY <2>3 DEF Manager
  <2>7. Slot(u, 1) = mac
    <3>1. u.macro_stack + 3 * (1 - 1) = ms  BY <2>6
    <3>2. Slot(u, 1) = [mode |-> u.mapping[ms], location |-> u.mapping[ms + 1],
                        rem |-> u.mapping[ms + 2]]
      BY <3>1, Zenon DEF Slot
    <3>3. mac = [mode |-> mac.mode, location |-> mac.location, rem |-> mac.rem]
      BY DEF MacroType
    <3> HIDE DEF ms
    <3> QED BY <2>4, <2>6, <3>2, <3>3
  <2> QED BY <1>2, <2>5, <2>6, <2>7
<1> QED BY <1>1, <1>2

\* A call puts the macro that ran in front of the frames, wherever the slots move to.
LEMMA CallFrames ==
  ASSUME NEW m \in Manager, MemoryInv(m), Linked(m),
         NEW running \in MacroType, Callers(m, running), NEW mac \in MacroType, mac # Noop,
         NEW u, u = UpdateMacro(m, running),
         DefragStack(u).macro_stack - DefragStack(u).layout_top > 3,
         NEW p, p = PushMacro(u, mac)
  PROVE  /\ Linked(p) /\ MemoQueue(p) = MemoQueue(m) /\ Callers(p, mac)
         /\ MacroFrames(p, mac) = <<running>> \o MacroFrames(m, running)
<1> USE Bounds, Fields
<1> DEFINE d == DefragStack(u)
           diff == LAYOUT_MAX - u.memo_top
           r == [d EXCEPT !.macro_stack = d.macro_stack - 3]
<1>1. PICK k \in Nat : m.memo_bottom = m.macro_stack + 3 * k  BY DEF MemoryInv, WholeSlots
<1>2. running # Noop <=> k # 0
  <2>1. ASSUME NEW x \in Int PROVE x = x + 3 * k <=> k = 0
    OBVIOUS
  <2> QED BY <1>1, <2>1 DEF Callers
<1>3. running # Noop => /\ m.memo_bottom > m.macro_stack
                        /\ m.macro_stack + 3 <= m.memo_bottom
  <2>1. ASSUME NEW x \in Int, k # 0 PROVE x + 3 * k > x /\ x + 3 <= x + 3 * k
    BY <2>1
  <2> QED BY <1>1, <1>2, <2>1
<1>4. /\ layout_bottom < m.macro_stack /\ m.memo_bottom <= m.memo_top
      /\ m.memo_bottom <= LAYOUT_MAX /\ m.macro_stack <= m.memo_bottom
  BY DEF MemoryInv, Ordered
<1>5. u \in Manager /\ MemoryInv(u)  BY <1>3, UpdateMacroInv
<1>6. /\ u.macro_stack = m.macro_stack /\ u.memo_bottom = m.memo_bottom
      /\ u.memo_top = m.memo_top /\ u.layout_top = m.layout_top
      /\ running # Noop => Slot(u, 1) = running
      /\ \A a \in Addr : running = Noop \/ m.macro_stack + 3 <= a
                           => u.mapping[a] = m.mapping[a]
  <2>1. running # Noop => {m.macro_stack, m.macro_stack + 1, m.macro_stack + 2} \subseteq Addr
    BY <1>3, <1>4 DEF Addr
  <2> QED BY <2>1, UpdateMacroWords
<1>7. Linked(u) /\ MemoQueue(u) = MemoQueue(m)
  <2>1. \A a \in Addr : m.memo_bottom <= a => u.mapping[a + 0] = m.mapping[a]
    BY <1>3, <1>6 DEF Addr
  <2>2. MovedMemos(m, u, 0)  BY <1>6, <2>1 DEF MovedMemos
  <2> QED BY <1>5, <2>2, MovedQueue
<1>8. /\ d \in Manager /\ MemoryInv(d) /\ diff \in Int
      /\ d.macro_stack = u.macro_stack + diff
      /\ \A a \in Addr : u.macro_stack <= a /\ a < u.memo_top
                           => d.mapping[a + diff] = u.mapping[a]
      /\ MovedMemos(u, d, diff)
  BY <1>5, DefragMoves
<1>9. d.memo_bottom = u.memo_bottom + diff  BY <1>8 DEF MovedMemos
<1>10. Linked(d) /\ MemoQueue(d) = MemoQueue(m)  BY <1>5, <1>7, <1>8, MovedQueue
<1>11. p \in Manager /\ MemoryInv(p)  BY <1>5, PushMacroInv
<1>12. p = UpdateMacro(r, mac) /\ d.macro_stack - d.layout_top > 3  BY DEF PushMacro
<1> HIDE DEF d, diff
<1>13. /\ r \in Manager /\ r.mapping = d.mapping /\ r.macro_stack = d.macro_stack - 3
       /\ r.memo_bottom = d.memo_bottom /\ r.memo_top = d.memo_top
  <2> DEFINE x == d.macro_stack - 3
  <2>1. x \in Int  BY <1>8
  <2> HIDE DEF x
  <2> QED BY <1>8, <2>1 DEF Manager, x
<1> HIDE DEF r
<1>14. /\ p.macro_stack = d.macro_stack - 3 /\ p.memo_bottom = d.memo_bottom
       /\ p.memo_top = d.memo_top /\ Slot(p, 1) = mac
       /\ \A a \in Addr : d.macro_stack <= a => p.mapping[a] = d.mapping[a]
  <2>1. /\ d.macro_stack \in Int /\ d.layout_top \in Int /\ layout_bottom <= d.layout_top
        /\ d.macro_stack <= LAYOUT_MAX
    BY <1>8 DEF MemoryInv, Ordered
  <2>2. {r.macro_stack, r.macro_stack + 1, r.macro_stack + 2} \subseteq Addr
    <3>1. layout_bottom < d.macro_stack - 3  BY <1>12, <2>1
    <3>2. r.macro_stack \in Int /\ layout_bottom < r.macro_stack /\ r.macro_stack + 2 < LAYOUT_MAX
      BY <1>13, <2>1, <3>1
    <3>3. LAYOUT_MAX \in Int /\ layout_bottom \in Int  OBVIOUS
    <3> QED BY <3>2, <3>3 DEF Addr
  <2>3. r.macro_stack + 3 = d.macro_stack  BY <1>13, <2>1
  <2> QED BY <1>12, <1>13, <2>2, <2>3, UpdateMacroWords
<1>15. Linked(p) /\ MemoQueue(p) = MemoQueue(m)
  <2>1. d.macro_stack <= d.memo_bottom /\ d.macro_stack \in Int /\ d.memo_bottom \in Int
    BY <1>8 DEF MemoryInv, Ordered
  <2>2. \A a \in Addr : d.memo_bottom <= a => p.mapping[a + 0] = d.mapping[a]
    BY <1>14, <2>1 DEF Addr
  <2>3. d.memo_bottom + 0 = d.memo_bottom /\ d.memo_top + 0 = d.memo_top  BY <1>8
  <2>4. MovedMemos(d, p, 0)  BY <1>14, <2>2, <2>3 DEF MovedMemos
  <2> QED BY <1>8, <1>10, <1>11, <2>4, MovedQueue
<1>16. ASSUME NEW j \in Nat, j # 0, j <= k
       PROVE  Slot(p, j + 1) = IF j = 1 THEN running ELSE Slot(m, j)
  <2>1. u.macro_stack + 3 * j <= u.memo_bottom
    <3>1. ASSUME NEW x \in Int PROVE x + 3 * j <= x + 3 * k
      BY <1>16
    <3> QED BY <1>1, <1>6, <3>1
  <2>2. d.macro_stack + 3 * j <= d.memo_bottom
    <3>1. ASSUME NEW x \in Int, NEW y \in Int, x + 3 * j <= y
          PROVE  x + diff + 3 * j <= y + diff
      BY <1>8, <3>1
    <3> QED BY <1>5, <1>8, <1>9, <2>1, <3>1
  <2>3. Slot(p, j + 1) = Slot(d, j)  BY <1>8, <1>11, <1>14, <1>16, <2>2, SlotBelow
  <2>4. Slot(d, j) = Slot(u, j)
    <3>1. \A a \in Int : u.macro_stack + 3 * (j - 1) <= a => u.macro_stack <= a
      <4>1. ASSUME NEW x \in Int, NEW a \in Int, x + 3 * (j - 1) <= a PROVE x <= a
        BY <1>16, <4>1
      <4> QED BY <1>5, <4>1
    <3>2. u.memo_bottom <= u.memo_top /\ u.memo_bottom \in Int /\ u.memo_top \in Int
      BY <1>5 DEF MemoryInv, Ordered
    <3>3. \A a \in Addr : u.macro_stack + 3 * (j - 1) <= a /\ a < u.memo_bottom
                            => d.mapping[a + diff] = u.mapping[a]
      <4> SUFFICES ASSUME NEW a \in Addr, u.macro_stack + 3 * (j - 1) <= a, a < u.memo_bottom
                   PROVE  d.mapping[a + diff] = u.mapping[a]
        OBVIOUS
      <4>1. a \in Int  BY DEF Addr
      <4>2. a < u.memo_top  BY <3>2, <4>1
      <4> QED BY <1>8, <3>1, <4>1, <4>2
    <3> QED BY <1>5, <1>8, <1>16, <2>1, <3>3, SlotMoves
  <2>5. j # 1 => Slot(u, j) = Slot(m, j)
    <3> SUFFICES ASSUME j # 1 PROVE Slot(u, j) = Slot(m, j)
      OBVIOUS
    <3>1. \A a \in Int : m.macro_stack + 3 * (j - 1) <= a => m.macro_stack + 3 <= a
      <4>1. ASSUME NEW x \in Int, NEW a \in Int, x + 3 * (j - 1) <= a PROVE x + 3 <= a
        BY <1>16, <4>1
      <4> QED BY <4>1
    <3>2. \A a \in Addr : m.macro_stack + 3 * (j - 1) <= a /\ a < m.memo_bottom
                            => u.mapping[a + 0] = m.mapping[a]
      BY <1>6, <3>1 DEF Addr
    <3>3. u.macro_stack = m.macro_stack + 0  BY <1>6
    <3>4. m.macro_stack + 3 * j <= m.memo_bottom  BY <1>6, <2>1
    <3> QED BY <1>5, <1>16, <3>2, <3>3, <3>4, SlotMoves
  <2>6. running # Noop  BY <1>2, <1>16
  <2> QED BY <1>6, <2>3, <2>4, <2>5, <2>6
<1>17. p.memo_bottom = p.macro_stack + 3 * (k + 1) /\ p.macro_stack # p.memo_bottom
       /\ p.memo_bottom - p.macro_stack = 3 * (k + 1)
  <2>1. ASSUME NEW x \in Int, NEW b \in Int, NEW s \in Int,
               b = x + 3 * k + diff, s = x + diff - 3
        PROVE  b = s + 3 * (k + 1) /\ s # b /\ b - s = 3 * (k + 1)
    BY <1>8, <2>1
  <2>2. /\ p.memo_bottom = m.macro_stack + 3 * k + diff
        /\ p.macro_stack = m.macro_stack + diff - 3
    BY <1>1, <1>6, <1>8, <1>9, <1>14
  <2>3. m.macro_stack \in Int /\ p.memo_bottom \in Int /\ p.macro_stack \in Int  BY <1>11
  <2> QED BY <2>1, <2>2, <2>3
<1>18. Callers(p, mac)
  <2>1. ASSUME NEW i \in Nat, 3 * i < 3 * (k + 1), i # 0 PROVE Slot(p, i + 1) # Noop
    <3>1. i <= k  BY <2>1
    <3>2. Slot(p, i + 1) = IF i = 1 THEN running ELSE Slot(m, i)  BY <1>16, <2>1, <3>1
    <3>3. CASE i = 1  BY <1>2, <2>1, <3>1, <3>2, <3>3
    <3>4. CASE i # 1
      <4>1. PICK h \in Nat : i = h + 1 /\ h # 0 /\ 3 * h < 3 * k
        <5>1. i - 1 \in Nat /\ i = i - 1 + 1 /\ i - 1 # 0 /\ 3 * (i - 1) < 3 * k
          BY <2>1, <3>1, <3>4
        <5> QED BY <5>1
      <4>2. m.memo_bottom - m.macro_stack = 3 * k
        <5>1. ASSUME NEW x \in Int, NEW y \in Int, y = x + 3 * k PROVE y - x = 3 * k
          BY <5>1
        <5> QED BY <1>1, <5>1
      <4>3. Slot(m, h + 1) # Noop  BY <4>1, <4>2 DEF Callers
      <4> QED BY <3>2, <3>4, <4>1, <4>3
    <3> QED BY <3>3, <3>4
  <2> QED BY <1>17, <2>1 DEF Callers
<1>19. MacroFrames(p, mac) = <<running>> \o MacroFrames(m, running)
  <2> DEFINE q == MacroFrames(p, mac)
             s == MacroFrames(m, running)
             M == {q[i] : i \in 1..(k + 1)}
  <2>1. q = [i \in 1..(k + 1) |-> IF i < k + 1 THEN Slot(p, i + 1) ELSE Noop]
    <3> DEFINE n == k + 1
    <3>1. n \in Nat /\ p.memo_bottom = p.macro_stack + 3 * n  BY <1>17
    <3> HIDE DEF n, q
    <3>2. MacroFrames(p, mac) = [i \in 1..n |-> IF i < n THEN Slot(p, i + 1) ELSE Noop]
      BY <1>11, <3>1, FramesAre
    <3> QED BY <3>2 DEF n, q
  <2>2. s = [i \in 1..k |-> IF i < k THEN Slot(m, i + 1) ELSE Noop]
    <3>1. CASE running # Noop  BY <1>1, <3>1, FramesAre
    <3>2. CASE running = Noop
      <4>1. k = 0 /\ s = << >>  BY <1>2, <3>2 DEF MacroFrames
      <4>2. \A i \in 1..k : FALSE  BY <4>1
      <4>3. << >> = [i \in 1..0 |-> IF i < 0 THEN Slot(m, i + 1) ELSE Noop]  OBVIOUS
      <4> QED BY <4>1, <4>3
    <3> QED BY <3>1, <3>2
  <2>3. q[1] = running
    <3>1. 1 \in 1..(k + 1) /\ 1 \in Nat /\ 1 # 0  OBVIOUS
    <3>2. CASE k = 0  BY <1>2, <2>1, <3>1, <3>2
    <3>3. CASE k # 0
      <4>1. 1 < k + 1 /\ 1 <= k  BY <3>3
      <4>2. Slot(p, 1 + 1) = running  BY <1>16, <3>1, <4>1
      <4> QED BY <2>1, <3>1, <4>1, <4>2
    <3> QED BY <3>2, <3>3
  <2>4. \A i \in 1..k : q[i + 1] = s[i]
    <3> SUFFICES ASSUME NEW i \in 1..k PROVE q[i + 1] = s[i]
      OBVIOUS
    <3>1. i + 1 \in 1..(k + 1) /\ i + 1 \in Nat /\ i + 1 # 0 /\ i + 1 # 1
          /\ (i + 1 < k + 1 <=> i < k)
      OBVIOUS
    <3>2. CASE i < k
      <4>1. i + 1 <= k  BY <3>2
      <4>2. Slot(p, i + 1 + 1) = Slot(m, i + 1)  BY <1>16, <3>1, <4>1
      <4> QED BY <2>1, <2>2, <3>1, <3>2, <4>2
    <3>3. CASE ~ (i < k)  BY <2>1, <2>2, <3>1, <3>3
    <3> QED BY <3>2, <3>3
  <2>5. q \in [1..(k + 1) -> M]  BY <2>1
  <2>6. s \in [1..k -> M]
    <3>1. \A i \in 1..k : i + 1 \in 1..(k + 1)  OBVIOUS
    <3>2. \A i \in 1..k : q[i + 1] \in M  BY <3>1
    <3>3. s = [i \in 1..k |-> s[i]]  BY <2>2
    <3> HIDE DEF M, s, q
    <3> QED BY <2>4, <3>2, <3>3
  <2> HIDE DEF q, s, M
  <2>7. q = <<q[1]>> \o s  BY <2>4, <2>5, <2>6, ConsIs
  <2> QED BY <2>3, <2>7 DEF q, s
<1> QED BY <1>15, <1>18, <1>19

\* A macro that ends gives way to the first of the frames.
LEMMA ReturnFrames ==
  ASSUME NEW m \in Manager, MemoryInv(m), Linked(m), NEW running, Callers(m, running),
         running # Noop, NEW p, p = PopMacro(m).m, NEW mac, mac = PopMacro(m).mac
  PROVE  /\ Linked(p) /\ MemoQueue(p) = MemoQueue(m) /\ Callers(p, mac)
         /\ MacroFrames(m, running) # << >>
         /\ mac = Head(MacroFrames(m, running))
         /\ MacroFrames(p, mac) = Tail(MacroFrames(m, running))
<1> USE Bounds, Fields
<1> DEFINE next == m.macro_stack + 3
           q == MacroFrames(m, running)
           s == MacroFrames(p, mac)
           M == {q[i] : i \in DOMAIN q}
<1>1. PICK n \in Nat : m.memo_bottom = m.macro_stack + 3 * n  BY DEF MemoryInv, WholeSlots
<1>2. n # 0
  <2>1. m.macro_stack # m.memo_bottom  BY DEF Callers
  <2> QED BY <1>1, <2>1
<1>3. PICK k \in Nat : n = k + 1
  <2>1. n - 1 \in Nat /\ n = n - 1 + 1  BY <1>2
  <2> QED BY <2>1
<1>4. /\ m.memo_bottom - m.macro_stack = 3 * (k + 1)
      /\ m.memo_bottom = next + 3 * k /\ (next = m.memo_bottom <=> k = 0)
      /\ m.memo_bottom > m.macro_stack /\ m.macro_stack = next - 3
      /\ m.memo_bottom - next = 3 * k /\ next \in Int
  <2>1. ASSUME NEW x \in Int, NEW b \in Int, b = x + 3 * (k + 1)
        PROVE  /\ b - x = 3 * (k + 1) /\ b = x + 3 + 3 * k /\ (x + 3 = b <=> k = 0)
               /\ b > x /\ x = x + 3 - 3 /\ b - (x + 3) = 3 * k /\ x + 3 \in Int
    BY <2>1
  <2> QED BY <1>1, <1>3, <2>1
<1>5. p \in Manager /\ MemoryInv(p)  BY <1>4, PopMacroInv
<1>6. /\ p.mapping = m.mapping /\ p.macro_stack = next
      /\ p.memo_bottom = m.memo_bottom /\ p.memo_top = m.memo_top
  <2>1. p = [m EXCEPT !.macro_stack = next]  BY DEF PopMacro
  <2> HIDE DEF next
  <2> QED BY <1>4, <2>1 DEF Manager
<1>7. mac = IF k = 0 THEN Noop ELSE Slot(p, 1)
  <2>1. CASE k = 0  BY <1>4, <2>1 DEF PopMacro
  <2>2. CASE k # 0
    <3>1. mac = [mode |-> m.mapping[next], location |-> m.mapping[next + 1],
                 rem |-> m.mapping[next + 2]]
      BY <1>4, <2>2 DEF PopMacro
    <3>2. next + 3 * (1 - 1) = next  OBVIOUS
    <3> HIDE DEF next
    <3>3. Slot(p, 1) = [mode |-> p.mapping[next], location |-> p.mapping[next + 1],
                        rem |-> p.mapping[next + 2]]
      BY <1>6, <3>2, Zenon DEF Slot
    <3> QED BY <1>6, <2>2, <3>1, <3>3
  <2> QED BY <2>1, <2>2
<1> HIDE DEF next
<1>8. Linked(p) /\ MemoQueue(p) = MemoQueue(m)
  <2>1. \A a \in Addr : m.memo_bottom <= a => p.mapping[a + 0] = m.mapping[a]
    BY <1>6 DEF Addr
  <2>2. m.memo_bottom + 0 = m.memo_bottom /\ m.memo_top + 0 = m.memo_top  OBVIOUS
  <2>3. MovedMemos(m, p, 0)  BY <1>6, <2>1, <2>2 DEF MovedMemos
  <2> QED BY <1>5, <2>3, MovedQueue
<1>9. ASSUME NEW j \in Nat, j # 0, j <= k PROVE Slot(p, j) = Slot(m, j + 1)
  <2>1. p.macro_stack + 3 * j <= p.memo_bottom
    <3>1. ASSUME NEW x \in Int PROVE x + 3 * j <= x + 3 * k
      BY <1>9
    <3> QED BY <1>4, <1>6, <3>1
  <2>2. m.macro_stack = p.macro_stack - 3  BY <1>4, <1>6
  <2>3. \A a \in Addr : p.macro_stack <= a => m.mapping[a] = p.mapping[a]  BY <1>6
  <2> QED BY <1>5, <1>9, <2>1, <2>2, <2>3, SlotBelow
<1>10. ASSUME NEW j \in Nat, j # 0, j <= k PROVE Slot(m, j + 1) # Noop
  <2>1. 3 * j < 3 * (k + 1)  BY <1>10
  <2> QED BY <1>4, <1>10, <2>1 DEF Callers
<1>11. mac = Noop <=> k = 0
  <2>1. CASE k = 0  BY <1>7, <2>1
  <2>2. CASE k # 0
    <3>1. 1 \in Nat /\ 1 # 0 /\ 1 <= k  BY <2>2
    <3> QED BY <1>7, <1>9, <1>10, <2>2, <3>1
  <2> QED BY <2>1, <2>2
<1>12. Callers(p, mac)
  <2>1. ASSUME NEW i \in Nat, 3 * i < 3 * k, i # 0 PROVE Slot(p, i + 1) # Noop
    <3>1. i + 1 \in Nat /\ i + 1 # 0 /\ i + 1 <= k  BY <2>1
    <3>2. Slot(p, i + 1) = Slot(m, i + 1 + 1)  BY <1>9, <3>1
    <3>3. Slot(m, i + 1 + 1) # Noop  BY <1>10, <3>1
    <3> QED BY <3>2, <3>3
  <2>2. p.memo_bottom - p.macro_stack = 3 * k /\ (p.macro_stack = p.memo_bottom <=> k = 0)
    BY <1>4, <1>6
  <2> QED BY <1>11, <2>1, <2>2 DEF Callers
<1>13. q = [i \in 1..(k + 1) |-> IF i < k + 1 THEN Slot(m, i + 1) ELSE Noop]
  <2> HIDE DEF q
  <2>1. MacroFrames(m, running) = [i \in 1..n |-> IF i < n THEN Slot(m, i + 1) ELSE Noop]
    BY <1>1, FramesAre
  <2> QED BY <1>3, <2>1 DEF q
<1>14. s = [i \in 1..k |-> IF i < k THEN Slot(p, i + 1) ELSE Noop]
  <2>1. CASE mac # Noop
    <3>1. p.memo_bottom = p.macro_stack + 3 * k  BY <1>4, <1>6
    <3> QED BY <1>5, <2>1, <3>1, FramesAre
  <2>2. CASE mac = Noop
    <3>1. k = 0 /\ s = << >>  BY <1>11, <2>2 DEF MacroFrames
    <3>2. << >> = [i \in 1..0 |-> IF i < 0 THEN Slot(p, i + 1) ELSE Noop]  OBVIOUS
    <3> QED BY <3>1, <3>2
  <2> QED BY <2>1, <2>2
<1>15. q[1] = mac
  <2>1. 1 \in 1..(k + 1) /\ 1 \in Nat /\ 1 # 0  OBVIOUS
  <2>2. CASE k = 0  BY <1>7, <1>13, <2>1, <2>2
  <2>3. CASE k # 0
    <3>1. 1 < k + 1 /\ 1 <= k  BY <2>3
    <3>2. mac = Slot(m, 1 + 1)  BY <1>7, <1>9, <2>1, <2>3, <3>1
    <3> QED BY <1>13, <2>1, <3>1, <3>2
  <2> QED BY <2>2, <2>3
<1>16. \A i \in 1..k : q[i + 1] = s[i]
  <2> SUFFICES ASSUME NEW i \in 1..k PROVE q[i + 1] = s[i]
    OBVIOUS
  <2>1. i + 1 \in 1..(k + 1) /\ i + 1 \in Nat /\ i + 1 # 0 /\ (i + 1 < k + 1 <=> i < k)
    OBVIOUS
  <2>2. CASE i < k
    <3>1. i + 1 <= k  BY <2>2
    <3>2. Slot(p, i + 1) = Slot(m, i + 1 + 1)  BY <1>9, <2>1, <3>1
    <3> QED BY <1>13, <1>14, <2>1, <2>2, <3>2
  <2>3. CASE ~ (i < k)  BY <1>13, <1>14, <2>1, <2>3
  <2> QED BY <2>2, <2>3
<1>17. q \in [1..(k + 1) -> M]
  <2>1. DOMAIN q = 1..(k + 1)  BY <1>13
  <2>2. q = [i \in 1..(k + 1) |-> q[i]]  BY <1>13
  <2>3. \A i \in 1..(k + 1) : q[i] \in M  BY <2>1
  <2> HIDE DEF q, M
  <2> QED BY <2>2, <2>3
<1>18. s \in [1..k -> M]
  <2>1. \A i \in 1..k : i + 1 \in 1..(k + 1)  OBVIOUS
  <2>2. s = [i \in 1..k |-> s[i]]  BY <1>14
  <2> HIDE DEF q, s, M
  <2>3. \A i \in 1..k : s[i] \in M  BY <1>16, <1>17, <2>1
  <2> QED BY <2>2, <2>3
<1> HIDE DEF q, s, M
<1>19. q # << >> /\ Head(q) = q[1] /\ Tail(q) = s  BY <1>16, <1>17, <1>18, ConsIs
<1> QED BY <1>8, <1>12, <1>15, <1>19 DEF q, s

-----------------------------------------------------------------------------
(***************************************************************************)
(* The refinement.                                                         *)
(***************************************************************************)
\* clear_all leaves an empty queue and no macro.
LEMMA ClearAllQueue ==
  ASSUME NEW m \in Manager, NEW c, c = ClearAll(m)
  PROVE  /\ Linked(c) /\ MemoQueue(c) = << >>
         /\ Callers(c, Noop) /\ MacroFrames(c, Noop) = << >>
<1> USE Bounds, Fields
<1>1. c \in Manager /\ MemoryInv(c)  BY ClearAllInv
<1>2. c.macro_stack = LAYOUT_MAX /\ c.memo_bottom = LAYOUT_MAX /\ c.memo_top = LAYOUT_MAX
  BY DEF ClearAll, ClearLayers, SetLayout, Manager
<1> DEFINE f == [i \in 1..(0 + 1) |-> LAYOUT_MAX]
<1>3. f \in [1..(0 + 1) -> Int] /\ f[1] = LAYOUT_MAX /\ f[0 + 1] = LAYOUT_MAX  OBVIOUS
<1> HIDE DEF f
<1>4. Links(c, 0, f)  BY <1>2, <1>3 DEF Links
<1>5. 0 \in Nat  OBVIOUS
<1>6. Linked(c)  BY <1>3, <1>4, <1>5 DEF Linked
<1>7. MemoQueue(c) = [i \in 1..0 |-> MemoAt(c, f[i])]  BY <1>1, <1>3, <1>4, <1>5, QueueIs
<1>8. MemoQueue(c) = << >>  BY <1>7
<1>9. Callers(c, Noop)  BY <1>2 DEF Callers
<1> QED BY <1>6, <1>8, <1>9 DEF MacroFrames

\* What the layers do leaves queue and frames as they are.
LEMMA SameMemoryQueue ==
  ASSUME NEW m \in Manager, NEW p \in Manager, MemoryInv(m), MemoryInv(p), SameMemory(m, p),
         Linked(m), NEW running, Callers(m, running)
  PROVE  /\ Linked(p) /\ MemoQueue(p) = MemoQueue(m)
         /\ Callers(p, running) /\ MacroFrames(p, running) = MacroFrames(m, running)
<1> USE Bounds, Fields
<1>1. /\ p.macro_stack = m.macro_stack + 0 /\ p.memo_bottom = m.memo_bottom + 0
      /\ p.memo_top = m.memo_top + 0
  BY DEF SameMemory
<1>2. \A a \in Addr : m.macro_stack <= a => p.mapping[a + 0] = m.mapping[a]
  BY DEF SameMemory, Addr
<1>3. \A a \in Addr : m.memo_bottom <= a => m.macro_stack <= a
  BY DEF MemoryInv, Ordered, Addr
<1>4. MovedMemos(m, p, 0)  BY <1>1, <1>2, <1>3 DEF MovedMemos
<1>5. Linked(p) /\ MemoQueue(p) = MemoQueue(m)  BY <1>4, MovedQueue
<1>6. Callers(p, running) /\ MacroFrames(p, running) = MacroFrames(m, running)
  BY <1>1, <1>2, MovedFrames
<1> QED BY <1>5, <1>6

\* What a step does to the queue and the frames, next to what it does to the memory.
QueueStep(m, running, m2, running2) ==
  /\ Linked(m2) /\ Callers(m2, running2)
  /\ \/ /\ MemoQueue(m2) = MemoQueue(m) /\ running2 = running
        /\ MacroFrames(m2, running2) = MacroFrames(m, running)
     \/ /\ MacroFrames(m, running) = << >>
        /\ MemoQueue(m2) # << >>
        /\ MemoQueue(m2) = Append(MemoQueue(m), MemoQueue(m2)[Len(MemoQueue(m2))])
        /\ running2 = running /\ MacroFrames(m2, running2) = MacroFrames(m, running)
     \/ /\ running = Noop /\ MemoQueue(m) # << >> /\ MemoQueue(m2) = Tail(MemoQueue(m))
        /\ running2 = running /\ MacroFrames(m2, running2) = MacroFrames(m, running)
     \/ /\ running2 # Noop /\ MemoQueue(m2) = MemoQueue(m)
        /\ MacroFrames(m2, running2) = <<running>> \o MacroFrames(m, running)
     \/ /\ running # Noop /\ running2 # Noop /\ MemoQueue(m2) = MemoQueue(m)
        /\ MacroFrames(m2, running2) = MacroFrames(m, running)
     \/ /\ MacroFrames(m, running) # << >> /\ MemoQueue(m2) = MemoQueue(m)
        /\ running2 = Head(MacroFrames(m, running))
        /\ MacroFrames(m2, running2) = Tail(MacroFrames(m, running))
     \/ /\ MemoQueue(m2) = << >> /\ running2 = Noop
        /\ MacroFrames(m2, running2) = << >>

LEMMA QueueInit == Init => QInv /\ Queue!Init
<1> SUFFICES ASSUME Init PROVE QInv /\ Queue!Init
  OBVIOUS
<1> DEFINE m == [mapping |-> [a \in Addr |-> 0], layout_top |-> 0, macro_stack |-> 0,
                 memo_bottom |-> 0, memo_top |-> 0,
                 active_comp_part_layers |-> {}, active_comp_count |-> 0]
<1>1. m \in Manager  BY DEF Manager
<1>2. mgr = ClearAll(m)  BY DEF Init, Loaded
<1> HIDE DEF m
<1>3. /\ Linked(mgr) /\ MemoQueue(mgr) = << >> /\ Callers(mgr, Noop)
      /\ MacroFrames(mgr, Noop) = << >>
  BY <1>1, <1>2, ClearAllQueue
<1>4. macro_running = Noop  BY DEF Init
<1>5. IInv  BY InitInv
<1> QED BY <1>3, <1>4, <1>5 DEF QInv, Queue!Init

LEMMA QueueStepHolds ==
  ASSUME SafeCalls, QInv, [Next]_vars
  PROVE  IInv' /\ QueueStep(mgr, macro_running, mgr', macro_running')
<1> DEFINE Goal == QueueStep(mgr, macro_running, mgr', macro_running')
<1>0. /\ mgr \in Manager /\ MemoryInv(mgr) /\ macro_running \in MacroType
      /\ panicked = FALSE /\ Linked(mgr) /\ Callers(mgr, macro_running)
      /\ macro_running # Noop => mgr.memo_bottom > mgr.macro_stack
  BY DEF QInv, IInv, TypeOK, MacroType
<1>i. IInv'  BY StepInv DEF QInv
<1>j. mgr' \in Manager /\ MemoryInv(mgr') /\ panicked' = FALSE
  BY <1>i DEF IInv, TypeOK, MemoryInv, Ordered, MemoChain, Chained, WholeSlots
<1> SUFFICES Goal
  BY <1>i
<1>b. Reset => Goal
  <2> SUFFICES ASSUME Reset PROVE Goal
    OBVIOUS
  <2>1. mgr' = ClearAll(mgr) /\ macro_running' = Noop  BY DEF Reset
  <2> QED BY <1>0, <2>1, ClearAllQueue DEF QueueStep
<1>d. ASSUME SameMemory(mgr, mgr'), UNCHANGED <<macro_running, panicked>>
      PROVE  Goal
  <2>1. /\ Linked(mgr') /\ MemoQueue(mgr') = MemoQueue(mgr)
        /\ Callers(mgr', macro_running)
        /\ MacroFrames(mgr', macro_running) = MacroFrames(mgr, macro_running)
    BY <1>0, <1>j, <1>d, SameMemoryQueue
  <2> QED BY <1>d, <2>1 DEF QueueStep
<1> HIDE DEF Goal
<1>1. CASE UNCHANGED vars
  <2>1. SameMemory(mgr, mgr')  BY <1>1 DEF vars, SameMemory
  <2> QED BY <1>1, <1>d, <2>1 DEF vars
<1>2. ASSUME NEW n \in PushLayers, Push(n) \/ Pop(LayerOf(n)) PROVE Goal
  <2>1. n \in Nat /\ LayerOf(n) \in Nat  BY CallsAssumption DEF LayerOf
  <2>2. CASE Push(n)
    <3>1. mgr' = PushLayer(mgr, n).m /\ UNCHANGED <<macro_running, panicked>>
      BY <2>2 DEF Push
    <3> QED BY <1>0, <1>d, <2>1, <3>1, PushLayerInv
  <2>3. CASE Pop(LayerOf(n))
    <3>1. mgr' = PopLayer(mgr, LayerOf(n)).m /\ UNCHANGED <<macro_running, panicked>>
      BY <2>3 DEF Pop
    <3> QED BY <1>0, <1>d, <2>1, <3>1, PopLayerInv
  <2> QED BY <1>2, <2>2, <2>3
<1>3. ASSUME NEW n \in BaseLayers, SetBase(n) PROVE Goal
  <2>1. n \in Nat  BY CallsAssumption
  <2>2. mgr' = SetLayout(mgr, n) /\ UNCHANGED <<macro_running, panicked>>
    BY <1>3 DEF SetBase
  <2> QED BY <1>0, <1>d, <2>1, <2>2, BaseInv
<1>4. CASE ClearEverything  BY <1>4, <1>b DEF ClearEverything
<1>5. CASE ClearToBase
  <2>1. mgr' = ClearLayers(mgr) /\ UNCHANGED <<macro_running, panicked>>
    BY <1>5 DEF ClearToBase
  <2>2. 0 \in Nat  OBVIOUS
  <2> QED BY <1>0, <1>d, <2>1, <2>2, BaseInv
<1>6. CASE ClearModifiers \/ ClearModifiersPanics
  BY <1>6 DEF ClearModifiers, ClearModifiersPanics, May, SafeCalls
<1>7. ASSUME NEW memo \in Memos, PutOff(memo) PROVE Goal
  <2>1. memo \in Seq(Nat) /\ Len(memo) \in {2, 5}  BY CallsAssumption
  <2>2. CASE Reset  BY <1>b, <2>2
  <2>3. CASE /\ PushMemo(mgr, memo).ok
             /\ mgr' = PushMemo(mgr, memo).m
             /\ UNCHANGED <<macro_running, panicked>>
    <3>1. mgr.memo_bottom = mgr.macro_stack  BY <1>0, <2>1, <2>3, PushMemoInv
    <3>2. macro_running = Noop  BY <1>0, <3>1 DEF Callers
    <3>3. MacroFrames(mgr, macro_running) = << >> /\ MacroFrames(mgr', macro_running') = << >>
      BY <2>3, <3>2 DEF MacroFrames
    <3>4. /\ Linked(mgr') /\ MemoQueue(mgr') = Append(MemoQueue(mgr), memo)
          /\ mgr'.macro_stack = mgr'.memo_bottom
          /\ Len(MemoQueue(mgr')) \in Nat \ {0}
          /\ MemoQueue(mgr')[Len(MemoQueue(mgr'))] = memo
      BY <1>0, <2>1, <2>3, PushMemoQueue
    <3>5. MemoQueue(mgr') # << >>
      <4>1. Len(<< >>) = 0  OBVIOUS
      <4> QED BY <3>4, <4>1
    <3>6. Callers(mgr', macro_running')  BY <1>j, <2>3, <3>2, <3>4, Fields DEF Callers
    <3> QED BY <2>3, <3>3, <3>4, <3>5, <3>6 DEF QueueStep, Goal
  <2> QED BY <1>7, <2>2, <2>3 DEF PutOff
<1>8. CASE RunMemo
  <2>1. mgr.memo_bottom # mgr.memo_top /\ macro_running = Noop  BY <1>8 DEF RunMemo
  <2>2. mgr' = PopMemo(mgr).m /\ UNCHANGED <<macro_running, panicked>>
    BY <1>8, <1>0, <1>j DEF RunMemo, Panic
  <2>3. /\ Linked(mgr') /\ MemoQueue(mgr) # << >> /\ MemoQueue(mgr') = Tail(MemoQueue(mgr))
        /\ mgr'.macro_stack = mgr.macro_stack /\ mgr'.memo_bottom = mgr.memo_bottom
    BY <1>0, <2>1, <2>2, PopMemoQueue
  <2>4. MacroFrames(mgr, macro_running) = << >> /\ MacroFrames(mgr', macro_running') = << >>
    BY <2>1, <2>2 DEF MacroFrames
  <2>5. mgr.macro_stack = mgr.memo_bottom  BY <1>0, <2>1 DEF Callers
  <2>6. Callers(mgr', macro_running')  BY <1>j, <2>1, <2>2, <2>3, <2>5, Fields DEF Callers
  <2> QED BY <2>1, <2>2, <2>3, <2>4, <2>6 DEF QueueStep, Goal
<1>9. ASSUME NEW mac \in Macros, CallMacro(mac) PROVE Goal
  <2>1. mac \in MacroType /\ mac # Noop  BY CallsAssumption DEF MacroType, Noop
  <2>2. SlotRoom  BY <1>9 DEF CallMacro, May, SafeCalls
  <2> DEFINE u == UpdateMacro(mgr, macro_running)
  <2>3. mgr' = PushMacro(u, mac) /\ macro_running' = mac
    BY <1>9, <1>j DEF CallMacro, Panic
  <2>4. DefragStack(u).macro_stack - DefragStack(u).layout_top > 3
    <3>1. /\ u \in Manager /\ u.macro_stack = mgr.macro_stack /\ u.layout_top = mgr.layout_top
      BY <1>0, UpdateMacroInv
    <3>2. u.memo_top = mgr.memo_top  BY <1>0 DEF UpdateMacro, Manager
    <3> HIDE DEF u
    <3>3. /\ DefragStack(u).macro_stack = DefragStack(mgr).macro_stack
          /\ DefragStack(u).layout_top = mgr.layout_top
      BY <1>0, <3>1, <3>2 DEF DefragStack, Manager
    <3> QED BY <2>2, <3>3 DEF SlotRoom
  <2> HIDE DEF u
  <2>5. /\ Linked(mgr') /\ MemoQueue(mgr') = MemoQueue(mgr) /\ Callers(mgr', mac)
        /\ MacroFrames(mgr', mac) = <<macro_running>> \o MacroFrames(mgr, macro_running)
    BY <1>0, <2>1, <2>3, <2>4, CallFrames DEF u
  <2> QED BY <2>1, <2>3, <2>5 DEF QueueStep, Goal
<1>10. CASE AdvanceMacro
  <2>1. UNCHANGED <<mgr, panicked>> /\ macro_running # Noop /\ macro_running.rem > 1
    BY <1>10 DEF AdvanceMacro
  <2>2. macro_running' # Noop
    <3>1. macro_running'.rem = macro_running.rem - 1 /\ macro_running.rem \in Nat
      BY <1>0, <1>10 DEF AdvanceMacro, MacroType
    <3>2. macro_running'.rem # 0  BY <2>1, <3>1
    <3> QED BY <3>2 DEF Noop
  <2>3. MacroFrames(mgr', macro_running') = MacroFrames(mgr, macro_running)
    BY <2>1, <2>2 DEF MacroFrames
  <2>4. Callers(mgr', macro_running')  BY <1>0, <2>1, <2>2 DEF Callers
  <2> QED BY <1>0, <2>1, <2>2, <2>3, <2>4 DEF QueueStep, Goal
<1>11. CASE ReturnMacro
  <2>1. mgr' = PopMacro(mgr).m /\ macro_running' = PopMacro(mgr).mac /\ macro_running # Noop
    BY <1>11, <1>j DEF ReturnMacro, Panic
  <2>2. /\ Linked(mgr') /\ MemoQueue(mgr') = MemoQueue(mgr)
        /\ Callers(mgr', macro_running')
        /\ MacroFrames(mgr, macro_running) # << >>
        /\ macro_running' = Head(MacroFrames(mgr, macro_running))
        /\ MacroFrames(mgr', macro_running') = Tail(MacroFrames(mgr, macro_running))
    BY <1>0, <2>1, ReturnFrames
  <2> QED BY <2>2 DEF QueueStep, Goal
<1> QED BY <1>1, <1>2, <1>3, <1>4, <1>5, <1>6, <1>7, <1>8, <1>9, <1>10, <1>11 DEF Next

\* Memos come back first in first out and word for word, and an interrupted macro
\* resumes where it stopped: the memory implements EventQueue.
THEOREM QueueImplemented == ASSUME SafeCalls PROVE Spec => EventsQueued
<1>1. Init => QInv /\ Queue!Init  BY QueueInit
<1>2. ASSUME QInv, [Next]_vars PROVE QInv' /\ [Queue!Next]_(Queue!vars)
  <2>1. IInv' /\ QueueStep(mgr, macro_running, mgr', macro_running')
    BY <1>2, QueueStepHolds
  <2>2. QInv'  BY <2>1 DEF QInv, QueueStep, Linked, Callers
  <2>3. [Queue!Next]_(Queue!vars)
    BY <2>1 DEF QueueStep, Queue!Next, Queue!vars, Queue!Defer, Queue!Take, Queue!Call,
                Queue!Advance, Queue!Return, Queue!Clear
  <2> QED BY <2>2, <2>3
<1> QED BY <1>1, <1>2, PTL DEF Spec, EventsQueued, Queue!Spec
=============================================================================
