---------------------------- MODULE StackProofs ----------------------------
(***************************************************************************)
(* The composite layers follow their parts, for every layout and every     *)
(* order of activations and deactivations: the bitmap that push_layer and  *)
(* pop_layer keep by hand is exact, a composite is on the stack when, and  *)
(* only when, all its parts are, it is on the stack once, it comes above   *)
(* its parts and stays there until one of them is activated again.         *)
(*                                                                         *)
(* The layers that are left when the composites are taken away behave as a *)
(* plain stack of layers (LayerStack), and stop_active keeps those of the  *)
(* user, whatever else it does to the memory.                              *)
(***************************************************************************)
EXTENDS LayoutProofs

\* The addresses of the layer stack.
Live(m) == layout_bottom..(m.layout_top - 1)

\* The composites that come with a pushed layer word.
Brings(m, w) ==
  LET n     == LayerOf(w)
      old   == m.active_comp_part_layers
      count == m.active_comp_count + 1
  IN IF FreshPart(m, n) /\ count > 1 THEN Completed(old, old \cup {n}, count) ELSE {}

\* The addresses they take.
Brought(m, p) == (m.layout_top + 1)..(p.layout_top - 1)

LEMMA BringsFinite ==
  ASSUME NEW m \in Manager, NEW w \in Nat
  PROVE  /\ Brings(m, w) \subseteq Composites
         /\ IsFiniteSet(Brings(m, w)) /\ Cardinality(Brings(m, w)) \in Nat
         /\ IsFiniteSet(Composites) /\ Cardinality(Composites) \in Nat
         /\ Cardinality(Brings(m, w)) <= Cardinality(Composites)
<1>1. Brings(m, w) \subseteq Composites  BY DEF Brings, Completed
<1>2. IsFiniteSet(Composites)  BY Bounds, FS_Interval DEF Composites
<1> QED BY <1>1, <1>2, FS_Subset, FS_CardinalityType

\* p is m after push_layer(w): the old words, the new one, and above it as many of the
\* composites it completes as there is room for, each once.
Pushed(m, w, p) ==
  /\ p \in Manager /\ p.layout_top > m.layout_top
  /\ p.layout_top <= m.layout_top + 1 + Cardinality(Brings(m, w))
  /\ \A a \in Live(m) : a \in Addr /\ p.mapping[a] = m.mapping[a]
  /\ m.layout_top \in Addr /\ p.mapping[m.layout_top] = w
  /\ \A a \in Brought(m, p) : p.mapping[a] \in Brings(m, w)
  /\ \A a, b \in Brought(m, p) : p.mapping[a] = p.mapping[b] => a = b
  /\ Cardinality(Brings(m, w)) <= m.macro_stack - m.layout_top - 2 =>
       \A i \in Brings(m, w) : \E a \in Brought(m, p) : p.mapping[a] = i
  /\ p.active_comp_part_layers =
       IF FreshPart(m, LayerOf(w)) THEN m.active_comp_part_layers \cup {LayerOf(w)}
                                   ELSE m.active_comp_part_layers
  /\ p.active_comp_count =
       IF FreshPart(m, LayerOf(w)) THEN m.active_comp_count + 1 ELSE m.active_comp_count

\* That is what push_layer leaves, when it does not refuse the layer.
LEMMA PushedStack ==
  ASSUME NEW m \in Manager, MemoryInv(m), NEW w \in Nat,
         ~ StackFull(m), LayerOf(w) < macro_dir_base, NEW p, p = PushLayer(m, w).m
  PROVE  Pushed(m, w, p)
<1> USE Bounds, Fields
<1> DEFINE n     == LayerOf(w)
           old   == m.active_comp_part_layers
           fresh == FreshPart(m, n)
           count == m.active_comp_count + 1
           comps == IF fresh /\ count > 1 THEN Completed(old, old \cup {n}, count) ELSE {}
           top   == m.layout_top
           room  == m.macro_stack - m.layout_top - 2
           Rank(i) == Cardinality({j \in comps : j < i})
           At(a) == {i \in comps : Rank(i) = a - m.layout_top - 1 /\ Rank(i) < room}
           map   == [a \in Addr |-> IF a = m.layout_top THEN w
                                    ELSE IF At(a) # {} THEN CHOOSE i \in At(a) : TRUE
                                    ELSE m.mapping[a]]
           ptop  == m.layout_top + 1 + Least(room, Cardinality(comps))
           parts == IF fresh THEN old \cup {n} ELSE old
           cnt   == IF fresh THEN count ELSE m.active_comp_count
<1> DEFINE r == [m EXCEPT !.mapping = map, !.layout_top = ptop,
                         !.active_comp_part_layers = parts, !.active_comp_count = cnt]
<1>0. ~ (StackFull(m) \/ n >= macro_dir_base)
  <2>1. n \in Nat  BY DEF LayerOf
  <2> HIDE DEF n
  <2>2. n < macro_dir_base  BY DEF n
  <2> QED BY <2>1, <2>2
<1>1. p = r
  <2>1. PushLayer(m, w).m = r  BY <1>0 DEF PushLayer
  <2> QED BY <2>1
<1>c. comps = Brings(m, w)  BY DEF Brings
<1>r. \A i : Rank(i) = Under(comps, i)  BY DEF Under
<1> HIDE DEF Rank
<1>2. p \in Manager  BY PushLayerInv
<1> HIDE DEF map, ptop, parts, cnt
<1>3. /\ p.mapping = map /\ p.layout_top = ptop
      /\ p.active_comp_part_layers = parts /\ p.active_comp_count = cnt
  BY <1>1 DEF Manager
<1>4. /\ comps \subseteq Composites /\ IsFiniteSet(comps) /\ Cardinality(comps) \in Nat
  BY <1>c, BringsFinite
<1> HIDE DEF comps
<1>5. top \in Int /\ layout_bottom <= top /\ top + 1 < m.macro_stack /\ m.macro_stack <= LAYOUT_MAX
      /\ room \in Nat /\ m.macro_stack \in Int
  BY DEF StackFull, MemoryInv, Ordered
<1>6. /\ ptop \in Int /\ ptop > top /\ ptop <= top + 1 + Cardinality(comps)
      /\ ptop <= top + 1 + room
      /\ Cardinality(comps) <= room => ptop = top + 1 + Cardinality(comps)
  BY <1>4, <1>5 DEF ptop, Least
<1>7. /\ comps \in SUBSET Nat /\ comps \in SUBSET Int
      /\ \A i \in comps : i \in 0..(macro_dir_base - 1)
  BY <1>4 DEF Composites
<1>8. ASSUME NEW a \in Addr, a <= top PROVE At(a) = {}
  <2>1. \A i \in comps : Rank(i) \in Nat  BY <1>4, <1>7, <1>r, UnderStep
  <2>2. a \in Int  BY DEF Addr
  <2> QED BY <1>5, <1>8, <2>1, <2>2
<1>9. top \in Addr  BY <1>5 DEF Addr
<1>10. \A a \in Live(m) : a \in Addr /\ map[a] = m.mapping[a]
  <2> SUFFICES ASSUME NEW a \in Live(m) PROVE a \in Addr /\ map[a] = m.mapping[a]
    OBVIOUS
  <2>1. a \in Addr /\ a < top /\ a \in Int  BY <1>5 DEF Live, Addr
  <2>2. At(a) = {} /\ a # top  BY <1>8, <2>1
  <2> HIDE DEF At
  <2> QED BY <2>1, <2>2 DEF map
<1>11. map[top] = w  BY <1>9 DEF map
<1>12. ASSUME NEW a \in Brought(m, p)
       PROVE  /\ a \in Addr /\ map[a] \in comps /\ Under(comps, map[a]) = a - top - 1
              /\ a \in Int
  <2>1. a \in Int /\ top < a /\ a < ptop  BY <1>3, <1>5, <1>6 DEF Brought
  <2>2. a \in Addr  BY <1>5, <1>6, <2>1 DEF Addr
  <2>3. a - top - 1 \in Nat /\ a - top - 1 < room /\ a - top - 1 < Cardinality(comps)
    BY <1>4, <1>5, <1>6, <2>1
  <2>4. \E i \in comps : Under(comps, i) = a - top - 1
    <3> DEFINE j == a - top - 1
    <3> HIDE DEF j
    <3>1. j \in Nat /\ j < Cardinality(comps)  BY <2>3 DEF j
    <3>2. comps \subseteq 0..(macro_dir_base - 1) /\ macro_dir_base \in Nat  BY <1>7
    <3>3. \E i \in comps : Under(comps, i) = j  BY <1>7, <3>1, <3>2, RankOnto
    <3> QED BY <3>3 DEF j
  <2>5. At(a) # {}  BY <1>r, <2>3, <2>4
  <2>6. (CHOOSE i \in At(a) : TRUE) \in At(a)  BY <2>5
  <2>7. map[a] = CHOOSE i \in At(a) : TRUE
    <3> HIDE DEF At
    <3>1. a # top  BY <1>5, <2>1
    <3> QED BY <2>2, <2>5, <3>1 DEF map
  <2>8. map[a] \in At(a)  BY <2>6, <2>7
  <2> QED BY <1>r, <2>1, <2>2, <2>8
<1>13. ASSUME NEW a \in Brought(m, p), NEW b \in Brought(m, p), map[a] = map[b] PROVE a = b
  BY <1>5, <1>12, <1>13
<1>14. ASSUME Cardinality(comps) <= room, NEW i \in comps
       PROVE  \E a \in Brought(m, p) : map[a] = i
  <2> DEFINE a == top + 1 + Under(comps, i)
  <2>1. i \in Nat /\ i < macro_dir_base  BY <1>7
  <2>2. Under(comps, i) \in Nat /\ Under(comps, i) < Cardinality(comps)
    <3>1. i \in Int /\ macro_dir_base \in Int /\ 0 \in Int  BY <2>1
    <3>2. Under(comps, i) < Under(comps, macro_dir_base) /\ Under(comps, i) \in Nat
      BY <1>4, <1>7, <2>1, <3>1, UnderGap
    <3>3. Under(comps, macro_dir_base) = Cardinality(comps)
      <4>1. comps \subseteq 0..(macro_dir_base - 1)  BY <1>7
      <4> QED BY <1>7, <3>1, <4>1, UnderEnds
    <3> QED BY <3>2, <3>3
  <2>3. a \in Int /\ top + 1 <= a /\ a <= ptop - 1 /\ a - top - 1 = Under(comps, i)
    BY <1>4, <1>5, <1>6, <1>14, <2>2
  <2> HIDE DEF a
  <2>4. a \in Brought(m, p)  BY <1>3, <1>5, <1>6, <2>3 DEF Brought
  <2>5. map[a] \in comps /\ Under(comps, map[a]) = Under(comps, i)  BY <1>12, <2>3, <2>4
  <2> HIDE DEF map
  <2>6. map[a] = i
    <3> DEFINE h == map[a]
    <3> HIDE DEF h
    <3>1. h \in comps /\ Under(comps, h) = Under(comps, i)  BY <2>5 DEF h
    <3>2. h = i  BY <1>4, <1>7, <3>1, RankInjective
    <3> QED BY <3>2 DEF h
  <2> QED BY <2>4, <2>6
<1> QED BY <1>2, <1>3, <1>5, <1>6, <1>9, <1>10, <1>11, <1>12, <1>13, <1>14, <1>c
        DEF parts, cnt, Pushed

\* Where the word at b goes when the words at the addresses in gone go.
Down(gone, b) == b - Under(gone, b)

\* r is m without the words at gone: every other word is there, in order.
Kept(m, gone, r) ==
  /\ r \in Manager /\ r.layout_top <= m.layout_top
  /\ layout_bottom \notin gone => Down(gone, layout_bottom) = layout_bottom
  /\ \A b \in Live(m) \ gone :
       /\ Down(gone, b) \in Live(r) /\ b \in Addr /\ Down(gone, b) \in Addr
       /\ r.mapping[Down(gone, b)] = m.mapping[b]
  /\ \A b, c \in Live(m) \ gone : b < c => Down(gone, b) < Down(gone, c)
  /\ \A a \in Live(r) : \E b \in Live(m) \ gone : a = Down(gone, b)
  /\ r.active_comp_part_layers = m.active_comp_part_layers
  /\ r.active_comp_count = m.active_comp_count

\* That is what the removals of pop_layer leave.
LEMMA KeptStack ==
  ASSUME NEW m \in Manager, MemoryInv(m), NEW gone \in SUBSET Live(m),
         NEW r, r = RemoveWords(m, gone)
  PROVE  Kept(m, gone, r)
<1> USE Bounds, Fields
<1> DEFINE top == m.layout_top
           map == [a \in Addr |-> IF a < m.layout_top THEN m.mapping[Source(m, gone, a)]
                                                     ELSE m.mapping[a]]
           rtop == m.layout_top - Cardinality(gone)
<1>1. r = [m EXCEPT !.mapping = map, !.layout_top = rtop]  BY DEF RemoveWords
<1>2. r \in Manager  BY RemoveWordsInv DEF Live
<1> HIDE DEF map, rtop
<1>3. /\ r.mapping = map /\ r.layout_top = rtop
      /\ r.active_comp_part_layers = m.active_comp_part_layers
      /\ r.active_comp_count = m.active_comp_count
  BY <1>1 DEF Manager
<1>4. top \in Int /\ layout_bottom <= top /\ top <= LAYOUT_MAX /\ top \in Nat
  BY DEF MemoryInv, Ordered
<1>5. /\ gone \subseteq layout_bottom..(top - 1) /\ gone \in SUBSET Int
      /\ \A g \in gone : g \in Int /\ layout_bottom <= g /\ g < top
  BY <1>4 DEF Live
<1>6. IsFiniteSet(gone) /\ Cardinality(gone) \in Nat
  <2>1. layout_bottom \in Int /\ top - 1 \in Int  BY <1>4
  <2>2. IsFiniteSet(layout_bottom..(top - 1))  BY <2>1, FS_Interval
  <2> QED BY <1>5, <2>2, FS_Subset, FS_CardinalityType
<1>7. /\ rtop = top - Cardinality(gone) /\ rtop \in Int /\ rtop <= top
      /\ Under(gone, layout_bottom) = 0 /\ Under(gone, top) = Cardinality(gone)
  <2>1. layout_bottom \in Int  OBVIOUS
  <2>2. Under(gone, layout_bottom) = 0 /\ Under(gone, top) = Cardinality(gone)
    BY <1>4, <1>5, <2>1, UnderEnds
  <2> QED BY <1>4, <1>6, <2>2 DEF rtop
<1> HIDE DEF top
<1>8. ASSUME NEW b \in Int, NEW c \in Int, b < c
      PROVE  /\ Down(gone, b) \in Int /\ Down(gone, c) \in Int
             /\ Down(gone, b) <= Down(gone, c)
             /\ b \notin gone => Down(gone, b) < Down(gone, c)
  <2>1. /\ Under(gone, b) \in Nat /\ Under(gone, c) \in Nat
        /\ Under(gone, c) - Under(gone, b) <= c - b
        /\ b \notin gone => Under(gone, c) - Under(gone, b) <= c - b - 1
    BY <1>5, <1>6, <1>8, UnderGap
  <2> QED BY <1>8, <2>1 DEF Down
<1>9. Down(gone, layout_bottom) = layout_bottom /\ Down(gone, top) = rtop
  BY <1>4, <1>7 DEF Down
<1>10. ASSUME NEW b \in Live(m) \ gone
       PROVE  /\ b \in Int /\ layout_bottom <= b /\ b < top /\ b \in Addr
              /\ Down(gone, b) \in Int
              /\ layout_bottom <= Down(gone, b) /\ Down(gone, b) < rtop
              /\ Down(gone, b) \in Addr
  <2>1. b \in Int /\ layout_bottom <= b /\ b < top  BY <1>4 DEF Live, top
  <2>2. b \in Addr  BY <1>4, <2>1 DEF Addr
  <2>3. Down(gone, b) \in Int /\ Down(gone, b) < rtop  BY <1>4, <1>8, <1>9, <2>1
  <2>4. layout_bottom <= Down(gone, b)
    <3>1. CASE b = layout_bottom  BY <1>9, <3>1
    <3>2. CASE b # layout_bottom
      <4>1. layout_bottom \in Int /\ layout_bottom < b  BY <2>1, <3>2
      <4> QED BY <1>8, <1>9, <2>1, <4>1
    <3> QED BY <3>1, <3>2
  <2> QED BY <1>4, <1>7, <2>1, <2>2, <2>3, <2>4 DEF Addr
<1>11. ASSUME NEW b \in Live(m) \ gone, NEW a, a = Down(gone, b)
       PROVE  map[a] = m.mapping[b]
  <2>1. a \in Int /\ a \in Addr /\ a < rtop /\ b \in Int  BY <1>10, <1>11
  <2>2. Movers(m, gone, a) = gone
    <3>1. ASSUME NEW g \in gone
          PROVE  Cardinality({h \in gone : h > g}) < m.layout_top - a - 1
      <4>1. IsFiniteSet({h \in gone : h > g}) /\ Cardinality({h \in gone : h > g}) \in Nat
        BY <1>6, FS_Subset, FS_CardinalityType
      <4>2. {h \in gone : h > g} \in SUBSET gone /\ {h \in gone : h > g} # gone
        <5>1. ~ (g > g)  BY <1>5
        <5> QED BY <5>1
      <4>3. Cardinality({h \in gone : h > g}) < Cardinality(gone)
        BY <1>6, <4>1, <4>2, FS_Subset
      <4> QED BY <1>4, <1>6, <1>7, <2>1, <4>1, <4>3 DEF top
    <3> QED BY <3>1 DEF Movers
  <2>3. \A g \in gone : Down(gone, g) <= a <=> g < b
    <3> SUFFICES ASSUME NEW g \in gone PROVE Down(gone, g) <= a <=> g < b
      OBVIOUS
    <3>1. g \in Int /\ g # b  BY <1>5
    <3>2. g < b => Down(gone, g) <= a  BY <1>8, <1>11, <2>1, <3>1
    <3>3. b < g => a < Down(gone, g) /\ Down(gone, g) \in Int
      BY <1>8, <1>10, <1>11, <2>1, <3>1
    <3> QED BY <2>1, <3>1, <3>2, <3>3
  <2>4. {g \in gone : Down(gone, g) <= a} = {g \in gone : g < b}  BY <2>3
  <2>5. Source(m, gone, a) = a + Under(gone, b)
    <3>1. Source(m, gone, a) = a + Cardinality({g \in gone : Down(gone, g) <= a})
      BY <2>2 DEF Source, Down, Under
    <3> QED BY <2>4, <3>1 DEF Under
  <2>6. Under(gone, b) \in Nat  BY <1>5, <1>6, <2>1, UnderStep
  <2>7. Source(m, gone, a) = b  BY <1>11, <2>1, <2>5, <2>6 DEF Down
  <2>8. a < m.layout_top  BY <1>4, <1>7, <2>1 DEF top
  <2> QED BY <2>1, <2>7, <2>8 DEF map
<1>12. ASSUME NEW a \in Live(r) PROVE \E b \in Live(m) \ gone : a = Down(gone, b)
  <2>1. a \in Int /\ layout_bottom <= a /\ a < top - Cardinality(gone)
    BY <1>3, <1>6, <1>7 DEF Live
  <2>2. \E b \in layout_bottom..(top - 1) : b \notin gone /\ a = b - Under(gone, b)
    <3> DEFINE lo == layout_bottom
    <3>1. /\ layout_bottom \in Nat /\ top \in Nat /\ layout_bottom <= top
          /\ gone \in SUBSET Int /\ gone \subseteq layout_bottom..(top - 1)
          /\ a \in Int /\ layout_bottom <= a /\ a < top - Cardinality(gone)
      BY <1>4, <1>5, <2>1
    <3> QED BY ONLY <3>1, ClosingUpOnto
  <2> QED BY <2>2 DEF Live, Down, top
<1>13. ASSUME NEW b \in Live(m) \ gone PROVE Down(gone, b) \in Live(r)
  BY <1>3, <1>7, <1>10 DEF Live
<1>14. ASSUME NEW b \in Live(m) \ gone, NEW c \in Live(m) \ gone, b < c
       PROVE  Down(gone, b) < Down(gone, c)
  BY <1>8, <1>10, <1>14
<1> QED BY <1>2, <1>3, <1>7, <1>9, <1>10, <1>11, <1>12, <1>13, <1>14
        DEF top, Kept

-----------------------------------------------------------------------------
(***************************************************************************)
(* The active parts.                                                       *)
(***************************************************************************)
\* The layers a keyboard can be based on.
Bases == BaseLayers \cup {MAIN_BASE}

\* PartsExact, of one manager.
PartsInv(m) ==
  /\ m.active_comp_part_layers = ActiveLayers(m) \cap part_layers
  /\ m.active_comp_count = Cardinality(m.active_comp_part_layers)

\* The bottom of the stack is a base layer.
Based(m) ==
  m.layout_top > layout_bottom /\ LayerOf(m.mapping[layout_bottom]) \in Bases

\* Base layers are neither composites nor parts of composites, and what is pushed is
\* neither a base layer nor a composite: composites come with their parts only.
BasesApart ==
  /\ Bases \cap (part_layers \cup Composites) = {}
  /\ \A w \in PushLayers : LayerOf(w) \notin Composites \cup Bases

LEMMA ActiveIs ==
  ASSUME NEW m, NEW l
  PROVE  l \in ActiveLayers(m) <=> \E a \in Live(m) : LayerOf(m.mapping[a]) = l
BY DEF ActiveLayers, Live

\* A composite's word names the composite, which is no part.
LEMMA CompositeWord ==
  ASSUME NEW i \in Composites
  PROVE  i \in Nat /\ LayerOf(i) = i /\ i \notin part_layers
<1>1. i \in composite_start_index..(macro_dir_base - 1)  BY DEF Composites
<1>2. i \in 6..254  BY <1>1, Bounds
<1>3. LayerOf(i) = i  BY <1>2 DEF LayerOf
<1>4. i \notin part_layers
  <2>1. \A l \in part_layers : l \in 0..(composite_start_index - 1)  BY LayoutAssumption
  <2> QED BY <1>1, <2>1, Bounds
<1> QED BY <1>2, <1>3, <1>4

LEMMA PartsFinite ==
  ASSUME NEW S \in SUBSET part_layers
  PROVE  IsFiniteSet(S) /\ Cardinality(S) \in Nat
<1>1. part_layers \in SUBSET (0..(composite_start_index - 1))  BY LayoutAssumption
<1>2. composite_start_index \in Int  BY Bounds
<1>3. IsFiniteSet(0..(composite_start_index - 1))  BY <1>2, FS_Interval
<1>4. IsFiniteSet(part_layers)  BY <1>1, <1>3, FS_Subset
<1> QED BY <1>4, FS_Subset, FS_CardinalityType

\* The addresses and the layers of the stack after a push.
PushedAt(m, w, p) ==
  /\ Live(p) = Live(m) \cup {m.layout_top} \cup Brought(m, p)
  /\ \A a \in Live(m) : a < m.layout_top /\ a \in Int
  /\ \A a \in Brought(m, p) :
       /\ a > m.layout_top /\ a \in Int
       /\ LayerOf(p.mapping[a]) = p.mapping[a] /\ p.mapping[a] \in Brings(m, w)
  /\ \A l : l \in ActiveLayers(p) <=>
       \/ l \in ActiveLayers(m)
       \/ l = LayerOf(w)
       \/ \E a \in Brought(m, p) : p.mapping[a] = l

LEMMA PushedLayers ==
  ASSUME NEW m \in Manager, MemoryInv(m), NEW w \in Nat,
         ~ StackFull(m), LayerOf(w) < macro_dir_base, NEW p, p = PushLayer(m, w).m
  PROVE  PushedAt(m, w, p)
<1> USE Bounds, Fields
<1>1. /\ p \in Manager /\ p.layout_top > m.layout_top
      /\ \A a \in Live(m) : p.mapping[a] = m.mapping[a]
      /\ p.mapping[m.layout_top] = w
      /\ \A a \in Brought(m, p) : p.mapping[a] \in Brings(m, w)
  <2>1. Pushed(m, w, p)  BY PushedStack
  <2> QED BY <2>1 DEF Pushed
<1>2. layout_bottom <= m.layout_top  BY DEF MemoryInv, Ordered
<1>3. Live(p) = Live(m) \cup {m.layout_top} \cup Brought(m, p)
  BY <1>1, <1>2 DEF Live, Brought
<1>4. ASSUME NEW a \in Live(m) PROVE a < m.layout_top /\ a \in Int
  BY DEF Live
<1>5. ASSUME NEW a \in Brought(m, p)
      PROVE  /\ a > m.layout_top /\ a \in Int
             /\ LayerOf(p.mapping[a]) = p.mapping[a] /\ p.mapping[a] \in Brings(m, w)
  <2>1. a > m.layout_top /\ a \in Int  BY <1>1 DEF Brought
  <2>2. p.mapping[a] \in Brings(m, w) /\ p.mapping[a] \in Composites  BY <1>1, BringsFinite
  <2> QED BY <2>1, <2>2, CompositeWord
<1>6. ASSUME NEW l
      PROVE  l \in ActiveLayers(p) <=> \/ l \in ActiveLayers(m)
                                       \/ l = LayerOf(w)
                                       \/ \E a \in Brought(m, p) : p.mapping[a] = l
  <2>1. l \in ActiveLayers(p) <=> \E a \in Live(p) : LayerOf(p.mapping[a]) = l  BY ActiveIs
  <2>2. l \in ActiveLayers(m) <=> \E a \in Live(m) : LayerOf(p.mapping[a]) = l
    BY <1>1, ActiveIs
  <2>3. l = LayerOf(w) <=> LayerOf(p.mapping[m.layout_top]) = l  BY <1>1
  <2>4. \A a \in Brought(m, p) : LayerOf(p.mapping[a]) = p.mapping[a]  BY <1>5
  <2> QED BY <1>3, <2>1, <2>2, <2>3, <2>4, Zenon
<1> QED BY <1>3, <1>4, <1>5, <1>6 DEF PushedAt

\* push_layer keeps the bitmap and its count exact, also when composites find no room.
LEMMA PushParts ==
  ASSUME NEW m \in Manager, MemoryInv(m), PartsInv(m), Based(m), NEW w \in Nat
  PROVE  PartsInv(PushLayer(m, w).m) /\ Based(PushLayer(m, w).m)
<1> USE Bounds, Fields
<1> DEFINE n == LayerOf(w)
           p == PushLayer(m, w).m
<1>0. n \in Nat  BY DEF LayerOf
<1>1. CASE StackFull(m) \/ n >= macro_dir_base
  <2>1. p = m  BY <1>1 DEF PushLayer
  <2> QED BY <2>1
<1>2. CASE ~ (StackFull(m) \/ n >= macro_dir_base)
  <2> HIDE DEF n, p
  <2>1. ~ StackFull(m) /\ n < macro_dir_base  BY <1>0, <1>2
  <2>2. /\ p.layout_top > m.layout_top /\ p.layout_top \in Int
        /\ \A a \in Live(m) : p.mapping[a] = m.mapping[a]
        /\ p.active_comp_part_layers =
              IF FreshPart(m, n) THEN m.active_comp_part_layers \cup {n}
                                 ELSE m.active_comp_part_layers
        /\ p.active_comp_count =
              IF FreshPart(m, n) THEN m.active_comp_count + 1 ELSE m.active_comp_count
    <3>1. Pushed(m, w, p)  BY <2>1, PushedStack DEF n, p
    <3> QED BY <3>1 DEF Pushed, n, Manager
  <2>3. /\ \A a \in Brought(m, p) : p.mapping[a] \in Brings(m, w)
        /\ \A l : l \in ActiveLayers(p) <=> \/ l \in ActiveLayers(m)
                                            \/ l = n
                                            \/ \E a \in Brought(m, p) : p.mapping[a] = l
    <3>1. PushedAt(m, w, p)  BY <2>1, PushedLayers DEF n, p
    <3> QED BY <3>1 DEF PushedAt, n
  <2>4. \A l \in part_layers : l \in ActiveLayers(p) <=> l \in ActiveLayers(m) \/ l = n
    <3>1. \A a \in Brought(m, p) : p.mapping[a] \notin part_layers
      BY <2>3, BringsFinite, CompositeWord
    <3> QED BY <2>3, <3>1
  <2>5. p.active_comp_part_layers = ActiveLayers(p) \cap part_layers
    BY <2>2, <2>4 DEF PartsInv, FreshPart
  <2>6. p.active_comp_count = Cardinality(p.active_comp_part_layers)
    <3> DEFINE S == m.active_comp_part_layers
    <3>1. IsFiniteSet(S)  BY PartsFinite
    <3> HIDE DEF S
    <3>2. n \notin S => Cardinality(S \cup {n}) = Cardinality(S) + 1
      BY <3>1, FS_AddElement
    <3> QED BY <2>2, <3>2 DEF PartsInv, FreshPart, S
  <2>7. Based(p)
    <3>1. layout_bottom \in Live(m)  BY DEF Based, Live
    <3> QED BY <2>2, <3>1 DEF Based
  <2> QED BY <2>5, <2>6, <2>7 DEF PartsInv, p
<1> QED BY <1>1, <1>2

-----------------------------------------------------------------------------
(***************************************************************************)
(* What pop_layer does, in parts.                                          *)
(***************************************************************************)
\* The topmost activation of l.
TopOf(m, l) == Top(Occurrences(m, l, m.layout_top))

\* l is a part, and its only activation goes.
WasLast(m, l) ==
  /\ l \in part_layers /\ l \in m.active_comp_part_layers
  /\ Occurrences(m, l, TopOf(m, l)) = {}

\* Composite c was complete and is not without l.
Breaks(m, l, c) ==
  /\ c \in Composites
  /\ composite_bitmap[c] \subseteq m.active_comp_part_layers
  /\ ~ composite_bitmap[c] \subseteq m.active_comp_part_layers \ {l}

\* The addresses of the composites that go with l.
Dropped(m, l) ==
  IF WasLast(m, l) /\ m.active_comp_count > 1
  THEN {a \in (TopOf(m, l) + 1)..(m.layout_top - 1) : Breaks(m, l, LayerOf(m.mapping[a]))}
  ELSE {}

Removed(m, l) == Dropped(m, l) \cup {TopOf(m, l)}

\* The manager without l in the bitmap, if it was the last activation.
Marked(m, l) ==
  IF WasLast(m, l) THEN [m EXCEPT !.active_comp_part_layers = @ \ {l}, !.active_comp_count = @ - 1]
  ELSE m

\* pop_layer finds the layer.
Finds(m, l) == Occurrences(m, l, m.layout_top) # {} /\ l < macro_dir_base

\* r is m after pop_layer(l) has found the layer.
Popped(m, l, r) ==
  /\ TopOf(m, l) \in Live(m) /\ LayerOf(m.mapping[TopOf(m, l)]) = l
  /\ \A b \in Live(m) : LayerOf(m.mapping[b]) = l => b <= TopOf(m, l)
  /\ Removed(m, l) \subseteq Live(m)
  /\ \A b \in Removed(m, l) : b >= TopOf(m, l)
  /\ Marked(m, l).mapping = m.mapping /\ Marked(m, l).layout_top = m.layout_top
  /\ Kept(Marked(m, l), Removed(m, l), r)

LEMMA PoppedStack ==
  ASSUME NEW m \in Manager, MemoryInv(m), NEW l \in Nat, Finds(m, l),
         NEW r, r = PopLayer(m, l).m
  PROVE  Popped(m, l, r)
<1> USE Bounds, Fields
<1> DEFINE pos == TopOf(m, l)
           found == Occurrences(m, l, m.layout_top)
           gone == Removed(m, l)
           k == Marked(m, l)
<1>1. r = RemoveWords(k, gone)
  <2>1. ~ (found = {} \/ l >= macro_dir_base)
    <3>1. l < macro_dir_base /\ found # {}  BY DEF Finds
    <3> HIDE DEF found
    <3> QED BY <3>1
  <2>2. PopLayer(m, l).m = RemoveWords(k, gone)
    BY <2>1 DEF PopLayer, Marked, Removed, Dropped, TopOf, WasLast, Breaks
  <2> QED BY <2>2
<1>2. pos \in found /\ \A a \in found : a <= pos
  <2>1. \E x \in found : \A y \in found : y <= x
    <3>1. found \in SUBSET Int /\ \A a \in found : a <= m.layout_top  BY DEF Occurrences
    <3>2. found # {}  BY DEF Finds
    <3> HIDE DEF found
    <3> QED BY <3>1, <3>2, GreatestElement
  <2> QED BY <2>1 DEF Top, TopOf
<1> HIDE DEF pos, found, gone, k
<1>3. /\ pos \in Live(m) /\ LayerOf(m.mapping[pos]) = l
      /\ \A b \in Live(m) : LayerOf(m.mapping[b]) = l => b <= pos
  BY <1>2 DEF found, Occurrences, Live
<1>4. pos \in Int /\ layout_bottom <= pos  BY <1>3 DEF Live
<1>5. \A b \in gone : b \in Live(m) /\ b >= pos
  <2>1. gone = Dropped(m, l) \cup {pos}  BY DEF gone, pos, Removed
  <2>2. \A b \in Dropped(m, l) : b \in (pos + 1)..(m.layout_top - 1)  BY DEF Dropped, pos
  <2> QED BY <1>3, <1>4, <2>1, <2>2 DEF Live
<1>6. /\ k \in Manager /\ k.mapping = m.mapping /\ k.layout_top = m.layout_top
      /\ MemoryInv(k)
  <2>1. k \in Manager
    <3>1. \A S \in SUBSET part_layers, x \in Int :
            [m EXCEPT !.active_comp_part_layers = S, !.active_comp_count = x] \in Manager
      BY DEF Manager
    <3>2. m.active_comp_part_layers \ {l} \in SUBSET part_layers /\ m.active_comp_count - 1 \in Int
      OBVIOUS
    <3> QED BY <3>1, <3>2 DEF k, Marked
  <2>2. /\ k.mapping = m.mapping /\ k.layout_top = m.layout_top
        /\ k.macro_stack = m.macro_stack /\ k.memo_bottom = m.memo_bottom
        /\ k.memo_top = m.memo_top
    BY DEF k, Marked, Manager
  <2>3. SameMemory(m, k)  BY <2>2 DEF SameMemory
  <2>4. layout_bottom <= k.layout_top /\ k.layout_top <= m.macro_stack
    BY <2>2 DEF MemoryInv, Ordered
  <2> QED BY <2>1, <2>2, <2>3, <2>4, SameMemoryInv
<1>7. gone \in SUBSET Live(k)  BY <1>5, <1>6 DEF Live
<1>8. Kept(k, gone, r)  BY <1>1, <1>6, <1>7, KeptStack
<1> QED BY <1>3, <1>5, <1>6, <1>8 DEF Popped, pos, gone, k

\* The words that stay, and the layers they activate.
LEMMA PoppedLayers ==
  ASSUME NEW m \in Manager, NEW l \in Nat, NEW r, Popped(m, l, r)
  PROVE  /\ \A n : n \in ActiveLayers(r) <=>
              \E b \in Live(m) \ Removed(m, l) : LayerOf(m.mapping[b]) = n
         /\ \A b \in Removed(m, l) :
              b # TopOf(m, l) => LayerOf(m.mapping[b]) \in Composites
<1> DEFINE gone == Removed(m, l)
           k == Marked(m, l)
<1>1. Live(k) = Live(m) /\ k.mapping = m.mapping  BY DEF Popped, Live
<1>2. /\ \A b \in Live(k) \ gone :
              Down(gone, b) \in Live(r) /\ r.mapping[Down(gone, b)] = k.mapping[b]
      /\ \A a \in Live(r) : \E b \in Live(k) \ gone : a = Down(gone, b)
  BY DEF Popped, Kept
<1> HIDE DEF gone, k
<1>3. ASSUME NEW n
      PROVE  n \in ActiveLayers(r) <=> \E b \in Live(m) \ gone : LayerOf(m.mapping[b]) = n
  <2>1. n \in ActiveLayers(r) <=> \E a \in Live(r) : LayerOf(r.mapping[a]) = n  BY ActiveIs
  <2> QED BY <1>1, <1>2, <2>1
<1>4. \A b \in gone : b # TopOf(m, l) => LayerOf(m.mapping[b]) \in Composites
  BY DEF gone, Removed, Dropped, Breaks
<1> QED BY <1>3, <1>4 DEF gone

\* pop_layer keeps the bitmap and its count exact, and leaves the base.
LEMMA PopParts ==
  ASSUME NEW m \in Manager, MemoryInv(m), PartsInv(m), Based(m), NEW l \in Nat, l \notin Bases
  PROVE  PartsInv(PopLayer(m, l).m) /\ Based(PopLayer(m, l).m)
<1> USE Bounds, Fields
<1> DEFINE r == PopLayer(m, l).m
           pos == TopOf(m, l)
           gone == Removed(m, l)
           old == m.active_comp_part_layers
<1>1. CASE ~ Finds(m, l)
  <2>1. Occurrences(m, l, m.layout_top) = {} \/ l >= macro_dir_base  BY <1>1 DEF Finds
  <2>2. r = m  BY <2>1 DEF PopLayer
  <2> QED BY <2>2
<1>2. CASE Finds(m, l)
  <2> HIDE DEF r
  <2>1. Popped(m, l, r)  BY <1>2, PoppedStack DEF r
  <2>2. /\ pos \in Live(m) /\ LayerOf(m.mapping[pos]) = l /\ pos \in gone
        /\ \A b \in Live(m) : LayerOf(m.mapping[b]) = l => b <= pos
        /\ gone \subseteq Live(m) /\ \A b \in gone : b >= pos
    BY <2>1 DEF Popped, Removed
  <2>3. /\ \A n : n \in ActiveLayers(r) <=> \E b \in Live(m) \ gone : LayerOf(m.mapping[b]) = n
        /\ \A b \in gone : b # pos => LayerOf(m.mapping[b]) \in Composites
    BY <2>1, PoppedLayers
  <2>4. \A a : a \in Occurrences(m, l, pos) <=>
                 a \in Live(m) /\ a < pos /\ LayerOf(m.mapping[a]) = l
    <3>1. pos \in Int /\ pos < m.layout_top  BY <2>2 DEF Live
    <3> HIDE DEF pos
    <3> QED BY <3>1 DEF Occurrences, Live
  <2>5. \A b \in Live(m) : b \in Int  BY DEF Live
  <2> DEFINE last == WasLast(m, l)
  <2>6. last <=> l \in part_layers /\ l \in old /\ Occurrences(m, l, pos) = {}
    BY DEF WasLast
  <2> HIDE DEF pos, gone, last
  <2>7. ASSUME NEW q \in part_layers
        PROVE  q \in ActiveLayers(r) <=> q \in ActiveLayers(m) /\ ~ (q = l /\ last)
    <3>1. ASSUME q \in ActiveLayers(r) PROVE q \in ActiveLayers(m) /\ ~ (q = l /\ last)
      <4>1. PICK b \in Live(m) \ gone : LayerOf(m.mapping[b]) = q  BY <2>3, <3>1
      <4>2. q \in ActiveLayers(m)  BY <4>1, ActiveIs
      <4>3. ASSUME q = l, last PROVE FALSE
        <5>1. b <= pos /\ b # pos  BY <2>2, <4>1, <4>3
        <5>2. b < pos  BY <2>2, <2>5, <4>1, <5>1
        <5> QED BY <2>4, <2>6, <4>1, <4>3, <5>2
      <4> QED BY <4>2, <4>3
    <3>2. ASSUME q \in ActiveLayers(m), ~ (q = l /\ last) PROVE q \in ActiveLayers(r)
      <4>1. PICK b \in Live(m) : LayerOf(m.mapping[b]) = q  BY <3>2, ActiveIs
      <4>2. CASE b \notin gone  BY <2>3, <4>1, <4>2
      <4>3. CASE b \in gone
        <5>1. b = pos
          <6>1. b # pos => q \in Composites  BY <2>3, <4>1, <4>3
          <6> QED BY <6>1, CompositeWord
        <5>2. q = l /\ l \in old /\ ~ last  BY <2>2, <3>2, <4>1, <5>1 DEF PartsInv
        <5>3. PICK a \in Live(m) : a < pos /\ LayerOf(m.mapping[a]) = l
          BY <2>4, <2>6, <5>2
        <5>4. a \notin gone  BY <2>2, <2>5, <5>3
        <5> QED BY <2>3, <5>2, <5>3, <5>4
      <4> QED BY <4>2, <4>3
    <3> QED BY <3>1, <3>2
  <2>8. /\ r.active_comp_part_layers = Marked(m, l).active_comp_part_layers
        /\ r.active_comp_count = Marked(m, l).active_comp_count
    BY <2>1 DEF Popped, Kept
  <2>9. PartsInv(r)
    <3>1. CASE last
      <4>1. /\ r.active_comp_part_layers = old \ {l}
            /\ r.active_comp_count = m.active_comp_count - 1
        BY <2>8, <3>1 DEF Marked, Manager, last
      <4>2. r.active_comp_part_layers = ActiveLayers(r) \cap part_layers
        BY <2>7, <3>1, <4>1 DEF PartsInv
      <4>3. Cardinality(old \ {l}) = Cardinality(old) - 1
        <5>1. IsFiniteSet(old) /\ l \in old  BY <2>6, <3>1, PartsFinite
        <5> HIDE DEF old
        <5> QED BY <5>1, FS_RemoveElement
      <4> QED BY <4>1, <4>2, <4>3 DEF PartsInv
    <3>2. CASE ~ last
      <4>1. r.active_comp_part_layers = old /\ r.active_comp_count = m.active_comp_count
        BY <2>8, <3>2 DEF Marked, last
      <4>2. r.active_comp_part_layers = ActiveLayers(r) \cap part_layers
        BY <2>7, <3>2, <4>1 DEF PartsInv
      <4> QED BY <4>1, <4>2 DEF PartsInv
    <3> QED BY <3>1, <3>2
  <2>10. Based(r)
    <3>1. layout_bottom \in Live(m)  BY DEF Based, Live
    <3>2. layout_bottom # pos  BY <2>2 DEF Based
    <3>3. layout_bottom \notin gone
      <4>1. pos >= layout_bottom /\ pos \in Int  BY <2>2 DEF Live
      <4> QED BY <2>2, <3>2, <4>1
    <3>4. /\ Down(gone, layout_bottom) = layout_bottom
          /\ layout_bottom \in Live(r) /\ r.mapping[layout_bottom] = m.mapping[layout_bottom]
      <4>1. Live(Marked(m, l)) = Live(m) /\ Marked(m, l).mapping = m.mapping
        BY <2>1 DEF Popped, Live
      <4>2. /\ layout_bottom \notin gone => Down(gone, layout_bottom) = layout_bottom
            /\ \A b \in Live(Marked(m, l)) \ gone :
                 /\ Down(gone, b) \in Live(r)
                 /\ r.mapping[Down(gone, b)] = Marked(m, l).mapping[b]
        BY <2>1 DEF Popped, Kept, gone
      <4> QED BY <3>1, <3>3, <4>1, <4>2
    <3>5. r.layout_top > layout_bottom
      <4>1. r \in Manager  BY <2>1 DEF Popped, Kept
      <4> QED BY <3>4, <4>1 DEF Live
    <3> QED BY <3>4, <3>5 DEF Based
  <2> QED BY <2>9, <2>10 DEF r
<1> QED BY <1>1, <1>2

-----------------------------------------------------------------------------
(***************************************************************************)
(* Memos and macros leave the layer stack alone.                           *)
(***************************************************************************)
\* n has the same layer stack as m.
SameStack(m, n) ==
  /\ n.layout_top = m.layout_top
  /\ \A a \in Live(m) : n.mapping[a] = m.mapping[a]
  /\ n.active_comp_part_layers = m.active_comp_part_layers
  /\ n.active_comp_count = m.active_comp_count

LEMMA SameStackTransitive ==
  ASSUME NEW m, NEW n, NEW o, SameStack(m, n), SameStack(n, o)
  PROVE  SameStack(m, o)
<1>1. Live(n) = Live(m)  BY DEF SameStack, Live
<1> QED BY <1>1 DEF SameStack

LEMMA SameStackLayers ==
  ASSUME NEW m \in Manager, NEW n, SameStack(m, n)
  PROVE  /\ Live(n) = Live(m) /\ ActiveLayers(n) = ActiveLayers(m)
         /\ PartsInv(m) => PartsInv(n)
         /\ Based(m) => Based(n)
<1>1. Live(n) = Live(m)  BY DEF SameStack, Live
<1>2. \A l : l \in ActiveLayers(n) <=> l \in ActiveLayers(m)
  BY <1>1, ActiveIs DEF SameStack
<1>3. ActiveLayers(n) = ActiveLayers(m)
  <2>1. \A l \in ActiveLayers(n) : l \in ActiveLayers(m)  BY <1>2
  <2>2. \A l \in ActiveLayers(m) : l \in ActiveLayers(n)  BY <1>2
  <2> QED BY <2>1, <2>2
<1>4. Based(m) => Based(n)
  <2>1. Based(m) => layout_bottom \in Live(m)  BY Bounds, Fields DEF Based, Live
  <2> QED BY <2>1 DEF Based, SameStack
<1> QED BY <1>1, <1>3, <1>4 DEF PartsInv, SameStack

\* The layers are below the macro states.
LEMMA LiveBelow ==
  ASSUME NEW m \in Manager, MemoryInv(m), NEW a \in Live(m)
  PROVE  a \in Addr /\ a \in Int /\ a < m.layout_top /\ a < m.macro_stack
BY Bounds, Fields DEF Live, Addr, MemoryInv, Ordered

LEMMA DefragSame ==
  ASSUME NEW m \in Manager, MemoryInv(m), NEW d, d = DefragStack(m)
  PROVE  /\ SameStack(m, d)
         /\ d.macro_stack = LAYOUT_MAX - (m.memo_top - m.macro_stack)
         /\ d.memo_bottom = LAYOUT_MAX - (m.memo_top - m.memo_bottom)
         /\ d.memo_top = LAYOUT_MAX
<1> USE Bounds, Fields
<1> DEFINE diff == LAYOUT_MAX - m.memo_top
           map  == [a \in Addr |-> IF a >= m.macro_stack + diff THEN m.mapping[a - diff]
                                                               ELSE m.mapping[a]]
<1>1. diff \in Nat  BY DEF MemoryInv, Ordered
<1> HIDE DEF map
<1>2. /\ d.mapping = map /\ d.layout_top = m.layout_top
      /\ d.macro_stack = m.macro_stack + diff /\ d.memo_bottom = m.memo_bottom + diff
      /\ d.memo_top = m.memo_top + diff
      /\ d.active_comp_part_layers = m.active_comp_part_layers
      /\ d.active_comp_count = m.active_comp_count
  BY DEF DefragStack, Manager, map
<1>3. ASSUME NEW a \in Live(m) PROVE map[a] = m.mapping[a]
  <2>1. a \in Addr /\ a \in Int /\ a < m.macro_stack  BY LiveBelow
  <2> HIDE DEF diff
  <2>2. ~ (a >= m.macro_stack + diff)  BY <1>1, <2>1
  <2> QED BY <2>1, <2>2 DEF map
<1> QED BY <1>2, <1>3 DEF SameStack

\* A memo that is taken lies above the layers.
LEMMA PushMemoSame ==
  ASSUME NEW m \in Manager, MemoryInv(m), NEW memo \in Seq(Nat), Len(memo) \in {2, 5},
         NEW r, r = PushMemo(m, memo).m
  PROVE  /\ PushMemo(m, memo).ok =>
              /\ SameStack(m, r)
              /\ r.macro_stack = r.memo_bottom /\ r.memo_top = LAYOUT_MAX
              /\ r.memo_bottom = LAYOUT_MAX - (m.memo_top - m.memo_bottom) - Len(memo) - 1
         /\ ~ PushMemo(m, memo).ok =>
              \/ m.macro_stack # m.memo_bottom
              \/ LAYOUT_MAX - (m.memo_top - m.memo_bottom) - Len(memo) - 1 <= m.layout_top
<1> USE Bounds, Fields
<1> DEFINE d    == DefragStack(m)
           len  == Len(memo)
           base == d.memo_bottom - Len(memo) - 1
           map  == [a \in Addr |->
                      IF a >= base /\ a < base + Len(memo) THEN memo[a - base + 1]
                      ELSE IF a = d.memo_bottom - 1 THEN Len(memo) ELSE d.mapping[a]]
           q    == [d EXCEPT !.mapping = map, !.macro_stack = base, !.memo_bottom = base]
<1>1. /\ d \in Manager /\ SameStack(m, d) /\ d.memo_top = LAYOUT_MAX
      /\ d.macro_stack = LAYOUT_MAX - (m.memo_top - m.macro_stack)
      /\ d.memo_bottom = LAYOUT_MAX - (m.memo_top - m.memo_bottom)
  BY DefragInv, DefragSame
<1>2. /\ ~ NoMemoRoom(d, base) => PushMemo(m, memo).ok = TRUE /\ PushMemo(m, memo).m = q
      /\ NoMemoRoom(d, base) => PushMemo(m, memo).ok = FALSE
  BY DEF PushMemo
<1> HIDE DEF d, map
<1>3. len \in Nat  OBVIOUS
<1>4. d.layout_top = m.layout_top  BY <1>1 DEF SameStack
<1>5. CASE NoMemoRoom(d, base)
  BY <1>1, <1>2, <1>4, <1>5 DEF NoMemoRoom
<1>6. CASE ~ NoMemoRoom(d, base)
  <2>1. ~ (base <= m.layout_top)  BY <1>4, <1>6 DEF NoMemoRoom
  <2>2. ASSUME NEW a \in Live(m) PROVE map[a] = d.mapping[a]
    <3>1. a \in Addr /\ a \in Int /\ a < m.layout_top  BY LiveBelow
    <3>2. ~ (a >= base) /\ a # d.memo_bottom - 1  BY <1>1, <1>3, <2>1, <3>1
    <3> QED BY <3>1, <3>2 DEF map
  <2>3. /\ q.mapping = map /\ q.layout_top = d.layout_top /\ q.macro_stack = base
        /\ q.memo_bottom = base /\ q.memo_top = d.memo_top
        /\ q.active_comp_part_layers = d.active_comp_part_layers
        /\ q.active_comp_count = d.active_comp_count
    <3> HIDE DEF base
    <3> QED BY <1>1 DEF Manager
  <2> HIDE DEF q
  <2>4. SameStack(m, q)  BY <1>1, <2>2, <2>3 DEF SameStack
  <2> QED BY <1>1, <1>2, <1>6, <2>3, <2>4
<1> QED BY <1>5, <1>6

LEMMA UpdateMacroSame ==
  ASSUME NEW m \in Manager, MemoryInv(m), NEW mac, NEW u, u = UpdateMacro(m, mac)
  PROVE  /\ SameStack(m, u) /\ u.macro_stack = m.macro_stack
         /\ u.memo_bottom = m.memo_bottom /\ u.memo_top = m.memo_top
<1> USE Bounds, Fields
<1>1. CASE mac = Noop  BY <1>1 DEF UpdateMacro, SameStack
<1>2. CASE mac # Noop
  <2> DEFINE map == [m.mapping EXCEPT ![m.macro_stack] = mac.mode,
                                      ![m.macro_stack + 1] = mac.location,
                                      ![m.macro_stack + 2] = mac.rem]
  <2>1. ASSUME NEW a \in Live(m) PROVE map[a] = m.mapping[a]
    <3>1. a \in Addr /\ a \in Int /\ a < m.macro_stack  BY LiveBelow
    <3>2. a # m.macro_stack /\ a # m.macro_stack + 1 /\ a # m.macro_stack + 2  BY <3>1
    <3> QED BY <3>1, <3>2
  <2> HIDE DEF map
  <2>2. u = [m EXCEPT !.mapping = map]  BY <1>2 DEF UpdateMacro, Manager, map
  <2>3. /\ u.mapping = map /\ u.layout_top = m.layout_top /\ u.macro_stack = m.macro_stack
        /\ u.memo_bottom = m.memo_bottom /\ u.memo_top = m.memo_top
        /\ u.active_comp_part_layers = m.active_comp_part_layers
        /\ u.active_comp_count = m.active_comp_count
    BY <2>2 DEF Manager
  <2> QED BY <2>1, <2>3 DEF SameStack
<1> QED BY <1>1, <1>2

LEMMA PushMacroSame ==
  ASSUME NEW m \in Manager, MemoryInv(m), NEW mac \in MacroType,
         DefragStack(m).macro_stack - DefragStack(m).layout_top > 3,
         NEW r, r = PushMacro(m, mac)
  PROVE  /\ SameStack(m, r)
         /\ r.macro_stack = LAYOUT_MAX - (m.memo_top - m.macro_stack) - 3
         /\ r.memo_bottom = LAYOUT_MAX - (m.memo_top - m.memo_bottom)
         /\ r.memo_top = LAYOUT_MAX
<1> USE Bounds, Fields
<1> DEFINE d == DefragStack(m)
           ms == d.macro_stack - 3
           s == [d EXCEPT !.macro_stack = ms]
<1>1. /\ d \in Manager /\ MemoryInv(d) /\ SameStack(m, d) /\ d.memo_top = LAYOUT_MAX
      /\ d.macro_stack = LAYOUT_MAX - (m.memo_top - m.macro_stack)
      /\ d.memo_bottom = LAYOUT_MAX - (m.memo_top - m.memo_bottom)
  BY DefragInv, DefragSame
<1>2. r = UpdateMacro(s, mac)  BY DEF PushMacro
<1>3. ms > d.layout_top  BY <1>1
<1> HIDE DEF d
<1>4. ms \in Int  BY <1>1
<1> HIDE DEF ms
<1>5. s \in Manager  BY <1>1, <1>4 DEF Manager
<1>6. /\ s.mapping = d.mapping /\ s.layout_top = d.layout_top /\ s.macro_stack = ms
      /\ s.memo_bottom = d.memo_bottom /\ s.memo_top = d.memo_top
      /\ s.active_comp_part_layers = d.active_comp_part_layers
      /\ s.active_comp_count = d.active_comp_count
  BY <1>1 DEF Manager
<1> HIDE DEF s
<1>7. MemoryInv(s)
  <2>1. Ordered(s)  BY <1>1, <1>3, <1>4, <1>6 DEF MemoryInv, Ordered, ms
  <2>2. WholeSlots(s)
    <3>1. PICK k \in Nat : d.memo_bottom = d.macro_stack + 3 * k
      BY <1>1 DEF MemoryInv, WholeSlots
    <3>2. s.memo_bottom = s.macro_stack + 3 * (k + 1) /\ k + 1 \in Nat
      BY <1>1, <1>6, <3>1 DEF ms
    <3> QED BY <3>2 DEF WholeSlots
  <2>3. MemoChain(s)  BY <1>1, <1>5, <1>6, ChainKept DEF MemoryInv
  <2> QED BY <2>1, <2>2, <2>3 DEF MemoryInv
<1>8. SameStack(d, s)  BY <1>6 DEF SameStack
<1>9. /\ SameStack(s, r) /\ r.macro_stack = s.macro_stack
      /\ r.memo_bottom = s.memo_bottom /\ r.memo_top = s.memo_top
  BY <1>2, <1>5, <1>7, UpdateMacroSame
<1>10. SameStack(m, r)  BY <1>1, <1>8, <1>9, SameStackTransitive
<1> QED BY <1>1, <1>6, <1>9, <1>10 DEF ms

\* pop_memo and pop_macro move one pointer.
LEMMA PopSame ==
  ASSUME NEW m \in Manager
  PROVE  /\ m.memo_bottom # m.memo_top =>
              /\ SameStack(m, PopMemo(m).m)
              /\ PopMemo(m).m.macro_stack = m.macro_stack
              /\ PopMemo(m).m.memo_bottom = m.memo_bottom
         /\ SameStack(m, PopMacro(m).m)
         /\ PopMacro(m).m.macro_stack = m.macro_stack + 3
         /\ PopMacro(m).m.memo_bottom = m.memo_bottom
         /\ PopMacro(m).m.memo_top = m.memo_top
<1>1. ASSUME NEW x PROVE SameStack(m, [m EXCEPT !.memo_top = x])
                          /\ SameStack(m, [m EXCEPT !.macro_stack = x])
  BY DEF SameStack, Manager
<1> QED BY <1>1 DEF PopMemo, PopMacro, Manager

\* setlayout replaces the base.
LEMMA SetLayoutParts ==
  ASSUME BasesApart, NEW m \in Manager, PartsInv(m), Based(m), NEW w \in BaseLayers
  PROVE  /\ PartsInv(SetLayout(m, w)) /\ Based(SetLayout(m, w))
         /\ Live(SetLayout(m, w)) = Live(m)
         /\ \A a \in Live(m) : a # layout_bottom => SetLayout(m, w).mapping[a] = m.mapping[a]
         /\ \A l \in part_layers \cup Composites :
              l \in ActiveLayers(SetLayout(m, w)) <=> l \in ActiveLayers(m)
<1> USE Bounds, Fields
<1> DEFINE s == SetLayout(m, w)
<1>1. w \in 0..255 /\ LayerOf(w) = w /\ w \in Bases
  <2>1. BaseLayers \subseteq 0..255  BY CallsAssumption
  <2>2. w \in 0..255  BY <2>1
  <2>3. LayerOf(w) = w  BY ONLY <2>2 DEF LayerOf
  <2> QED BY <2>2, <2>3 DEF Bases
<1>2. layout_bottom \in Live(m) /\ layout_bottom \in Addr
  BY DEF Based, Live, Addr
<1>3. /\ s.layout_top = m.layout_top
      /\ s.active_comp_part_layers = m.active_comp_part_layers
      /\ s.active_comp_count = m.active_comp_count
      /\ s.mapping = [m.mapping EXCEPT ![layout_bottom] = w]
  BY DEF SetLayout, Manager
<1> HIDE DEF s
<1>4. s.mapping[layout_bottom] = w  BY <1>2, <1>3
<1>5. \A a : a # layout_bottom => s.mapping[a] = m.mapping[a]
  <2>1. ASSUME NEW a, a # layout_bottom PROVE s.mapping[a] = m.mapping[a]
    BY <1>3, <2>1
  <2> QED BY <2>1
<1>6. Live(s) = Live(m)  BY <1>3 DEF Live
<1>7. ASSUME NEW l \in part_layers \cup Composites
      PROVE  l \in ActiveLayers(s) <=> l \in ActiveLayers(m)
  <2>1. l \notin Bases  BY DEF BasesApart
  <2>2. LayerOf(s.mapping[layout_bottom]) # l /\ LayerOf(m.mapping[layout_bottom]) # l
    BY <1>1, <1>4, <2>1 DEF Based
  <2> QED BY <1>5, <1>6, <2>2, ActiveIs
<1>8. PartsInv(s)  BY <1>3, <1>7 DEF PartsInv
<1>9. Based(s)  BY <1>1, <1>3, <1>4 DEF Based
<1> QED BY <1>5, <1>6, <1>7, <1>8, <1>9 DEF s

-----------------------------------------------------------------------------
(***************************************************************************)
(* How large things grow, and what a step does to the stack.               *)
(***************************************************************************)
\* Nothing clears the stack behind the bitmap: none of the calls that do, and no memo
\* is refused (which clears everything) because a macro runs.
StackCalls ==
  /\ Calls \cap {"clear_all", "clear_layers", "clear_modifier_layers",
                 "push_macro_without_slot"} = {}
  /\ "push_memo" \notin Calls \/ "push_macro" \notin Calls

\* The memory behind the layout holds everything that is pushed at once.
StackRoom ==
  LAYOUT_MAX - layout_bottom >=
    MaxLayers + Cardinality(Composites) + 6 * MaxMemos + 3 * MaxFrames + 7

Sizes ==
  /\ mgr.layout_top - layout_bottom <= MaxLayers + Cardinality(Composites) + 1
  /\ mgr.memo_top - mgr.memo_bottom <= 6 * MaxMemos + 5
  /\ LAYOUT_MAX - mgr.macro_stack <= 6 * MaxMemos + 3 * MaxFrames + 5
  /\ "push_macro" \notin Calls => macro_running = Noop /\ mgr.memo_bottom = mgr.macro_stack

\* What a step does to the stack.
PushStep == \E w \in PushLayers : Push(w)
PopStep == \E w \in PushLayers : mgr' = PopLayer(mgr, LayerOf(w)).m
BaseStep == \E w \in BaseLayers : mgr' = SetLayout(mgr, w)
StackStep == PushStep \/ PopStep \/ BaseStep \/ SameStack(mgr, mgr')

LEMMA SizeBounds ==
  /\ Cardinality(Composites) \in Nat
  /\ MaxLayers \in Nat /\ MaxMemos \in Nat /\ MaxFrames \in Nat
<1>1. IsFiniteSet(Composites)  BY Bounds, FS_Interval DEF Composites
<1> QED BY <1>1, FS_CardinalityType, CallsAssumption

LEMMA SizesInit == Init => Sizes
<1> SUFFICES ASSUME Init PROVE Sizes
  OBVIOUS
<1>1. IInv  BY InitInv
<1>2. /\ mgr.layout_top = layout_bottom + 1 /\ mgr.macro_stack = LAYOUT_MAX
      /\ mgr.memo_bottom = LAYOUT_MAX /\ mgr.memo_top = LAYOUT_MAX
  BY DEF Init, Loaded, ClearAll, ClearLayers, SetLayout
<1> QED BY <1>2, SizeBounds, Bounds DEF Sizes, Init

LEMMA StackSteps ==
  ASSUME StackCalls, StackRoom, IInv, Sizes, [Next]_vars
  PROVE  Sizes' /\ StackStep
<1> USE Bounds, SizeBounds
<1>0. /\ mgr \in Manager /\ MemoryInv(mgr) /\ macro_running \in MacroType
      /\ macro_running # Noop => mgr.memo_bottom > mgr.macro_stack
  BY DEF IInv, TypeOK, MacroType
<1>f. /\ mgr.layout_top \in Int /\ mgr.macro_stack \in Int
      /\ mgr.memo_bottom \in Int /\ mgr.memo_top \in Int
  BY <1>0, Fields
<1>i. IInv' /\ mgr' \in Manager
  <2>1. SafeCalls  BY DEF StackCalls, SafeCalls
  <2>2. IInv'  BY <2>1, StepInv
  <2> QED BY <2>2 DEF IInv, TypeOK
<1>g. /\ mgr'.layout_top \in Int /\ mgr'.macro_stack \in Int
      /\ mgr'.memo_bottom \in Int /\ mgr'.memo_top \in Int
  BY <1>i, Fields
<1>s. ASSUME NEW m \in Manager PROVE SameStack(m, m)
  BY DEF SameStack
\* A step that leaves the memory and the running macro alone only grows the layers.
<1>m. ASSUME SameMemory(mgr, mgr'), UNCHANGED macro_running,
             mgr'.layout_top - layout_bottom <= MaxLayers + Cardinality(Composites) + 1
      PROVE  Sizes'
  BY <1>m DEF Sizes, SameMemory
<1>n. ASSUME NEW m \in Manager, SameStack(mgr, m), mgr' = m,
             m.memo_top - m.memo_bottom <= 6 * MaxMemos + 5,
             LAYOUT_MAX - m.macro_stack <= 6 * MaxMemos + 3 * MaxFrames + 5,
             "push_macro" \notin Calls => macro_running' = Noop /\ m.memo_bottom = m.macro_stack
      PROVE  Sizes' /\ StackStep
  BY <1>n DEF Sizes, SameStack, StackStep
<1>1. CASE UNCHANGED vars
  <2>1. SameStack(mgr, mgr')  BY <1>0, <1>1, <1>s DEF vars
  <2> QED BY <1>1, <2>1 DEF vars, Sizes, StackStep
<1>2. ASSUME NEW n \in PushLayers, Push(n) \/ Pop(LayerOf(n)) PROVE Sizes' /\ StackStep
  <2>1. n \in Nat /\ LayerOf(n) \in Nat  BY CallsAssumption DEF LayerOf
  <2>2. CASE Push(n)
    <3>1. /\ mgr' = PushLayer(mgr, n).m /\ UNCHANGED macro_running
          /\ mgr.layout_top - layout_bottom < MaxLayers
      BY <2>2 DEF Push
    <3>2. SameMemory(mgr, mgr')  BY <1>0, <2>1, <3>1, PushLayerInv
    <3>3. mgr'.layout_top <= mgr.layout_top + 1 + Cardinality(Composites)
      <4>1. CASE StackFull(mgr) \/ LayerOf(n) >= macro_dir_base
        <5>1. mgr' = mgr  BY <3>1, <4>1 DEF PushLayer
        <5> QED BY <1>f, <5>1
      <4>2. CASE ~ (StackFull(mgr) \/ LayerOf(n) >= macro_dir_base)
        <5>1. ~ StackFull(mgr) /\ LayerOf(n) < macro_dir_base
          <6> DEFINE l == LayerOf(n)
          <6> HIDE DEF l
          <6>1. l \in Nat /\ ~ (l >= macro_dir_base)  BY <2>1, <4>2 DEF l
          <6>2. l < macro_dir_base  BY <6>1
          <6> QED BY <4>2, <6>2 DEF l
        <5>2. Pushed(mgr, n, mgr')  BY <1>0, <2>1, <3>1, <5>1, PushedStack
        <5>3. mgr'.layout_top <= mgr.layout_top + 1 + Cardinality(Brings(mgr, n))
          BY <5>2 DEF Pushed
        <5>4. /\ Cardinality(Brings(mgr, n)) \in Nat
              /\ Cardinality(Brings(mgr, n)) <= Cardinality(Composites)
          BY <1>0, <2>1, BringsFinite
        <5> QED BY <1>f, <1>g, <5>3, <5>4
      <4> QED BY <4>1, <4>2
    <3>4. mgr'.layout_top - layout_bottom <= MaxLayers + Cardinality(Composites) + 1
      BY <1>f, <1>g, <3>1, <3>3
    <3>5. PushStep  BY <2>2 DEF PushStep
    <3> QED BY <1>m, <3>1, <3>2, <3>4, <3>5 DEF StackStep
  <2>3. CASE Pop(LayerOf(n))
    <3>1. mgr' = PopLayer(mgr, LayerOf(n)).m /\ UNCHANGED macro_running
      BY <2>3 DEF Pop
    <3>2. SameMemory(mgr, mgr')  BY <1>0, <2>1, <3>1, PopLayerInv
    <3>3. mgr'.layout_top <= mgr.layout_top
      <4> DEFINE l == LayerOf(n)
      <4> HIDE DEF l
      <4>1. CASE Finds(mgr, l)
        <5>1. Popped(mgr, l, mgr')  BY <1>0, <2>1, <3>1, <4>1, PoppedStack DEF l
        <5> QED BY <5>1 DEF Popped, Kept
      <4>2. CASE ~ Finds(mgr, l)
        <5>1. Occurrences(mgr, l, mgr.layout_top) = {} \/ l >= macro_dir_base
          <6>1. l \in Nat  BY <2>1 DEF l
          <6> QED BY <4>2, <6>1 DEF Finds
        <5>2. mgr' = PopLayer(mgr, l).m  BY <3>1 DEF l
        <5>3. mgr' = mgr  BY <5>1, <5>2 DEF PopLayer
        <5> QED BY <1>f, <5>3
      <4> QED BY <4>1, <4>2
    <3>4. mgr'.layout_top - layout_bottom <= MaxLayers + Cardinality(Composites) + 1
      BY <1>f, <1>g, <3>3 DEF Sizes
    <3>5. PopStep  BY <3>1 DEF PopStep
    <3> QED BY <1>m, <3>1, <3>2, <3>4, <3>5 DEF StackStep
  <2> QED BY <1>2, <2>2, <2>3
<1>3. ASSUME NEW n \in BaseLayers, SetBase(n) PROVE Sizes' /\ StackStep
  <2>1. n \in Nat  BY CallsAssumption
  <2>2. mgr' = SetLayout(mgr, n) /\ UNCHANGED macro_running  BY <1>3 DEF SetBase
  <2>3. SameMemory(mgr, mgr')  BY <1>0, <2>1, <2>2, BaseInv
  <2>4. mgr'.layout_top = mgr.layout_top  BY <1>0, <2>2 DEF SetLayout, Manager
  <2>5. BaseStep  BY <2>2 DEF BaseStep
  <2> QED BY <1>m, <2>2, <2>3, <2>4, <2>5 DEF StackStep, Sizes
<1>4. CASE ClearEverything \/ ClearToBase \/ ClearModifiers \/ ClearModifiersPanics
  BY <1>4 DEF ClearEverything, ClearToBase, ClearModifiers, ClearModifiersPanics, May, StackCalls
<1>5. ASSUME NEW memo \in Memos, PutOff(memo) PROVE Sizes' /\ StackStep
  <2>1. memo \in Seq(Nat) /\ Len(memo) \in {2, 5} /\ Len(memo) \in Int  BY CallsAssumption
  <2>2. "push_macro" \notin Calls /\ mgr.memo_top - mgr.memo_bottom < MaxMemos * 6
    BY <1>5 DEF PutOff, May, StackCalls
  <2>3. macro_running = Noop /\ mgr.memo_bottom = mgr.macro_stack  BY <2>2 DEF Sizes
  <2> DEFINE len == Len(memo)
  <2>4. len \in Int /\ len <= 5 /\ len >= 2
    <3>1. len = 2 \/ len = 5  BY <2>1
    <3> HIDE DEF len
    <3> QED BY <3>1
  <2> HIDE DEF len
  <2>5. mgr.layout_top <= layout_bottom + MaxLayers + Cardinality(Composites) + 1
    BY <1>f DEF Sizes
  <2>6. PushMemo(mgr, memo).ok
    <3>1. ~ (LAYOUT_MAX - (mgr.memo_top - mgr.memo_bottom) - len - 1 <= mgr.layout_top)
      BY <1>f, <2>2, <2>4, <2>5 DEF StackRoom
    <3>2. \/ PushMemo(mgr, memo).ok
          \/ mgr.macro_stack # mgr.memo_bottom
          \/ LAYOUT_MAX - (mgr.memo_top - mgr.memo_bottom) - len - 1 <= mgr.layout_top
      BY <1>0, <2>1, PushMemoSame DEF len
    <3> QED BY <2>3, <3>1, <3>2
  <2>7. mgr' = PushMemo(mgr, memo).m /\ UNCHANGED macro_running  BY <1>5, <2>6 DEF PutOff
  <2>8. /\ SameStack(mgr, mgr') /\ mgr'.macro_stack = mgr'.memo_bottom
        /\ mgr'.memo_top = LAYOUT_MAX
        /\ mgr'.memo_bottom = LAYOUT_MAX - (mgr.memo_top - mgr.memo_bottom) - len - 1
    BY <1>0, <2>1, <2>6, <2>7, PushMemoSame DEF len
  <2>9. /\ mgr'.memo_top - mgr'.memo_bottom <= 6 * MaxMemos + 5
        /\ LAYOUT_MAX - mgr'.macro_stack <= 6 * MaxMemos + 3 * MaxFrames + 5
    BY <1>f, <1>g, <2>2, <2>4, <2>8
  <2> QED BY <1>i, <1>n, <2>3, <2>7, <2>8, <2>9
<1>6. CASE RunMemo
  <2>1. mgr.memo_bottom # mgr.memo_top /\ macro_running = Noop  BY <1>6 DEF RunMemo
  <2>2. mgr.mapping[mgr.memo_top - 1] \in {2, 5}
    BY <1>0, <2>1 DEF MemoryInv, MemoChain, Chained
  <2>3. mgr' = PopMemo(mgr).m /\ UNCHANGED macro_running
    BY <1>6, <2>2 DEF RunMemo
  <2>4. /\ SameStack(mgr, mgr') /\ mgr'.macro_stack = mgr.macro_stack
        /\ mgr'.memo_bottom = mgr.memo_bottom
    BY <1>0, <2>1, <2>3, PopSame
  <2>5. mgr'.memo_top <= mgr.memo_top
    <3>1. mgr'.memo_top = mgr.memo_top - 1 - mgr.mapping[mgr.memo_top - 1]
      BY <1>0, <2>1, <2>3 DEF PopMemo, Manager
    <3> QED BY <1>f, <2>2, <3>1
  <2>6. /\ mgr'.memo_top - mgr'.memo_bottom <= 6 * MaxMemos + 5
        /\ LAYOUT_MAX - mgr'.macro_stack <= 6 * MaxMemos + 3 * MaxFrames + 5
    BY <1>f, <1>g, <2>4, <2>5 DEF Sizes
  <2> QED BY <1>i, <1>n, <2>3, <2>4, <2>6 DEF Sizes
<1>7. ASSUME NEW mac \in Macros, CallMacro(mac) PROVE Sizes' /\ StackStep
  <2>1. mac \in MacroType  BY CallsAssumption DEF MacroType
  <2>2. SlotRoom /\ "push_macro" \in Calls  BY <1>7 DEF CallMacro, May, StackCalls
  <2>3. mgr.memo_bottom - mgr.macro_stack < 3 * MaxFrames
    BY <1>7 DEF CallMacro, MacroWords
  <2>4. ~ UpdateMacroPanics(mgr, macro_running)
    <3>1. macro_running # Noop => mgr.macro_stack + 3 <= LAYOUT_MAX
      BY <1>0, <1>f, SlotIsWhole DEF MemoryInv, Ordered
    <3> QED BY <1>0, <1>f, <3>1 DEF UpdateMacroPanics
  <2> DEFINE u == UpdateMacro(mgr, macro_running)
  <2>5. mgr' = PushMacro(u, mac)  BY <1>7, <2>4 DEF CallMacro
  <2>6. /\ u \in Manager /\ MemoryInv(u) /\ SameStack(mgr, u)
        /\ u.macro_stack = mgr.macro_stack
        /\ u.memo_bottom = mgr.memo_bottom /\ u.memo_top = mgr.memo_top
    BY <1>0, UpdateMacroInv, UpdateMacroSame
  <2> HIDE DEF u
  <2>7. DefragStack(u).macro_stack - DefragStack(u).layout_top > 3
    <3>1. DefragStack(u).macro_stack = DefragStack(mgr).macro_stack
      BY <1>0, <2>6, DefragSame
    <3>2. DefragStack(u).layout_top = mgr.layout_top
      BY <2>6, DefragSame DEF SameStack
    <3> QED BY <2>2, <3>1, <3>2 DEF SlotRoom
  <2>8. /\ SameStack(u, mgr')
        /\ mgr'.macro_stack = LAYOUT_MAX - (u.memo_top - u.macro_stack) - 3
        /\ mgr'.memo_bottom = LAYOUT_MAX - (u.memo_top - u.memo_bottom)
        /\ mgr'.memo_top = LAYOUT_MAX
    BY <2>1, <2>5, <2>6, <2>7, PushMacroSame
  <2>9. SameStack(mgr, mgr')  BY <2>6, <2>8, SameStackTransitive
  <2>10. mgr.memo_bottom - mgr.macro_stack + 3 <= 3 * MaxFrames
    <3>1. PICK k \in Nat : mgr.memo_bottom = mgr.macro_stack + 3 * k
      BY <1>0 DEF MemoryInv, WholeSlots
    <3>2. mgr.memo_bottom - mgr.macro_stack = 3 * k  BY <1>f, <3>1
    <3> QED BY <2>3, <3>2
  <2>11. /\ mgr'.memo_top - mgr'.memo_bottom <= 6 * MaxMemos + 5
         /\ LAYOUT_MAX - mgr'.macro_stack <= 6 * MaxMemos + 3 * MaxFrames + 5
    BY <1>f, <1>g, <2>6, <2>8, <2>10 DEF Sizes
  <2> QED BY <1>i, <1>n, <2>2, <2>9, <2>11
<1>8. CASE AdvanceMacro
  <2>1. UNCHANGED mgr /\ macro_running # Noop  BY <1>8 DEF AdvanceMacro
  <2>2. SameStack(mgr, mgr')  BY <1>0, <2>1, <1>s
  <2>3. "push_macro" \in Calls  BY <2>1 DEF Sizes
  <2> QED BY <2>1, <2>2, <2>3 DEF Sizes, StackStep
<1>9. CASE ReturnMacro
  <2>1. mgr.memo_bottom > mgr.macro_stack /\ "push_macro" \in Calls
    BY <1>0, <1>9 DEF ReturnMacro, Sizes
  <2>2. mgr.macro_stack + 3 <= mgr.memo_bottom  BY <1>0, <2>1, SlotIsWhole
  <2>3. mgr' = PopMacro(mgr).m
    BY <1>9, <1>f, <2>2 DEF ReturnMacro, PopMacroPanics
  <2>4. /\ SameStack(mgr, mgr') /\ mgr'.macro_stack = mgr.macro_stack + 3
        /\ mgr'.memo_bottom = mgr.memo_bottom /\ mgr'.memo_top = mgr.memo_top
    BY <1>0, <2>3, PopSame
  <2>5. /\ mgr'.memo_top - mgr'.memo_bottom <= 6 * MaxMemos + 5
        /\ LAYOUT_MAX - mgr'.macro_stack <= 6 * MaxMemos + 3 * MaxFrames + 5
    BY <1>f, <1>g, <2>4 DEF Sizes
  <2> QED BY <1>i, <1>n, <2>1, <2>4, <2>5
<1> QED BY <1>1, <1>2, <1>3, <1>4, <1>5, <1>6, <1>7, <1>8, <1>9 DEF Next

-----------------------------------------------------------------------------
(***************************************************************************)
(* The bitmap is exact.                                                    *)
(***************************************************************************)
PInv == IInv /\ Sizes /\ PartsInv(mgr) /\ Based(mgr)

LEMMA PartsInit == ASSUME BasesApart PROVE Init => PInv
<1> SUFFICES ASSUME Init PROVE PInv
  OBVIOUS
<1> USE Bounds
<1>1. IInv /\ Sizes  BY InitInv, SizesInit
<1>2. mgr \in Manager  BY <1>1 DEF IInv, TypeOK
<1>3. /\ mgr.layout_top = layout_bottom + 1 /\ mgr.mapping[layout_bottom] = MAIN_BASE
      /\ mgr.active_comp_part_layers = {} /\ mgr.active_comp_count = 0
  <2>1. layout_bottom \in Addr  BY DEF Addr
  <2> QED BY <2>1 DEF Init, Loaded, ClearAll, ClearLayers, SetLayout
<1>4. LayerOf(mgr.mapping[layout_bottom]) \in Bases /\ LayerOf(mgr.mapping[layout_bottom]) = MAIN_BASE
  BY <1>3 DEF LayerOf, MAIN_BASE, Bases
<1>5. Live(mgr) = {layout_bottom}  BY <1>3 DEF Live
<1>6. \A l : l \in ActiveLayers(mgr) => l = MAIN_BASE  BY <1>4, <1>5, ActiveIs
<1>7. MAIN_BASE \notin part_layers  BY DEF BasesApart, Bases
<1>8. ActiveLayers(mgr) \cap part_layers = {}  BY <1>6, <1>7
<1>9. PartsInv(mgr)  BY <1>3, <1>8, FS_EmptySet DEF PartsInv
<1> QED BY <1>1, <1>3, <1>4, <1>9 DEF PInv, Based

\* What is pushed and popped is neither a base layer nor a composite.
LEMMA PushedWord ==
  ASSUME BasesApart, NEW w \in PushLayers
  PROVE  w \in Nat /\ LayerOf(w) \in Nat /\ LayerOf(w) \notin Composites \cup Bases
BY CallsAssumption DEF BasesApart, LayerOf

LEMMA PartsStep ==
  ASSUME StackCalls, StackRoom, BasesApart, PInv, [Next]_vars
  PROVE  PInv'
<1>1. /\ mgr \in Manager /\ MemoryInv(mgr) /\ PartsInv(mgr) /\ Based(mgr)
      /\ IInv /\ Sizes
  BY DEF PInv, IInv, TypeOK
<1>2. Sizes' /\ StackStep  BY <1>1, StackSteps
<1>3. IInv'
  <2>1. SafeCalls  BY DEF StackCalls, SafeCalls
  <2> QED BY <1>1, <2>1, StepInv
<1>4. PartsInv(mgr') /\ Based(mgr')
  <2>1. CASE PushStep
    <3>1. PICK w \in PushLayers : mgr' = PushLayer(mgr, w).m  BY <2>1 DEF PushStep, Push
    <3> QED BY <1>1, <3>1, PushedWord, PushParts
  <2>2. CASE PopStep
    <3>1. PICK w \in PushLayers : mgr' = PopLayer(mgr, LayerOf(w)).m  BY <2>2 DEF PopStep
    <3>2. LayerOf(w) \in Nat /\ LayerOf(w) \notin Bases  BY PushedWord
    <3> QED BY <1>1, <3>1, <3>2, PopParts
  <2>3. CASE BaseStep
    <3>1. PICK w \in BaseLayers : mgr' = SetLayout(mgr, w)  BY <2>3 DEF BaseStep
    <3> QED BY <1>1, <3>1, SetLayoutParts
  <2>4. CASE SameStack(mgr, mgr')  BY <1>1, <2>4, SameStackLayers
  <2> QED BY <1>2, <2>1, <2>2, <2>3, <2>4 DEF StackStep
<1>5. (PartsInv(mgr) /\ Based(mgr))'  BY <1>4 DEF PartsInv, Based, ActiveLayers
<1> QED BY <1>2, <1>3, <1>5 DEF PInv

LEMMA PartsInvariance ==
  ASSUME StackCalls, StackRoom, BasesApart PROVE Spec => []PInv
<1>1. Init => PInv  BY PartsInit
<1>2. PInv /\ [Next]_vars => PInv'  BY PartsStep
<1> QED BY <1>1, <1>2, PTL DEF Spec

\* The bitmap of active parts and its count say what is on the stack, however often
\* a part is activated, and also when a composite finds no room.
THEOREM PartsAreExact ==
  ASSUME StackCalls, StackRoom, BasesApart PROVE Spec => []PartsExact
<1>1. PInv => PartsExact  BY DEF PInv, PartsInv, PartsExact
<1> QED BY <1>1, PartsInvariance, PTL

-----------------------------------------------------------------------------
(***************************************************************************)
(* The composites.                                                         *)
(***************************************************************************)
\* Every composite has two parts or more, and composites come by number of parts:
\* push_layer stops looking at the first that has more parts than are active.
CompositesOrdered ==
  /\ \A c \in Composites : Cardinality(composite_bitmap[c]) >= 2
  /\ \A c, d \in Composites :
       c <= d => Cardinality(composite_bitmap[c]) <= Cardinality(composite_bitmap[d])

\* CompositeActive, of one manager.
Follows(m) ==
  \A c \in Composites : c \in ActiveLayers(m) <=> composite_bitmap[c] \subseteq ActiveLayers(m)

\* Once on the stack, and above an activation of every part.
Once(m) ==
  \A a, b \in Live(m) :
    /\ LayerOf(m.mapping[a]) \in Composites
    /\ LayerOf(m.mapping[b]) = LayerOf(m.mapping[a])
    => a = b

PartsBelow(m) ==
  \A a \in Live(m) : LayerOf(m.mapping[a]) \in Composites =>
    \A q \in composite_bitmap[LayerOf(m.mapping[a])] :
      \E d \in Live(m) : d < a /\ LayerOf(m.mapping[d]) = q

CompositesInv(m) == Follows(m) /\ Once(m) /\ PartsBelow(m)

LEMMA PartsOfComposite ==
  ASSUME NEW c \in Composites
  PROVE  /\ composite_bitmap[c] \in SUBSET part_layers
         /\ IsFiniteSet(composite_bitmap[c]) /\ Cardinality(composite_bitmap[c]) \in Nat
<1>1. composite_bitmap[c] \in SUBSET part_layers  BY LayoutAssumption DEF Composites
<1> QED BY <1>1, PartsFinite

\* The parts of a composite are active when the bitmap has them.
LEMMA PartsInBitmap ==
  ASSUME NEW m, PartsInv(m), NEW c \in Composites
  PROVE  composite_bitmap[c] \subseteq ActiveLayers(m)
           <=> composite_bitmap[c] \subseteq m.active_comp_part_layers
BY PartsOfComposite DEF PartsInv

\* A composite is brought in exactly when the pushed layer completes it.
LEMMA BringsCompleted ==
  ASSUME CompositesOrdered, NEW m \in Manager, PartsInv(m), NEW w \in Nat,
         NEW new, new = IF FreshPart(m, LayerOf(w))
                        THEN m.active_comp_part_layers \cup {LayerOf(w)}
                        ELSE m.active_comp_part_layers,
         NEW c \in Composites
  PROVE  c \in Brings(m, w) <=> /\ composite_bitmap[c] \subseteq new
                                /\ ~ composite_bitmap[c] \subseteq m.active_comp_part_layers
<1> DEFINE n == LayerOf(w)
           old == m.active_comp_part_layers
           count == m.active_comp_count + 1
<1>1. old \in SUBSET part_layers /\ IsFiniteSet(old) /\ Cardinality(old) \in Nat
      /\ m.active_comp_count = Cardinality(old)
  BY Fields, PartsFinite DEF PartsInv
<1>2. c \in Brings(m, w) => /\ FreshPart(m, n) /\ composite_bitmap[c] \subseteq old \cup {n}
                            /\ ~ composite_bitmap[c] \subseteq old
  BY DEF Brings, Completed
<1>3. ASSUME composite_bitmap[c] \subseteq new, ~ composite_bitmap[c] \subseteq old
      PROVE  c \in Brings(m, w)
  <2>1. FreshPart(m, n) /\ new = old \cup {n}  BY <1>3
  <2> HIDE DEF n, old
  <2>2. n \notin old /\ n \in part_layers  BY <2>1 DEF FreshPart, old
  <2>3. IsFiniteSet(old \cup {n}) /\ Cardinality(old \cup {n}) = Cardinality(old) + 1
    BY <1>1, <2>2, FS_AddElement
  <2>4. \A d \in Composites : Cardinality(composite_bitmap[d]) \in Nat
    BY PartsOfComposite
  <2>5. Cardinality(composite_bitmap[c]) <= Cardinality(old) + 1
    BY <1>3, <2>1, <2>3, FS_Subset
  <2>6. Cardinality(composite_bitmap[c]) >= 2  BY DEF CompositesOrdered
  <2>7. \A d \in Composites :
          d <= c => Cardinality(composite_bitmap[d]) <= Cardinality(composite_bitmap[c])
    BY DEF CompositesOrdered
  <2>8. count > 1  BY <1>1, <2>4, <2>5, <2>6
  <2>9. \A d \in Composites : d < c => Cardinality(composite_bitmap[d]) <= count
    <3> SUFFICES ASSUME NEW d \in Composites, d < c
                 PROVE  Cardinality(composite_bitmap[d]) <= count
      OBVIOUS
    <3>1. d <= c  BY CompositeWord
    <3>2. Cardinality(composite_bitmap[d]) <= Cardinality(composite_bitmap[c])
      BY <2>7, <3>1
    <3> QED BY <1>1, <2>4, <2>5, <3>2
  <2>10. c \in Completed(old, old \cup {n}, count)
    BY <1>3, <2>1, <2>9 DEF Completed
  <2> QED BY <2>1, <2>8, <2>10 DEF Brings, n, old
<1> QED BY <1>2, <1>3

\* push_layer brings in what it completes, above the parts.
LEMMA PushComposites ==
  ASSUME CompositesOrdered, NEW m \in Manager, MemoryInv(m), PartsInv(m), CompositesInv(m),
         NEW w \in Nat, LayerOf(w) \notin Composites, NEW p, p = PushLayer(m, w).m, PartsInv(p),
         Cardinality(Composites) <= m.macro_stack - m.layout_top - 2
  PROVE  CompositesInv(p)
<1> DEFINE n == LayerOf(w)
           top == m.layout_top
           old == m.active_comp_part_layers
           parts == IF FreshPart(m, n) THEN old \cup {n} ELSE old
<1>0. n \in Nat /\ macro_dir_base \in Nat  BY Bounds DEF LayerOf
<1>1. CASE StackFull(m) \/ n >= macro_dir_base
  <2>1. p = m  BY <1>1 DEF PushLayer
  <2> QED BY <2>1
<1>2. CASE ~ (StackFull(m) \/ n >= macro_dir_base)
  <2>1. ~ StackFull(m) /\ n < macro_dir_base
    <3> HIDE DEF n
    <3> QED BY <1>0, <1>2
  <2>2. Pushed(m, w, p) /\ PushedAt(m, w, p)  BY <2>1, PushedStack, PushedLayers
  <2> HIDE DEF n
  <2>3. /\ Live(p) = Live(m) \cup {top} \cup Brought(m, p)
        /\ \A a \in Live(m) : a < top /\ a \in Int /\ p.mapping[a] = m.mapping[a]
        /\ LayerOf(p.mapping[top]) = n
        /\ \A a \in Brought(m, p) :
             /\ a > top /\ a \in Int
             /\ LayerOf(p.mapping[a]) = p.mapping[a] /\ p.mapping[a] \in Brings(m, w)
        /\ \A a, b \in Brought(m, p) : p.mapping[a] = p.mapping[b] => a = b
    BY <2>2 DEF Pushed, PushedAt, n
  <2>4. \A i \in Brings(m, w) : \E a \in Brought(m, p) : p.mapping[a] = i
    <3>1. /\ Cardinality(Brings(m, w)) \in Nat /\ Cardinality(Composites) \in Nat
          /\ Cardinality(Brings(m, w)) <= Cardinality(Composites)
      BY BringsFinite
    <3>2. m.macro_stack \in Int /\ m.layout_top \in Int  BY Fields
    <3>3. Cardinality(Brings(m, w)) <= m.macro_stack - m.layout_top - 2  BY <3>1, <3>2
    <3> QED BY <2>2, <3>3 DEF Pushed
  <2>5. /\ \A l : l \in ActiveLayers(p) <=> \/ l \in ActiveLayers(m)
                                            \/ l = n
                                            \/ \E a \in Brought(m, p) : p.mapping[a] = l
        /\ p.active_comp_part_layers = parts
    BY <2>2 DEF Pushed, PushedAt, n
  <2> HIDE DEF top, old, parts
  <2>6. \A c \in Composites : c \in Brings(m, w) <=> /\ composite_bitmap[c] \subseteq parts
                                                     /\ ~ composite_bitmap[c] \subseteq old
    <3> SUFFICES ASSUME NEW c \in Composites
                 PROVE  c \in Brings(m, w) <=> /\ composite_bitmap[c] \subseteq parts
                                               /\ ~ composite_bitmap[c] \subseteq old
      OBVIOUS
    <3>1. parts = IF FreshPart(m, LayerOf(w)) THEN m.active_comp_part_layers \cup {LayerOf(w)}
                                              ELSE m.active_comp_part_layers
      BY DEF parts, old, n
    <3>2. c \in Brings(m, w) <=> /\ composite_bitmap[c] \subseteq parts
                                 /\ ~ composite_bitmap[c] \subseteq m.active_comp_part_layers
      BY <3>1, BringsCompleted
    <3> QED BY <3>2 DEF old
  <2>7. \A c \in Composites : c \in ActiveLayers(m) <=> composite_bitmap[c] \subseteq old
    BY PartsInBitmap DEF CompositesInv, Follows, old
  <2>8. n \notin Composites /\ Brings(m, w) \subseteq Composites /\ old \subseteq parts
    BY BringsFinite DEF n, parts
  <2>9. Follows(p)
    <3> SUFFICES ASSUME NEW c \in Composites
                 PROVE  c \in ActiveLayers(p) <=> composite_bitmap[c] \subseteq ActiveLayers(p)
      BY DEF Follows
    <3>1. composite_bitmap[c] \subseteq ActiveLayers(p) <=> composite_bitmap[c] \subseteq parts
      BY <2>5, PartsInBitmap
    <3>2. c \in ActiveLayers(p) <=> c \in ActiveLayers(m) \/ c \in Brings(m, w)
      BY <2>3, <2>4, <2>5, <2>8
    <3> QED BY <2>6, <2>7, <2>8, <3>1, <3>2
  <2>10. \A a \in Live(p) : LayerOf(p.mapping[a]) \in Composites =>
           \/ /\ a \in Live(m) /\ LayerOf(p.mapping[a]) = LayerOf(m.mapping[a])
              /\ LayerOf(p.mapping[a]) \in ActiveLayers(m)
              /\ LayerOf(p.mapping[a]) \notin Brings(m, w)
           \/ /\ a \in Brought(m, p) /\ LayerOf(p.mapping[a]) = p.mapping[a]
              /\ LayerOf(p.mapping[a]) \in Brings(m, w)
              /\ LayerOf(p.mapping[a]) \notin ActiveLayers(m)
    <3> SUFFICES ASSUME NEW a \in Live(p), LayerOf(p.mapping[a]) \in Composites
                 PROVE  \/ /\ a \in Live(m) /\ LayerOf(p.mapping[a]) = LayerOf(m.mapping[a])
                           /\ LayerOf(p.mapping[a]) \in ActiveLayers(m)
                           /\ LayerOf(p.mapping[a]) \notin Brings(m, w)
                        \/ /\ a \in Brought(m, p) /\ LayerOf(p.mapping[a]) = p.mapping[a]
                           /\ LayerOf(p.mapping[a]) \in Brings(m, w)
                           /\ LayerOf(p.mapping[a]) \notin ActiveLayers(m)
      OBVIOUS
    <3>1. a # top  BY <2>3, <2>8
    <3>2. CASE a \in Live(m)
      <4>1. LayerOf(p.mapping[a]) = LayerOf(m.mapping[a])  BY <2>3, <3>2
      <4>2. LayerOf(p.mapping[a]) \in ActiveLayers(m)  BY <3>2, <4>1, ActiveIs
      <4> QED BY <2>6, <2>7, <3>2, <4>1, <4>2
    <3>3. CASE a \in Brought(m, p)
      BY <2>3, <2>6, <2>7, <3>3
    <3> QED BY <2>3, <3>1, <3>2, <3>3
  <2>11. Once(p)
    <3> SUFFICES ASSUME NEW a \in Live(p), NEW b \in Live(p),
                        LayerOf(p.mapping[a]) \in Composites,
                        LayerOf(p.mapping[b]) = LayerOf(p.mapping[a])
                 PROVE  a = b
      BY DEF Once
    <3>1. CASE a \in Live(m) /\ b \in Live(m)
      BY <2>10, <3>1, <2>3 DEF CompositesInv, Once
    <3>2. CASE a \in Brought(m, p) /\ b \in Brought(m, p)
      BY <2>3, <3>2
    <3> QED BY <2>10, <3>1, <3>2
  <2>12. PartsBelow(p)
    <3> SUFFICES ASSUME NEW a \in Live(p), LayerOf(p.mapping[a]) \in Composites,
                        NEW q \in composite_bitmap[LayerOf(p.mapping[a])]
                 PROVE  \E d \in Live(p) : d < a /\ LayerOf(p.mapping[d]) = q
      BY DEF PartsBelow
    <3>1. CASE a \in Live(m)
      <4>1. LayerOf(m.mapping[a]) = LayerOf(p.mapping[a])  BY <2>3, <3>1
      <4>2. PICK d \in Live(m) : d < a /\ LayerOf(m.mapping[d]) = q
        BY <3>1, <4>1 DEF CompositesInv, PartsBelow
      <4>3. d \in Live(p) /\ LayerOf(p.mapping[d]) = q  BY <2>3, <4>2
      <4> QED BY <4>2, <4>3
    <3>2. CASE a \in Brought(m, p)
      <4> DEFINE c == p.mapping[a]
      <4>1. c \in Brings(m, w) /\ q \in composite_bitmap[c] /\ a > top /\ a \in Int
        BY <2>3, <3>2
      <4> HIDE DEF c
      <4>2. q \in parts  BY <2>6, <2>8, <4>1
      <4>3. CASE q = n
        <5>1. top \in Int  BY Fields DEF top
        <5> QED BY <2>3, <4>1, <4>3, <5>1
      <4>4. CASE q # n
        <5>1. q \in old  BY <4>2, <4>4 DEF parts
        <5>2. q \in ActiveLayers(m)  BY <5>1 DEF PartsInv, old
        <5>3. PICK d \in Live(m) : LayerOf(m.mapping[d]) = q  BY <5>2, ActiveIs
        <5>4. top \in Int  BY Fields DEF top
        <5>5. d < a /\ d \in Live(p) /\ LayerOf(p.mapping[d]) = q
          BY <2>3, <4>1, <5>3, <5>4
        <5> QED BY <5>5
      <4> QED BY <4>3, <4>4
    <3> QED BY <2>10, <3>1, <3>2
  <2> QED BY <2>9, <2>11, <2>12 DEF CompositesInv
<1> QED BY <1>1, <1>2

\* pop_layer takes away the composites that lose their last activation of a part, and
\* every composite that stays keeps an activation of each part below it.
LEMMA PopComposites ==
  ASSUME CompositesOrdered, NEW m \in Manager, MemoryInv(m), PartsInv(m), CompositesInv(m),
         NEW l \in Nat, l \notin Composites, NEW r, r = PopLayer(m, l).m
  PROVE  CompositesInv(r)
<1> DEFINE pos == TopOf(m, l)
           gone == Removed(m, l)
           old == m.active_comp_part_layers
<1>1. CASE ~ Finds(m, l)
  <2>1. macro_dir_base \in Nat  BY Bounds
  <2>2. Occurrences(m, l, m.layout_top) = {} \/ l >= macro_dir_base
    BY <1>1, <2>1 DEF Finds
  <2>3. r = m  BY <2>2 DEF PopLayer
  <2> QED BY <2>3
<1>2. CASE Finds(m, l)
  <2>1. Popped(m, l, r)  BY <1>2, PoppedStack
  <2>2. /\ pos \in Live(m) /\ LayerOf(m.mapping[pos]) = l /\ pos \in gone
        /\ \A b \in Live(m) : LayerOf(m.mapping[b]) = l => b <= pos
        /\ gone \subseteq Live(m) /\ \A b \in gone : b >= pos
    BY <2>1 DEF Popped, Removed
  <2>3. /\ \A n : n \in ActiveLayers(r) <=> \E b \in Live(m) \ gone : LayerOf(m.mapping[b]) = n
        /\ \A b \in gone : b # pos => LayerOf(m.mapping[b]) \in Composites
    BY <2>1, PoppedLayers
  <2>4. \A a : a \in Occurrences(m, l, pos) <=>
                 a \in Live(m) /\ a < pos /\ LayerOf(m.mapping[a]) = l
    <3>1. pos \in Int /\ pos < m.layout_top  BY <2>2, Bounds, Fields DEF Live
    <3> HIDE DEF pos
    <3> QED BY <3>1, Bounds, Fields DEF Occurrences, Live
  <2>5. \A b \in Live(m) : b \in Int  BY DEF Live
  <2>6. /\ \A b \in Live(m) \ gone :
             Down(gone, b) \in Live(r) /\ r.mapping[Down(gone, b)] = m.mapping[b]
        /\ \A b, c \in Live(m) \ gone : b < c => Down(gone, b) < Down(gone, c)
        /\ \A a \in Live(r) : \E b \in Live(m) \ gone : a = Down(gone, b)
    <3>1. Live(Marked(m, l)) = Live(m) /\ Marked(m, l).mapping = m.mapping
      BY <2>1 DEF Popped, Live
    <3>2. Kept(Marked(m, l), gone, r)  BY <2>1 DEF Popped
    <3> HIDE DEF gone
    <3> QED BY <3>1, <3>2 DEF Kept
  \* A composite above the last activation of one of its parts goes.
  <2>7. ASSUME NEW b \in Live(m), NEW c \in Composites, LayerOf(m.mapping[b]) = c,
               l \in composite_bitmap[c], b > pos, Occurrences(m, l, pos) = {}
        PROVE  b \in gone
    <3>1. l \in part_layers /\ l \in old
      <4>1. l \in part_layers  BY <2>7, PartsOfComposite
      <4>2. l \in ActiveLayers(m)  BY <2>2, ActiveIs
      <4> QED BY <4>1, <4>2 DEF PartsInv
    <3>2. WasLast(m, l)  BY <2>7, <3>1 DEF WasLast
    <3>3. composite_bitmap[c] \subseteq old
      <4>1. c \in ActiveLayers(m)  BY <2>7, ActiveIs
      <4>2. composite_bitmap[c] \subseteq ActiveLayers(m)  BY <4>1 DEF CompositesInv, Follows
      <4> QED BY <4>2, PartsInBitmap
    <3>4. Breaks(m, l, c)  BY <2>7, <3>3 DEF Breaks
    <3>5. m.active_comp_count > 1
      <4>1. IsFiniteSet(old) /\ Cardinality(old) \in Nat /\ m.active_comp_count = Cardinality(old)
        BY Fields, PartsFinite DEF PartsInv
      <4>2. Cardinality(composite_bitmap[c]) <= Cardinality(old)
        BY <3>3, <4>1, FS_Subset
      <4>3. Cardinality(composite_bitmap[c]) >= 2 /\ Cardinality(composite_bitmap[c]) \in Nat
        BY PartsOfComposite DEF CompositesOrdered
      <4> QED BY <4>1, <4>2, <4>3
    <3>6. b \in (pos + 1)..(m.layout_top - 1)
      <4>1. pos \in Int /\ b \in Int  BY <2>2, <2>5
      <4> HIDE DEF pos
      <4> QED BY <2>7, <4>1 DEF Live
    <3>7. b \in Dropped(m, l)  BY <2>7, <3>2, <3>4, <3>5, <3>6 DEF Dropped
    <3> QED BY <3>7 DEF Removed
  <2>8. \A b \in gone : b # pos => Occurrences(m, l, pos) = {} /\ Breaks(m, l, LayerOf(m.mapping[b]))
    BY DEF Removed, Dropped, WasLast
  <2> HIDE DEF pos, gone
  <2>9. Once(r)
    <3> SUFFICES ASSUME NEW a \in Live(r), NEW d \in Live(r),
                        LayerOf(r.mapping[a]) \in Composites,
                        LayerOf(r.mapping[d]) = LayerOf(r.mapping[a])
                 PROVE  a = d
      BY DEF Once
    <3>1. PICK b \in Live(m) \ gone : a = Down(gone, b)  BY <2>6
    <3>2. PICK c \in Live(m) \ gone : d = Down(gone, c)  BY <2>6
    <3>3. r.mapping[a] = m.mapping[b] /\ r.mapping[d] = m.mapping[c]
      BY <2>6, <3>1, <3>2
    <3>4. b = c  BY <3>3 DEF CompositesInv, Once
    <3> QED BY <3>1, <3>2, <3>4
  <2>10. PartsBelow(r)
    <3> SUFFICES ASSUME NEW a \in Live(r), LayerOf(r.mapping[a]) \in Composites,
                        NEW q \in composite_bitmap[LayerOf(r.mapping[a])]
                 PROVE  \E d \in Live(r) : d < a /\ LayerOf(r.mapping[d]) = q
      BY DEF PartsBelow
    <3>1. PICK b \in Live(m) \ gone : a = Down(gone, b)  BY <2>6
    <3>2. r.mapping[a] = m.mapping[b]  BY <2>6, <3>1
    <3> DEFINE c == LayerOf(m.mapping[b])
    <3>3. c \in Composites /\ q \in composite_bitmap[c]  BY <3>2
    <3> HIDE DEF c
    <3>4. PICK d \in Live(m) : d < b /\ LayerOf(m.mapping[d]) = q
      BY <3>3 DEF CompositesInv, PartsBelow, c
    <3>5. q \notin Composites
      <4>1. q \in part_layers  BY <3>3, PartsOfComposite
      <4> QED BY <4>1, CompositeWord
    <3>6. \E e \in Live(m) \ gone : e < b /\ LayerOf(m.mapping[e]) = q
      <4>1. CASE d \notin gone  BY <3>4, <4>1
      <4>2. CASE d \in gone
        <5>1. d = pos /\ q = l  BY <2>2, <2>3, <3>4, <3>5, <4>2
        <5>2. Occurrences(m, l, pos) # {}
          <6>1. b > pos  BY <2>5, <3>4, <5>1
          <6> QED BY <2>7, <3>3, <5>1, <6>1 DEF c
        <5>3. PICK e \in Live(m) : e < pos /\ LayerOf(m.mapping[e]) = l
          BY <2>4, <5>2
        <5>4. e \notin gone  BY <2>2, <2>5, <5>3
        <5>5. e < b  BY <2>5, <3>4, <5>1, <5>3
        <5> QED BY <5>1, <5>3, <5>4, <5>5
      <4> QED BY <4>1, <4>2
    <3>7. PICK e \in Live(m) \ gone : e < b /\ LayerOf(m.mapping[e]) = q  BY <3>6
    <3>8. /\ Down(gone, e) \in Live(r) /\ Down(gone, e) < a
          /\ LayerOf(r.mapping[Down(gone, e)]) = q
      BY <2>6, <3>1, <3>7
    <3> QED BY <3>8
  <2>11. Follows(r)
    <3> SUFFICES ASSUME NEW c \in Composites
                 PROVE  c \in ActiveLayers(r) <=> composite_bitmap[c] \subseteq ActiveLayers(r)
      BY DEF Follows
    <3>1. ASSUME c \in ActiveLayers(r) PROVE composite_bitmap[c] \subseteq ActiveLayers(r)
      <4>1. PICK a \in Live(r) : LayerOf(r.mapping[a]) = c  BY <3>1, ActiveIs
      <4>2. \A q \in composite_bitmap[c] : \E d \in Live(r) : LayerOf(r.mapping[d]) = q
        BY <2>10, <4>1 DEF PartsBelow
      <4> QED BY <4>2, ActiveIs
    <3>2. ASSUME composite_bitmap[c] \subseteq ActiveLayers(r) PROVE c \in ActiveLayers(r)
      <4>1. \A q \in ActiveLayers(r) : q \in ActiveLayers(m)  BY <2>3, ActiveIs
      <4>2. c \in ActiveLayers(m)  BY <3>2, <4>1 DEF CompositesInv, Follows
      <4>3. PICK b \in Live(m) : LayerOf(m.mapping[b]) = c  BY <4>2, ActiveIs
      <4>4. b \notin gone
        <5> SUFFICES ASSUME b \in gone PROVE FALSE
          OBVIOUS
        <5>1. b # pos  BY <2>2, <4>3
        <5>2. Occurrences(m, l, pos) = {} /\ Breaks(m, l, c)  BY <2>8, <4>3, <5>1
        <5>3. l \in composite_bitmap[c]  BY <5>2 DEF Breaks
        <5>4. l \in ActiveLayers(r)  BY <3>2, <5>3
        <5>5. PICK e \in Live(m) \ gone : LayerOf(m.mapping[e]) = l  BY <2>3, <5>4
        <5>6. e < pos  BY <2>2, <2>5, <5>5
        <5> QED BY <2>4, <5>2, <5>5, <5>6
      <4> QED BY <2>3, <4>3, <4>4
    <3> QED BY <3>1, <3>2
  <2> QED BY <2>9, <2>10, <2>11 DEF CompositesInv
<1> QED BY <1>1, <1>2

\* Base layers, memos and macros leave the composites alone.
LEMMA SameComposites ==
  ASSUME NEW m \in Manager, NEW n, CompositesInv(m), Live(n) = Live(m),
         \A a \in Live(m) : \/ n.mapping[a] = m.mapping[a]
                            \/ /\ LayerOf(n.mapping[a]) \notin part_layers \cup Composites
                               /\ LayerOf(m.mapping[a]) \notin part_layers \cup Composites
  PROVE  CompositesInv(n)
<1>1. \A a \in Live(m) : LayerOf(n.mapping[a]) \in Composites \/ LayerOf(m.mapping[a]) \in Composites
                           => n.mapping[a] = m.mapping[a]
  OBVIOUS
<1>2. \A l \in part_layers \cup Composites : l \in ActiveLayers(n) <=> l \in ActiveLayers(m)
  BY ActiveIs
<1>3. ASSUME NEW c \in Composites
      PROVE  composite_bitmap[c] \subseteq ActiveLayers(n)
               <=> composite_bitmap[c] \subseteq ActiveLayers(m)
  <2>1. \A q \in composite_bitmap[c] : q \in part_layers \cup Composites  BY PartsOfComposite
  <2> QED BY <1>2, <2>1
<1>4. Follows(n)  BY <1>2, <1>3 DEF Follows, CompositesInv
<1>5. Once(n)
  <2> SUFFICES ASSUME NEW a \in Live(m), NEW b \in Live(m),
                      LayerOf(n.mapping[a]) \in Composites,
                      LayerOf(n.mapping[b]) = LayerOf(n.mapping[a])
               PROVE  a = b
    BY DEF Once
  <2>1. n.mapping[a] = m.mapping[a] /\ n.mapping[b] = m.mapping[b]  BY <1>1
  <2> QED BY <2>1 DEF CompositesInv, Once
<1>6. PartsBelow(n)
  <2> SUFFICES ASSUME NEW a \in Live(m), LayerOf(n.mapping[a]) \in Composites,
                      NEW q \in composite_bitmap[LayerOf(n.mapping[a])]
               PROVE  \E d \in Live(m) : d < a /\ LayerOf(n.mapping[d]) = q
    BY DEF PartsBelow
  <2>1. n.mapping[a] = m.mapping[a]  BY <1>1
  <2>2. PICK d \in Live(m) : d < a /\ LayerOf(m.mapping[d]) = q
    BY <2>1 DEF CompositesInv, PartsBelow
  <2>3. q \in part_layers  BY PartsOfComposite
  <2>4. n.mapping[d] = m.mapping[d]  BY <2>2, <2>3
  <2> QED BY <2>2, <2>4
<1> QED BY <1>4, <1>5, <1>6 DEF CompositesInv

CInv == PInv /\ CompositesInv(mgr)

LEMMA CompositesInit == ASSUME BasesApart, CompositesOrdered PROVE Init => CInv
<1> SUFFICES ASSUME Init PROVE CInv
  OBVIOUS
<1>1. PInv  BY PartsInit
<1>2. /\ Live(mgr) = {layout_bottom} /\ LayerOf(mgr.mapping[layout_bottom]) \in Bases
      /\ mgr.active_comp_part_layers = {}
  <2>1. mgr.layout_top = layout_bottom + 1 /\ mgr.active_comp_part_layers = {}
    BY DEF Init, Loaded, ClearAll, ClearLayers, SetLayout
  <2>2. Live(mgr) = {layout_bottom}  BY <2>1, Bounds DEF Live
  <2> QED BY <1>1, <2>1, <2>2 DEF PInv, Based
<1>3. LayerOf(mgr.mapping[layout_bottom]) \notin Composites  BY <1>2 DEF BasesApart
<1>4. ASSUME NEW c \in Composites PROVE c \notin ActiveLayers(mgr)
  BY <1>2, <1>3, ActiveIs
<1>5. ASSUME NEW c \in Composites PROVE ~ composite_bitmap[c] \subseteq ActiveLayers(mgr)
  <2>1. composite_bitmap[c] # {}
    <3>1. Cardinality(composite_bitmap[c]) >= 2  BY DEF CompositesOrdered
    <3> QED BY <3>1, FS_EmptySet
  <2>2. PartsInv(mgr)  BY <1>1 DEF PInv
  <2> QED BY <1>2, <2>1, <2>2, PartsInBitmap
<1>6. Follows(mgr)  BY <1>4, <1>5 DEF Follows
<1>7. Once(mgr) /\ PartsBelow(mgr)  BY <1>2, <1>3 DEF Once, PartsBelow
<1> QED BY <1>1, <1>6, <1>7 DEF CInv, CompositesInv

LEMMA CompositesStep ==
  ASSUME StackCalls, StackRoom, BasesApart, CompositesOrdered, CInv, [Next]_vars
  PROVE  CInv'
<1>1. /\ mgr \in Manager /\ MemoryInv(mgr) /\ PartsInv(mgr) /\ Based(mgr)
      /\ IInv /\ Sizes /\ PInv /\ CompositesInv(mgr)
  BY DEF CInv, PInv, IInv, TypeOK
<1>2. PInv' /\ StackStep
  <2>1. PInv'  BY <1>1, PartsStep
  <2>2. StackStep  BY <1>1, StackSteps
  <2> QED BY <2>1, <2>2
<1>3. PartsInv(mgr')
  BY <1>2 DEF PInv, PartsInv, ActiveLayers
<1>4. CompositesInv(mgr')
  <2>1. CASE PushStep
    <3>1. PICK w \in PushLayers : /\ mgr.layout_top - layout_bottom < MaxLayers
                                  /\ mgr' = PushLayer(mgr, w).m
      BY <2>1 DEF PushStep, Push
    <3>2. Cardinality(Composites) <= mgr.macro_stack - mgr.layout_top - 2
      <4>1. LAYOUT_MAX - mgr.macro_stack <= 6 * MaxMemos + 3 * MaxFrames + 5
        BY <1>1 DEF Sizes
      <4>2. mgr.layout_top \in Int /\ mgr.macro_stack \in Int  BY <1>1, Fields
      <4> QED BY <3>1, <4>1, <4>2, Bounds, SizeBounds DEF StackRoom
    <3>3. w \in Nat /\ LayerOf(w) \notin Composites  BY PushedWord
    <3> QED BY <1>1, <1>3, <3>1, <3>2, <3>3, PushComposites
  <2>2. CASE PopStep
    <3>1. PICK w \in PushLayers : mgr' = PopLayer(mgr, LayerOf(w)).m  BY <2>2 DEF PopStep
    <3>2. LayerOf(w) \in Nat /\ LayerOf(w) \notin Composites  BY PushedWord
    <3> QED BY <1>1, <3>1, <3>2, PopComposites
  <2>3. CASE BaseStep
    <3>1. PICK w \in BaseLayers : mgr' = SetLayout(mgr, w)  BY <2>3 DEF BaseStep
    <3>2. /\ Based(mgr') /\ Live(mgr') = Live(mgr)
          /\ \A a \in Live(mgr) : a # layout_bottom => mgr'.mapping[a] = mgr.mapping[a]
      BY <1>1, <3>1, SetLayoutParts
    <3>3. /\ LayerOf(mgr'.mapping[layout_bottom]) \notin part_layers \cup Composites
          /\ LayerOf(mgr.mapping[layout_bottom]) \notin part_layers \cup Composites
      BY <1>1, <3>2 DEF Based, BasesApart
    <3>4. \A a \in Live(mgr) : \/ mgr'.mapping[a] = mgr.mapping[a]
                               \/ /\ LayerOf(mgr'.mapping[a]) \notin part_layers \cup Composites
                                  /\ LayerOf(mgr.mapping[a]) \notin part_layers \cup Composites
      BY <3>2, <3>3
    <3> QED BY <1>1, <3>2, <3>4, SameComposites
  <2>4. CASE SameStack(mgr, mgr')
    <3>1. Live(mgr') = Live(mgr)  BY <1>1, <2>4, SameStackLayers
    <3>2. \A a \in Live(mgr) : mgr'.mapping[a] = mgr.mapping[a]  BY <2>4 DEF SameStack
    <3> QED BY <1>1, <3>1, <3>2, SameComposites
  <2> QED BY <1>2, <2>1, <2>2, <2>3, <2>4 DEF StackStep
<1>5. CompositesInv(mgr)'
  BY <1>4 DEF CompositesInv, Follows, Once, PartsBelow, ActiveLayers, Live
<1> QED BY <1>2, <1>5 DEF CInv

LEMMA CompositesInvariance ==
  ASSUME StackCalls, StackRoom, BasesApart, CompositesOrdered PROVE Spec => []CInv
<1>1. Init => CInv  BY CompositesInit
<1>2. CInv /\ [Next]_vars => CInv'  BY CompositesStep
<1> QED BY <1>1, <1>2, PTL DEF Spec

\* A composite layer is active when, and only when, all its parts are.
THEOREM CompositesFollow ==
  ASSUME StackCalls, StackRoom, BasesApart, CompositesOrdered PROVE Spec => []CompositeActive
<1>1. CInv => CompositeActive  BY DEF CInv, CompositesInv, Follows, CompositeActive
<1> QED BY <1>1, CompositesInvariance, PTL

-----------------------------------------------------------------------------
(***************************************************************************)
(* The composites above their parts.                                       *)
(***************************************************************************)
LEMMA OnIs ==
  ASSUME NEW m, NEW l, NEW a
  PROVE  a \in On(m, l) <=> a \in Live(m) /\ LayerOf(m.mapping[a]) = l
BY DEF On, Occurrences, Live

\* No activation of p comes above c.
StaysOver(m, r, c, p) == Over(m, c, p) => Over(r, c, p)

\* A pushed layer comes above a composite that was there before, and below those it brings.
LEMMA PushPrecedes ==
  ASSUME NEW m \in Manager, MemoryInv(m), NEW w \in Nat, LayerOf(w) \notin Composites,
         NEW p, p = PushLayer(m, w).m, NEW c \in Composites, NEW q \in composite_bitmap[c],
         LayerOf(w) = q => c \notin ActiveLayers(m)
  PROVE  StaysOver(m, p, c, q)
<1> DEFINE n == LayerOf(w)
           top == m.layout_top
<1>0. n \in Nat /\ macro_dir_base \in Nat  BY Bounds DEF LayerOf
<1>1. CASE StackFull(m) \/ n >= macro_dir_base
  <2>1. p = m  BY <1>1 DEF PushLayer
  <2> QED BY <2>1 DEF StaysOver
<1>2. CASE ~ (StackFull(m) \/ n >= macro_dir_base)
  <2>1. ~ StackFull(m) /\ n < macro_dir_base
    <3> HIDE DEF n
    <3> QED BY <1>0, <1>2
  <2>2. Pushed(m, w, p) /\ PushedAt(m, w, p)  BY <2>1, PushedStack, PushedLayers
  <2> HIDE DEF n
  <2>3. /\ Live(p) = Live(m) \cup {top} \cup Brought(m, p)
        /\ \A a \in Live(m) : a < top /\ a \in Int /\ p.mapping[a] = m.mapping[a]
        /\ LayerOf(p.mapping[top]) = n /\ top \in Int
        /\ \A a \in Brought(m, p) :
             /\ a > top /\ a \in Int
             /\ LayerOf(p.mapping[a]) = p.mapping[a] /\ p.mapping[a] \in Brings(m, w)
    BY <2>2, Fields DEF Pushed, PushedAt, n
  <2>4. n \notin Composites /\ q \notin Composites /\ Brings(m, w) \subseteq Composites
    <3>1. q \in part_layers  BY PartsOfComposite
    <3> QED BY <3>1, CompositeWord, BringsFinite DEF n
  <2> HIDE DEF top
  <2> SUFFICES ASSUME Over(m, c, q), NEW a \in On(p, c), NEW b \in On(p, q) PROVE b < a
    BY DEF StaysOver, Over
  <2>5. /\ a \in Live(p) /\ LayerOf(p.mapping[a]) = c
        /\ b \in Live(p) /\ LayerOf(p.mapping[b]) = q
    BY OnIs
  <2>6. a \in Live(m) \/ a \in Brought(m, p)  BY <2>3, <2>4, <2>5
  <2>7. b \in Live(m) \/ (b = top /\ n = q)  BY <2>3, <2>4, <2>5
  <2>8. CASE a \in Brought(m, p)
    <3>1. b \in Int /\ b <= top  BY <2>3, <2>7
    <3> QED BY <2>3, <2>8, <3>1
  <2>9. CASE a \in Live(m)
    <3>1. a \in On(m, c)  BY <2>3, <2>5, <2>9, OnIs
    <3>2. c \in ActiveLayers(m)  BY <3>1, OnIs, ActiveIs
    <3>3. n # q  BY <3>2 DEF n
    <3>4. b \in On(m, q)  BY <2>3, <2>5, <2>7, <3>3, OnIs
    <3> QED BY <3>1, <3>4 DEF Over
  <2> QED BY <2>6, <2>8, <2>9
<1> QED BY <1>1, <1>2

\* What pop_layer leaves stays in order.
LEMMA PopPrecedes ==
  ASSUME NEW m \in Manager, MemoryInv(m), NEW l \in Nat, l \notin Composites,
         NEW r, r = PopLayer(m, l).m, NEW c, NEW q
  PROVE  StaysOver(m, r, c, q)
<1> DEFINE gone == Removed(m, l)
<1>1. CASE ~ Finds(m, l)
  <2>1. macro_dir_base \in Nat  BY Bounds
  <2>2. Occurrences(m, l, m.layout_top) = {} \/ l >= macro_dir_base
    BY <1>1, <2>1 DEF Finds
  <2>3. r = m  BY <2>2 DEF PopLayer
  <2> QED BY <2>3 DEF StaysOver
<1>2. CASE Finds(m, l)
  <2>1. Popped(m, l, r)  BY <1>2, PoppedStack
  <2>2. /\ \A b \in Live(m) \ gone :
             Down(gone, b) \in Live(r) /\ r.mapping[Down(gone, b)] = m.mapping[b]
        /\ \A b, d \in Live(m) \ gone : b < d => Down(gone, b) < Down(gone, d)
        /\ \A a \in Live(r) : \E b \in Live(m) \ gone : a = Down(gone, b)
    <3>1. Live(Marked(m, l)) = Live(m) /\ Marked(m, l).mapping = m.mapping
      BY <2>1 DEF Popped, Live
    <3>2. Kept(Marked(m, l), gone, r)  BY <2>1 DEF Popped
    <3> HIDE DEF gone
    <3> QED BY <3>1, <3>2 DEF Kept
  <2> HIDE DEF gone
  <2> SUFFICES ASSUME Over(m, c, q), NEW a \in On(r, c), NEW b \in On(r, q) PROVE b < a
    BY DEF StaysOver, Over
  <2>3. /\ a \in Live(r) /\ LayerOf(r.mapping[a]) = c
        /\ b \in Live(r) /\ LayerOf(r.mapping[b]) = q
    BY OnIs
  <2>4. PICK d \in Live(m) \ gone : a = Down(gone, d)  BY <2>2, <2>3
  <2>5. PICK e \in Live(m) \ gone : b = Down(gone, e)  BY <2>2, <2>3
  <2>6. r.mapping[a] = m.mapping[d] /\ r.mapping[b] = m.mapping[e]  BY <2>2, <2>4, <2>5
  <2>7. d \in On(m, c) /\ e \in On(m, q)  BY <2>3, <2>6, OnIs
  <2>8. e < d  BY <2>7 DEF Over
  <2> QED BY <2>2, <2>4, <2>5, <2>8
<1> QED BY <1>1, <1>2

\* Base layers, memos and macros leave the order alone.
LEMMA SamePrecedes ==
  ASSUME NEW m, NEW n, Live(n) = Live(m),
         \A a \in Live(m) : \/ n.mapping[a] = m.mapping[a]
                            \/ LayerOf(n.mapping[a]) \notin part_layers \cup Composites,
         NEW c \in Composites, NEW q \in composite_bitmap[c]
  PROVE  StaysOver(m, n, c, q)
<1>1. q \in part_layers  BY PartsOfComposite
<1>2. On(n, c) \subseteq On(m, c) /\ On(n, q) \subseteq On(m, q)
  <2> SUFFICES ASSUME NEW l \in {c, q}, NEW a \in On(n, l) PROVE a \in On(m, l)
    OBVIOUS
  <2>1. a \in Live(m) /\ LayerOf(n.mapping[a]) = l  BY OnIs
  <2>2. n.mapping[a] = m.mapping[a]  BY <1>1, <2>1
  <2> QED BY <2>1, <2>2, OnIs
<1> QED BY <1>2 DEF StaysOver, Over

\* A composite layer is on the stack once and above an activation of each of its parts; it
\* comes above all of them and stays there until one of its parts is activated again.
THEOREM CompositesPrecede ==
  ASSUME StackCalls, StackRoom, BasesApart, CompositesOrdered PROVE Spec => CompositePrecedes
<1> DEFINE A(c, p) == \/ Over(mgr', c, p)
                      \/ ~ Over(mgr, c, p)
                      \/ c \in ActiveLayers(mgr) /\ \E n \in PushLayers : LayerOf(n) = p /\ Push(n)
<1>1. ASSUME CInv, CInv', [Next]_vars, NEW c \in Composites, NEW p \in composite_bitmap[c],
             c \in ActiveLayers(mgr')
      PROVE  /\ \A a, b \in On(mgr', c) : a = b
             /\ \A a \in On(mgr', c) : \E b \in On(mgr', p) : b < a
             /\ A(c, p)
  <2>1. Once(mgr') /\ PartsBelow(mgr')
    BY <1>1 DEF CInv, CompositesInv, Once, PartsBelow, Live
  <2>2. \A a, b \in On(mgr', c) : a = b  BY <2>1, OnIs DEF Once
  <2>3. \A a \in On(mgr', c) : \E b \in On(mgr', p) : b < a  BY <2>1, OnIs DEF PartsBelow
  <2>4. /\ mgr \in Manager /\ MemoryInv(mgr) /\ PartsInv(mgr) /\ Based(mgr)
        /\ IInv /\ Sizes
    BY <1>1 DEF CInv, PInv, IInv, TypeOK
  <2>5. StackStep  BY <1>1, <2>4, StackSteps
  <2>6. A(c, p)
    <3>1. CASE PushStep
      <4>1. PICK w \in PushLayers : Push(w)  BY <3>1 DEF PushStep
      <4>2. mgr' = PushLayer(mgr, w).m  BY <4>1 DEF Push
      <4>3. w \in Nat /\ LayerOf(w) \notin Composites  BY PushedWord
      <4>4. CASE LayerOf(w) = p /\ c \in ActiveLayers(mgr)  BY <4>1, <4>4
      <4>5. CASE LayerOf(w) = p => c \notin ActiveLayers(mgr)
        <5>1. StaysOver(mgr, mgr', c, p)  BY <2>4, <4>2, <4>3, <4>5, PushPrecedes
        <5> QED BY <5>1 DEF StaysOver
      <4> QED BY <4>4, <4>5
    <3>2. CASE PopStep
      <4>1. PICK w \in PushLayers : mgr' = PopLayer(mgr, LayerOf(w)).m  BY <3>2 DEF PopStep
      <4>2. LayerOf(w) \in Nat /\ LayerOf(w) \notin Composites  BY PushedWord
      <4>3. StaysOver(mgr, mgr', c, p)  BY <2>4, <4>1, <4>2, PopPrecedes
      <4> QED BY <4>3 DEF StaysOver
    <3>3. CASE BaseStep
      <4>1. PICK w \in BaseLayers : mgr' = SetLayout(mgr, w)  BY <3>3 DEF BaseStep
      <4>2. /\ Based(mgr') /\ Live(mgr') = Live(mgr)
            /\ \A a \in Live(mgr) : a # layout_bottom => mgr'.mapping[a] = mgr.mapping[a]
        BY <2>4, <4>1, SetLayoutParts
      <4>3. LayerOf(mgr'.mapping[layout_bottom]) \notin part_layers \cup Composites
        BY <4>2 DEF Based, BasesApart
      <4>4. \A a \in Live(mgr) : \/ mgr'.mapping[a] = mgr.mapping[a]
                                 \/ LayerOf(mgr'.mapping[a]) \notin part_layers \cup Composites
        BY <4>2, <4>3
      <4>5. StaysOver(mgr, mgr', c, p)  BY <4>2, <4>4, SamePrecedes
      <4> QED BY <4>5 DEF StaysOver
    <3>4. CASE SameStack(mgr, mgr')
      <4>1. Live(mgr') = Live(mgr)  BY <2>4, <3>4, SameStackLayers
      <4>2. \A a \in Live(mgr) : mgr'.mapping[a] = mgr.mapping[a]  BY <3>4 DEF SameStack
      <4>3. StaysOver(mgr, mgr', c, p)  BY <4>1, <4>2, SamePrecedes
      <4> QED BY <4>3 DEF StaysOver
    <3> QED BY <2>5, <3>1, <3>2, <3>3, <3>4 DEF StackStep
  <2> QED BY <2>2, <2>3, <2>6
<1>2. CInv /\ CInv' /\ [Next]_vars =>
        [\A c \in Composites : \A p \in composite_bitmap[c] :
           c \in ActiveLayers(mgr') =>
             /\ \A a, b \in On(mgr', c) : a = b
             /\ \A a \in On(mgr', c) : \E b \in On(mgr', p) : b < a
             /\ \/ Over(mgr', c, p)
                \/ ~ Over(mgr, c, p)
                \/ c \in ActiveLayers(mgr) /\ \E n \in PushLayers : LayerOf(n) = p /\ Push(n)]_vars
  BY <1>1
<1> QED BY <1>2, CompositesInvariance, PTL DEF Spec, CompositePrecedes

-----------------------------------------------------------------------------
(***************************************************************************)
(* The words at a set of addresses, in order.                              *)
(***************************************************************************)
LEMMA Subsets ==
  ASSUME NEW hi \in Nat, NEW S \in SUBSET (0..(hi - 1))
  PROVE  /\ S \in SUBSET Nat /\ S \in SUBSET Int
         /\ IsFiniteSet(S) /\ Cardinality(S) \in Nat
         /\ \A a \in S : a \in Int /\ Under(S, a) \in Nat
<1>1. S \in SUBSET Nat /\ S \in SUBSET Int  OBVIOUS
<1>2. 0 \in Int /\ hi - 1 \in Int  OBVIOUS
<1>3. IsFiniteSet(0..(hi - 1))  BY <1>2, FS_Interval
<1>4. IsFiniteSet(S) /\ Cardinality(S) \in Nat  BY <1>3, FS_Subset, FS_CardinalityType
<1>5. \A a \in S : a \in Int /\ Under(S, a) \in Nat  BY <1>1, <1>4, UnderStep
<1> QED BY <1>1, <1>4, <1>5

\* The address that has n - 1 others below it is the n-th.
LEMMA NthOf ==
  ASSUME NEW hi \in Nat, NEW S \in SUBSET (0..(hi - 1)), NEW a \in S,
         NEW n, n = Under(S, a) + 1
  PROVE  Nth(S, n) = a /\ n \in 1..Cardinality(S)
<1>1. S \in SUBSET Int /\ IsFiniteSet(S) /\ Cardinality(S) \in Nat /\ Under(S, a) \in Nat /\ a \in Int
  BY Subsets
<1>2. Under(S, a) = n - 1  BY <1>1
<1>3. ASSUME NEW b \in S, Under(S, b) = n - 1 PROVE b = a
  <2>1. Under(S, b) = Under(S, a)  BY <1>2, <1>3
  <2> QED BY <1>1, <2>1, RankInjective
<1>4. Nth(S, n) = CHOOSE b \in S : Under(S, b) = n - 1  BY DEF Nth, Under
<1>5. Nth(S, n) = a  BY <1>2, <1>3, <1>4
<1>6. Under(S, a) < Cardinality(S)
  <2>1. {h \in S : h < a} \in SUBSET S /\ {h \in S : h < a} # S
    <3>1. ~ (a < a)  BY <1>1
    <3> QED BY <3>1
  <2>2. Cardinality({h \in S : h < a}) <= Cardinality(S) /\ Cardinality({h \in S : h < a}) # Cardinality(S)
    BY <1>1, <2>1, FS_Subset
  <2> QED BY <1>1, <2>2 DEF Under
<1>7. n \in 1..Cardinality(S)  BY <1>1, <1>6
<1> QED BY <1>5, <1>7

LEMMA NthIn ==
  ASSUME NEW hi \in Nat, NEW S \in SUBSET (0..(hi - 1)), NEW n \in 1..Cardinality(S)
  PROVE  Nth(S, n) \in S /\ Under(S, Nth(S, n)) = n - 1 /\ n \in Int
<1>1. S \in SUBSET Nat /\ Cardinality(S) \in Nat  BY Subsets
<1>2. n \in Int /\ n - 1 \in Nat /\ n - 1 < Cardinality(S)  BY <1>1
<1>3. \E b \in S : Under(S, b) = n - 1
  <2> DEFINE j == n - 1
  <2> HIDE DEF j
  <2>1. j \in Nat /\ j < Cardinality(S)  BY <1>2 DEF j
  <2>2. \E b \in S : Under(S, b) = j  BY <1>1, <2>1, RankOnto
  <2> QED BY <2>2 DEF j
<1>4. Nth(S, n) = CHOOSE b \in S : Under(S, b) = n - 1  BY DEF Nth, Under
<1> QED BY <1>2, <1>3, <1>4

\* T holds the words of S in the same order, each at f of where it is in S.
Moved(m, S, r, T, f) ==
  /\ f \in [S -> T]
  /\ \A a, b \in S : a < b => f[a] < f[b]
  /\ \A c \in T : \E a \in S : c = f[a]
  /\ \A a \in S : r.mapping[f[a]] = m.mapping[a]

LEMMA WordsMoved ==
  ASSUME NEW hi \in Nat, NEW S \in SUBSET (0..(hi - 1)), NEW T \in SUBSET (0..(hi - 1)),
         NEW f, NEW m, NEW r, Moved(m, S, r, T, f)
  PROVE  WordsAt(r, T) = WordsAt(m, S)
<1>0. /\ f \in [S -> T]
      /\ \A a, b \in S : a < b => f[a] < f[b]
      /\ \A c \in T : \E a \in S : c = f[a]
      /\ \A a \in S : r.mapping[f[a]] = m.mapping[a]
  BY DEF Moved
<1>1. /\ S \in SUBSET Int /\ IsFiniteSet(S) /\ Cardinality(S) \in Nat
      /\ T \in SUBSET Int /\ IsFiniteSet(T) /\ Cardinality(T) \in Nat
  BY Subsets
<1>2. \A a, b \in S : a \in Int /\ b \in Int /\ f[a] \in Int /\ f[b] \in Int
  BY <1>0, <1>1
<1>3. \A a, b \in S : f[a] < f[b] => a < b
  <2> SUFFICES ASSUME NEW a \in S, NEW b \in S, f[a] < f[b] PROVE a < b
    OBVIOUS
  <2>1. a \in Int /\ b \in Int /\ f[a] \in Int /\ f[b] \in Int  BY <1>2
  <2>2. b < a => f[b] < f[a]  BY <1>0
  <2>3. a # b  BY <2>1
  <2> QED BY <2>1, <2>2, <2>3
<1>4. \A a, b \in S : f[a] = f[b] => a = b
  <2> SUFFICES ASSUME NEW a \in S, NEW b \in S, f[a] = f[b] PROVE a = b
    OBVIOUS
  <2>1. a \in Int /\ b \in Int /\ f[a] \in Int  BY <1>2
  <2>2. ~ (a < b) /\ ~ (b < a)
    <3>1. (a < b => f[a] < f[b]) /\ (b < a => f[b] < f[a])  BY <1>0
    <3>2. ~ (f[a] < f[b]) /\ ~ (f[b] < f[a])  BY <2>1
    <3> QED BY <3>1, <3>2
  <2> QED BY <2>1, <2>2
<1>5. ASSUME NEW U \in SUBSET S, NEW V, V = {f[a] : a \in U}
      PROVE  Cardinality(V) = Cardinality(U)
  <2> DEFINE g == [a \in U |-> f[a]]
  <2>1. g \in Bijection(U, V)
    <3>1. g \in [U -> V] /\ \A c \in V : \E a \in U : g[a] = c  BY <1>5
    <3>2. \A a, b \in U : g[a] = g[b] => a = b  BY <1>4
    <3> QED BY <3>1, <3>2 DEF Bijection, Injection, Surjection, IsInjective
  <2>2. ExistsBijection(U, V)  BY <2>1 DEF ExistsBijection
  <2>3. IsFiniteSet(U)  BY <1>1, FS_Subset
  <2> QED BY <2>2, <2>3, FS_Bijection
<1>6. Cardinality(T) = Cardinality(S)
  <2>1. T = {f[a] : a \in S}  BY <1>0
  <2> QED BY <1>5, <2>1
<1>7. ASSUME NEW a \in S PROVE Under(T, f[a]) = Under(S, a)
  <2>1. {h \in T : h < f[a]} = {f[b] : b \in {h \in S : h < a}}
    <3>1. \A h \in T : h < f[a] => \E b \in S : b < a /\ h = f[b]  BY <1>0, <1>3
    <3>2. \A b \in S : b < a => f[b] \in T /\ f[b] < f[a]  BY <1>0
    <3> QED BY <3>1, <3>2
  <2>2. {h \in S : h < a} \in SUBSET S  OBVIOUS
  <2> QED BY <1>5, <2>1, <2>2 DEF Under
<1>8. ASSUME NEW n \in 1..Cardinality(S) PROVE r.mapping[Nth(T, n)] = m.mapping[Nth(S, n)]
  <2> DEFINE a == Nth(S, n)
  <2>1. a \in S /\ Under(S, a) = n - 1 /\ n \in Int  BY NthIn
  <2> HIDE DEF a
  <2>2. f[a] \in T /\ n = Under(T, f[a]) + 1  BY <1>0, <1>7, <2>1
  <2>3. ASSUME NEW c \in T, n = Under(T, c) + 1 PROVE Nth(T, n) = c
    BY <2>3, NthOf
  <2>4. Nth(T, n) = f[a]  BY <2>2, <2>3
  <2> QED BY <1>0, <2>1, <2>4 DEF a
<1> QED BY <1>6, <1>8 DEF WordsAt

\* They are a sequence.
LEMMA WordsSeq ==
  ASSUME NEW hi \in Nat, NEW S \in SUBSET (0..(hi - 1)), NEW m,
         NEW V, \A a \in S : m.mapping[a] \in V
  PROVE  /\ WordsAt(m, S) \in Seq(V) /\ Len(WordsAt(m, S)) = Cardinality(S)
         /\ DOMAIN WordsAt(m, S) = 1..Cardinality(S)
         /\ \A n \in 1..Cardinality(S) : WordsAt(m, S)[n] = m.mapping[Nth(S, n)]
<1>1. Cardinality(S) \in Nat  BY Subsets
<1>2. \A n \in 1..Cardinality(S) : m.mapping[Nth(S, n)] \in V  BY NthIn
<1>3. WordsAt(m, S) \in [1..Cardinality(S) -> V]  BY <1>2 DEF WordsAt
<1>4. WordsAt(m, S) \in Seq(V)  BY <1>1, <1>3
<1>5. Len(WordsAt(m, S)) = Cardinality(S)  BY <1>1, <1>3, <1>4, LenProperties
<1> QED BY <1>3, <1>4, <1>5 DEF WordsAt

\* An address above all others is the last.
Appended(m, S, r, x) ==
  WordsAt(r, S \cup {x}) = Append(WordsAt(m, S), r.mapping[x])

LEMMA WordsAppended ==
  ASSUME NEW hi \in Nat, NEW S \in SUBSET (0..(hi - 1)), NEW x \in 0..(hi - 1),
         \A a \in S : a < x, NEW m, NEW r, \A a \in S : r.mapping[a] = m.mapping[a]
  PROVE  Appended(m, S, r, x)
<1> DEFINE T == S \cup {x}
           V == {r.mapping[a] : a \in T}
           s == WordsAt(m, S)
           t == WordsAt(r, T)
           q == Append(s, r.mapping[x])
<1>1. /\ S \in SUBSET Int /\ IsFiniteSet(S) /\ Cardinality(S) \in Nat
      /\ T \in SUBSET (0..(hi - 1)) /\ x \notin S /\ x \in Int
  <2>1. x \in Int /\ ~ (x < x)  OBVIOUS
  <2>2. x \notin S  BY <2>1
  <2> QED BY <2>1, <2>2, Subsets
<1>2. Cardinality(T) = Cardinality(S) + 1  BY <1>1, FS_AddElement
<1> HIDE DEF T
<1>3. \A a \in S : r.mapping[a] \in V /\ m.mapping[a] \in V
  BY DEF T
<1>4. r.mapping[x] \in V /\ \A a \in T : r.mapping[a] \in V  BY DEF T
<1> HIDE DEF V
<1>5. /\ s \in Seq(V) /\ Len(s) = Cardinality(S)
      /\ \A n \in 1..Cardinality(S) : s[n] = m.mapping[Nth(S, n)]
  BY <1>3, WordsSeq
<1>6. /\ t \in Seq(V) /\ Len(t) = Cardinality(T)
      /\ \A n \in 1..Cardinality(T) : t[n] = r.mapping[Nth(T, n)]
  BY <1>1, <1>4, WordsSeq
<1> HIDE DEF s, t
<1>7. /\ q \in Seq(V) /\ Len(q) = Len(s) + 1
      /\ \A i \in 1..Len(s) : q[i] = s[i]
      /\ q[Len(s) + 1] = r.mapping[x]
  BY <1>4, <1>5, AppendProperties
<1> HIDE DEF q
<1>8. ASSUME NEW a \in S PROVE Under(T, a) = Under(S, a)
  <2>1. {h \in T : h < a} = {h \in S : h < a}
    <3>1. a < x /\ a \in Int  BY <1>1
    <3>2. ~ (x < a)  BY <1>1, <3>1
    <3> QED BY <3>2 DEF T
  <2> QED BY <2>1 DEF Under
<1>9. Under(T, x) = Cardinality(S)
  <2>1. {h \in T : h < x} = S
    <3>1. ~ (x < x)  BY <1>1
    <3> QED BY <3>1 DEF T
  <2> QED BY <2>1 DEF Under
<1>10. ASSUME NEW n \in 1..Len(t) PROVE t[n] = q[n]
  <2>1. n \in Int /\ n \in 1..Cardinality(T)  BY <1>1, <1>2, <1>6, <1>10
  <2>2. CASE n \in 1..Cardinality(S)
    <3> DEFINE a == Nth(S, n)
    <3>1. a \in S /\ Under(S, a) = n - 1  BY <2>2, NthIn
    <3>2. s[n] = m.mapping[a]  BY <1>5, <2>2
    <3> HIDE DEF a
    <3>3. a \in T  BY <3>1 DEF T
    <3>4. Nth(T, n) = a
      <4>1. Under(T, a) = Under(S, a)  BY <1>8, <3>1
      <4>2. n = Under(T, a) + 1  BY <2>1, <3>1, <4>1
      <4> QED BY <1>1, <3>3, <4>2, NthOf
    <3> QED BY <1>5, <1>6, <1>7, <2>1, <2>2, <3>1, <3>2, <3>4
  <2>3. CASE n \notin 1..Cardinality(S)
    <3>1. n = Cardinality(S) + 1  BY <1>1, <1>2, <2>1, <2>3
    <3>2. x \in T /\ n = Under(T, x) + 1  BY <1>9, <3>1 DEF T
    <3>3. Nth(T, n) = x  BY <1>1, <3>2, NthOf
    <3> QED BY <1>5, <1>6, <1>7, <2>1, <3>1, <3>3
  <2> QED BY <2>2, <2>3
<1>11. t = q  BY <1>2, <1>5, <1>6, <1>7, <1>10, SeqEqual
<1> QED BY <1>11 DEF s, t, q, T, Appended

\* Without the address x its word goes, and nothing else.
LEMMA WordsWithout ==
  ASSUME NEW hi \in Nat, NEW S \in SUBSET (0..(hi - 1)), NEW x \in S, NEW m,
         NEW i, i = Under(S, x) + 1
  PROVE  WordsAt(m, S \ {x}) = SubSeq(WordsAt(m, S), 1, i - 1)
                                 \o SubSeq(WordsAt(m, S), i + 1, Len(WordsAt(m, S)))
<1> DEFINE T == S \ {x}
           V == {m.mapping[a] : a \in S}
           s == WordsAt(m, S)
           t == WordsAt(m, T)
           k == Cardinality(S)
           low == SubSeq(s, 1, i - 1)
           high == SubSeq(s, i + 1, k)
           q == low \o high
<1>1. /\ S \in SUBSET Int /\ IsFiniteSet(S) /\ k \in Nat /\ T \in SUBSET (0..(hi - 1))
      /\ x \in Int
  BY Subsets
<1>2. Cardinality(T) = k - 1 /\ IsFiniteSet(T)  BY <1>1, FS_RemoveElement
<1>3. i \in 1..k /\ i \in Int
  <2>1. i \in 1..k  BY NthOf
  <2> QED BY <1>1, <2>1
<1>v. (\A a \in S : m.mapping[a] \in V) /\ (\A a \in T : m.mapping[a] \in V)
  OBVIOUS
<1>u. \A a \in S : a \in Int /\ Under(S, a) \in Nat  BY Subsets
<1> HIDE DEF V
<1>4. /\ s \in Seq(V) /\ Len(s) = k
      /\ \A n \in 1..k : s[n] = m.mapping[Nth(S, n)]
  BY <1>v, WordsSeq
<1> HIDE DEF T
<1>5. /\ t \in Seq(V) /\ Len(t) = Cardinality(T)
      /\ \A n \in 1..Cardinality(T) : t[n] = m.mapping[Nth(T, n)]
  BY <1>1, <1>v, WordsSeq
<1> HIDE DEF s, t, k
<1>6. \A n \in 1..k : s[n] \in V  BY <1>1, <1>4, ElementOfSeq
<1>7. /\ low \in Seq(V) /\ Len(low) = i - 1 /\ \A n \in 1..(i - 1) : low[n] = s[n]
  <2>1. \A n \in 1..(i - 1) : n \in 1..k /\ 1 + n - 1 = n  BY <1>1, <1>3
  <2>2. 1 \in Int /\ i - 1 \in Int /\ \A n \in 1..(i - 1) : s[n] \in V  BY <1>3, <1>6, <2>1
  <2>3. /\ low \in Seq(V) /\ Len(low) = IF 1 <= i - 1 THEN i - 1 - 1 + 1 ELSE 0
        /\ \A n \in 1..(i - 1 - 1 + 1) : low[n] = s[1 + n - 1]
    BY <2>2, SubSeqProperties
  <2>4. i - 1 - 1 + 1 = i - 1  BY <1>3
  <2> HIDE DEF low
  <2>5. low \in Seq(V)  BY ONLY <2>3
  <2>6. i - 1 \in Nat  BY ONLY <1>1, <1>3
  <2>7. Len(low) = i - 1  BY ONLY <2>3, <2>4, <2>6
  <2>8. \A n \in 1..(i - 1) : low[n] = s[1 + n - 1]  BY ONLY <2>3, <2>4
  <2>9. ASSUME NEW n \in 1..(i - 1) PROVE low[n] = s[n]
    <3>1. 1 + n - 1 = n  BY ONLY <2>1
    <3>2. low[n] = s[1 + n - 1]  BY ONLY <2>8
    <3> QED BY ONLY <3>1, <3>2
  <2> QED BY ONLY <2>5, <2>7, <2>9
<1>8. /\ high \in Seq(V) /\ Len(high) = k - i
      /\ \A n \in 1..(k - i) : high[n] = s[i + n]
  <2>1. i + 1 \in Int /\ k \in Int /\ \A n \in (i + 1)..k : s[n] \in V  BY <1>1, <1>3, <1>6
  <2>2. /\ high \in Seq(V) /\ Len(high) = IF i + 1 <= k THEN k - (i + 1) + 1 ELSE 0
        /\ \A n \in 1..(k - (i + 1) + 1) : high[n] = s[i + 1 + n - 1]
    BY <2>1, SubSeqProperties
  <2>3. k - (i + 1) + 1 = k - i  BY <1>1, <1>3
  <2> HIDE DEF high
  <2>4. Len(high) = k - i  BY <1>1, <1>3, <2>2
  <2>5. ASSUME NEW n \in 1..(k - i) PROVE high[n] = s[i + n]
    <3>1. n \in Int /\ i + 1 + n - 1 = i + n  BY <1>1, <1>3
    <3>2. high[n] = s[i + 1 + n - 1]  BY <2>2, <2>3
    <3> QED BY <3>1, <3>2
  <2> QED BY <2>2, <2>4, <2>5
<1> HIDE DEF low, high
<1>9. /\ q \in Seq(V) /\ Len(q) = k - 1
      /\ \A n \in 1..(k - 1) : q[n] = IF n <= i - 1 THEN s[n] ELSE s[n + 1]
  <2>1. /\ q \in Seq(V) /\ Len(q) = (i - 1) + (k - i)
        /\ \A n \in 1..((i - 1) + (k - i)) :
             q[n] = IF n <= i - 1 THEN low[n] ELSE high[n - (i - 1)]
    BY <1>7, <1>8, ConcatProperties
  <2>2. (i - 1) + (k - i) = k - 1  BY <1>1, <1>3
  <2> HIDE DEF q
  <2>3. ASSUME NEW n \in 1..(k - 1) PROVE q[n] = IF n <= i - 1 THEN s[n] ELSE s[n + 1]
    <3>1. n \in Int /\ n >= 1 /\ n <= k - 1  BY <1>1
    <3>2. q[n] = IF n <= i - 1 THEN low[n] ELSE high[n - (i - 1)]  BY <2>1, <2>2
    <3>3. CASE n <= i - 1  BY <1>3, <1>7, <3>1, <3>2, <3>3
    <3>4. CASE ~ (n <= i - 1)
      <4>1. n - (i - 1) \in 1..(k - i) /\ i + (n - (i - 1)) = n + 1
        BY <1>1, <1>3, <3>1, <3>4
      <4>2. high[n - (i - 1)] = s[n + 1]  BY <1>8, <4>1
      <4> QED BY <3>2, <3>4, <4>2
    <3> QED BY <3>3, <3>4
  <2> QED BY <2>1, <2>2, <2>3
<1> HIDE DEF q
<1>10. ASSUME NEW a \in S
       PROVE  Under(T, a) = IF a <= x THEN Under(S, a) ELSE Under(S, a) - 1
  <2>1. a \in Int /\ Under(S, a) \in Nat  BY Subsets
  <2>2. CASE a <= x
    <3>1. {h \in T : h < a} = {h \in S : h < a}  BY <1>1, <2>1, <2>2 DEF T
    <3> QED BY <2>2, <3>1 DEF Under
  <2>3. CASE ~ (a <= x)
    <3> DEFINE B == {h \in S : h < a}
    <3>1. x \in B /\ IsFiniteSet(B)  BY <1>1, <2>1, <2>3, FS_Subset
    <3>2. {h \in T : h < a} = B \ {x}  BY DEF T
    <3> HIDE DEF B
    <3>3. Cardinality(B \ {x}) = Cardinality(B) - 1  BY <3>1, FS_RemoveElement
    <3> QED BY <2>3, <3>2, <3>3 DEF Under, B
  <2> QED BY <2>2, <2>3
<1>11. ASSUME NEW n \in 1..(k - 1) PROVE t[n] = q[n]
  <2>1. n \in Int /\ n \in 1..Cardinality(T) /\ n \in 1..k /\ n + 1 \in 1..k
    BY <1>1, <1>2
  <2>2. t[n] = m.mapping[Nth(T, n)]  BY <1>5, <2>1
  <2>3. ASSUME NEW p \in 1..k, p # i, n = IF p < i THEN p ELSE p - 1
        PROVE  t[n] = s[p]
    <3> DEFINE a == Nth(S, p)
    <3>1. a \in S /\ Under(S, a) = p - 1 /\ p \in Int  BY NthIn DEF k
    <3>2. s[p] = m.mapping[a]  BY <1>4
    <3> HIDE DEF a
    <3>3. a \in Int /\ Under(S, x) = i - 1 /\ Under(S, x) \in Nat
      BY <1>1, <1>3, <1>u, <3>1
    <3>4. a # x  BY <2>3, <3>1, <3>3, <1>3
    <3>5. a < x <=> p < i
      <4>1. a < x => Under(S, a) < Under(S, x)  BY <1>1, <3>1, <3>3, UnderGap
      <4>2. x < a => Under(S, x) < Under(S, a)  BY <1>1, <3>1, <3>3, UnderGap
      <4> QED BY <1>1, <1>3, <3>1, <3>3, <3>4, <4>1, <4>2
    <3>6. Under(T, a) = IF a <= x THEN Under(S, a) ELSE Under(S, a) - 1  BY <1>10, <3>1
    <3>7. n = Under(T, a) + 1  BY <1>1, <1>3, <2>3, <3>1, <3>3, <3>4, <3>5, <3>6
    <3>8. a \in T  BY <3>1, <3>4 DEF T
    <3>9. Nth(T, n) = a  BY <1>1, <3>7, <3>8, NthOf
    <3> QED BY <2>2, <3>2, <3>9
  <2>4. CASE n <= i - 1
    <3>1. n < i /\ n # i  BY <1>3, <2>1, <2>4
    <3>2. t[n] = s[n]  BY <2>1, <2>3, <3>1
    <3> QED BY <1>9, <2>4, <3>2
  <2>5. CASE ~ (n <= i - 1)
    <3>1. ~ (n + 1 < i) /\ n + 1 # i /\ n = n + 1 - 1  BY <1>3, <2>1, <2>5
    <3>2. t[n] = s[n + 1]  BY <2>1, <2>3, <3>1
    <3> QED BY <1>9, <2>5, <3>2
  <2> QED BY <2>4, <2>5
<1>12. t = q  BY <1>2, <1>5, <1>9, <1>11, SeqEqual
<1> QED BY <1>4, <1>12 DEF q, low, high, s, t, k, T

-----------------------------------------------------------------------------
(***************************************************************************)
(* What the calls do to the layers without composites.                     *)
(***************************************************************************)
\* The base and what is pushed on it is neither a composite nor, above it, the base.
PlainBases ==
  /\ Bases \cap Composites = {}
  /\ \A w \in PushLayers : LayerOf(w) \notin Composites \cup Bases

LEMMA PlainSet ==
  ASSUME NEW m \in Manager, MemoryInv(m)
  PROVE  /\ PlainAt(m) \in SUBSET (0..(LAYOUT_MAX - 1)) /\ LAYOUT_MAX \in Nat
         /\ \A a : a \in PlainAt(m) <=> a \in Live(m) /\ LayerOf(m.mapping[a]) \notin Composites
         /\ \A a \in Live(m) : /\ a \in Int /\ layout_bottom <= a /\ a < m.layout_top
                               /\ a \in 0..(LAYOUT_MAX - 1) /\ a \in Addr
<1> USE Bounds, Fields
<1>1. \A a \in Live(m) : /\ a \in Int /\ layout_bottom <= a /\ a < m.layout_top
                         /\ a \in 0..(LAYOUT_MAX - 1) /\ a \in Addr
  <2> SUFFICES ASSUME NEW a \in Live(m)
               PROVE  /\ a \in Int /\ layout_bottom <= a /\ a < m.layout_top
                      /\ a \in 0..(LAYOUT_MAX - 1) /\ a \in Addr
    OBVIOUS
  <2>1. m.layout_top <= LAYOUT_MAX  BY DEF MemoryInv, Ordered
  <2> QED BY <2>1 DEF Live, Addr
<1>2. \A a : a \in PlainAt(m) <=> a \in Live(m) /\ LayerOf(m.mapping[a]) \notin Composites
  BY DEF PlainAt, Live
<1> QED BY <1>1, <1>2

\* The layers depend only on the stack.
LEMMA SamePlain ==
  ASSUME NEW m \in Manager, MemoryInv(m), NEW n, SameStack(m, n)
  PROVE  PlainLayers(n) = PlainLayers(m)
<1> DEFINE S == PlainAt(m)
<1>1. /\ S \in SUBSET (0..(LAYOUT_MAX - 1)) /\ LAYOUT_MAX \in Nat
      /\ \A a \in S : a \in Live(m)
  BY PlainSet
<1>2. PlainAt(n) = S
  BY DEF PlainAt, SameStack, Live
<1> HIDE DEF S
<1>3. \A a \in S : n.mapping[a] = m.mapping[a]  BY <1>1 DEF SameStack
<1>4. \A i \in 1..Cardinality(S) : n.mapping[Nth(S, i)] = m.mapping[Nth(S, i)]
  BY <1>1, <1>3, NthIn
<1> QED BY <1>2, <1>4 DEF PlainLayers, WordsAt, S

\* A layer is refused, or is the newest.
LEMMA PushPlain ==
  ASSUME NEW m \in Manager, MemoryInv(m), Based(m), NEW w \in Nat, LayerOf(w) \notin Composites,
         NEW p, p = PushLayer(m, w).m
  PROVE  /\ Based(p)
         /\ \/ PlainLayers(p) = PlainLayers(m)
            \/ PlainLayers(p) = Append(PlainLayers(m), w)
<1> USE Bounds, Fields
<1> DEFINE n == LayerOf(w)
<1>0. n \in Nat  BY DEF LayerOf
<1>1. CASE StackFull(m) \/ n >= macro_dir_base
  <2>1. p = m  BY <1>1 DEF PushLayer
  <2> QED BY <2>1
<1>2. CASE ~ (StackFull(m) \/ n >= macro_dir_base)
  <2> HIDE DEF n
  <2>1. ~ StackFull(m) /\ n < macro_dir_base  BY <1>0, <1>2
  <2>2. Pushed(m, w, p) /\ PushedAt(m, w, p)
    BY <2>1, PushedStack, PushedLayers DEF n
  <2>3. /\ p.layout_top > m.layout_top /\ p.layout_top \in Int
        /\ \A a \in Live(m) : p.mapping[a] = m.mapping[a]
        /\ p.mapping[m.layout_top] = w /\ p \in Manager
    BY <2>2 DEF Pushed
  <2>4. /\ Live(p) = Live(m) \cup {m.layout_top} \cup Brought(m, p)
        /\ \A a \in Brought(m, p) : LayerOf(p.mapping[a]) \in Composites
    BY <2>2, BringsFinite DEF PushedAt
  <2>5. Based(p)
    <3>1. layout_bottom \in Live(m)  BY DEF Based, Live
    <3> QED BY <2>3, <3>1 DEF Based
  <2> DEFINE S == PlainAt(m)
             x == m.layout_top
  <2>6. PlainAt(p) = S \cup {x}
    <3>1. MemoryInv(p)  BY PushLayerInv
    <3>2. \A a : a \in PlainAt(p) <=> a \in Live(p) /\ LayerOf(p.mapping[a]) \notin Composites
      BY <2>3, <3>1, PlainSet
    <3>3. \A a : a \in S <=> a \in Live(m) /\ LayerOf(m.mapping[a]) \notin Composites
      BY PlainSet
    <3> HIDE DEF S
    <3>4. \A a : a \in PlainAt(p) <=> a \in S \/ a = x  BY <2>3, <2>4, <3>2, <3>3
    <3> QED BY <3>4
  <2>7. /\ S \in SUBSET (0..(LAYOUT_MAX - 1)) /\ LAYOUT_MAX \in Nat
        /\ \A a \in S : a < x /\ a \in Live(m)
    BY PlainSet
  <2>8. x \in 0..(LAYOUT_MAX - 1)
    BY <2>1 DEF StackFull, MemoryInv, Ordered
  <2> HIDE DEF S, x
  <2>9. \A a \in S : p.mapping[a] = m.mapping[a]  BY <2>3, <2>7
  <2>10. Appended(m, S, p, x)
    <3>1. \A a \in S : a < x  BY <2>7
    <3>2. S \in SUBSET (0..(LAYOUT_MAX - 1)) /\ LAYOUT_MAX \in Nat  BY <2>7
    <3> QED BY ONLY <2>8, <2>9, <3>1, <3>2, WordsAppended
  <2>11. PlainLayers(p) = Append(PlainLayers(m), w)
    BY <2>3, <2>6, <2>10 DEF PlainLayers, Appended, S, x
  <2> QED BY <2>5, <2>11
<1> QED BY <1>1, <1>2

\* i is the place of the newest activation of l in the sequence s.
Newest(s, l, i) ==
  /\ i \in DOMAIN s /\ LayerOf(s[i]) = l
  /\ \A j \in DOMAIN s : j > i => LayerOf(s[j]) # l

Without(s, i) == SubSeq(s, 1, i - 1) \o SubSeq(s, i + 1, Len(s))

\* A layer is not found, or loses its newest activation.
LEMMA PopPlain ==
  ASSUME NEW m \in Manager, MemoryInv(m), Based(m), NEW l \in Nat, l \notin Composites \cup Bases,
         NEW r, r = PopLayer(m, l).m
  PROVE  /\ Based(r)
         /\ \/ PlainLayers(r) = PlainLayers(m)
            \/ \E i : Newest(PlainLayers(m), l, i) /\ PlainLayers(r) = Without(PlainLayers(m), i)
<1> USE Bounds, Fields
<1> DEFINE pos == TopOf(m, l)
           gone == Removed(m, l)
<1>1. CASE ~ Finds(m, l)
  <2>1. Occurrences(m, l, m.layout_top) = {} \/ l >= macro_dir_base  BY <1>1 DEF Finds
  <2>2. r = m  BY <2>1 DEF PopLayer
  <2> QED BY <2>2
<1>2. CASE Finds(m, l)
  <2>1. Popped(m, l, r)  BY <1>2, PoppedStack
  <2>2. /\ pos \in Live(m) /\ LayerOf(m.mapping[pos]) = l /\ pos \in gone
        /\ \A b \in Live(m) : LayerOf(m.mapping[b]) = l => b <= pos
        /\ gone \subseteq Live(m) /\ \A b \in gone : b >= pos
    BY <2>1 DEF Popped, Removed
  <2>3. \A b \in gone : b # pos => LayerOf(m.mapping[b]) \in Composites
    BY <2>1, PoppedLayers
  <2>4. /\ r \in Manager
        /\ layout_bottom \notin gone => Down(gone, layout_bottom) = layout_bottom
        /\ \A b \in Live(m) \ gone :
             Down(gone, b) \in Live(r) /\ r.mapping[Down(gone, b)] = m.mapping[b]
        /\ \A b, c \in Live(m) \ gone : b < c => Down(gone, b) < Down(gone, c)
        /\ \A a \in Live(r) : \E b \in Live(m) \ gone : a = Down(gone, b)
    <3>1. Live(Marked(m, l)) = Live(m) /\ Marked(m, l).mapping = m.mapping
      BY <2>1 DEF Popped, Live
    <3> QED BY <2>1, <3>1 DEF Popped, Kept
  <2>5. MemoryInv(r)  BY PopLayerInv
  <2> DEFINE S == PlainAt(m)
             T == PlainAt(r)
             U == S \ {pos}
  <2>6. /\ S \in SUBSET (0..(LAYOUT_MAX - 1)) /\ LAYOUT_MAX \in Nat
        /\ \A a : a \in S <=> a \in Live(m) /\ LayerOf(m.mapping[a]) \notin Composites
        /\ \A a \in Live(m) : a \in Int /\ layout_bottom <= a
    BY PlainSet
  <2>7. /\ T \in SUBSET (0..(LAYOUT_MAX - 1))
        /\ \A a : a \in T <=> a \in Live(r) /\ LayerOf(r.mapping[a]) \notin Composites
    BY <2>4, <2>5, PlainSet
  <2> HIDE DEF pos, gone, S, T
  <2>8. Based(r)
    <3>1. layout_bottom \in Live(m)  BY DEF Based, Live
    <3>2. layout_bottom # pos  BY <2>2 DEF Based
    <3>3. layout_bottom \notin gone
      <4>1. pos >= layout_bottom /\ pos \in Int  BY <2>2, <2>6
      <4> QED BY <2>2, <3>2, <4>1
    <3>4. layout_bottom \in Live(r) /\ r.mapping[layout_bottom] = m.mapping[layout_bottom]
      BY <2>4, <3>1, <3>3
    <3>5. r.layout_top > layout_bottom  BY <2>4, <3>4 DEF Live
    <3> QED BY <3>4, <3>5 DEF Based
  <2> DEFINE f == [a \in U |-> Down(gone, a)]
  <2>9. pos \in S /\ \A a \in U : a \in Live(m) \ gone  BY <2>2, <2>3, <2>6
  <2>10. Moved(m, U, r, T, f)
    <3>1. \A a \in U : /\ f[a] \in T /\ f[a] = Down(gone, a)
                       /\ r.mapping[f[a]] = m.mapping[a]
      BY <2>4, <2>6, <2>7, <2>9
    <3>2. \A a, b \in U : a < b => f[a] < f[b]
      <4> SUFFICES ASSUME NEW a \in U, NEW b \in U, a < b PROVE f[a] < f[b]
        OBVIOUS
      <4>1. Down(gone, a) < Down(gone, b)  BY <2>4, <2>9
      <4> QED BY <3>1, <4>1
    <3>3. ASSUME NEW c \in T PROVE \E a \in U : c = f[a]
      <4>1. PICK b \in Live(m) \ gone : c = Down(gone, b)  BY <2>4, <2>7
      <4>2. b \in U  BY <2>2, <2>4, <2>6, <2>7, <4>1
      <4> QED BY <4>1, <4>2
    <3>4. f \in [U -> T]  BY <3>1
    <3> QED BY <3>1, <3>2, <3>3, <3>4 DEF Moved
  <2> HIDE DEF f
  <2>11. WordsAt(r, T) = WordsAt(m, U)
    <3>1. U \in SUBSET (0..(LAYOUT_MAX - 1))  BY <2>6
    <3>2. LAYOUT_MAX \in Nat /\ T \in SUBSET (0..(LAYOUT_MAX - 1))  BY <2>6, <2>7
    <3> HIDE DEF U
    <3> QED BY ONLY <2>10, <3>1, <3>2, WordsMoved
  <2> DEFINE i == Under(S, pos) + 1
             s == WordsAt(m, S)
  <2>12. WordsAt(m, U) = Without(s, i)
    BY <2>6, <2>9, WordsWithout DEF Without
  <2>13. Newest(s, l, i)
    <3>1. Nth(S, i) = pos /\ i \in 1..Cardinality(S)  BY <2>6, <2>9, NthOf
    <3>2. DOMAIN s = 1..Cardinality(S) /\ \A n \in 1..Cardinality(S) : s[n] = m.mapping[Nth(S, n)]
      BY DEF WordsAt
    <3>3. LayerOf(s[i]) = l  BY <2>2, <3>1, <3>2
    <3>4. ASSUME NEW j \in 1..Cardinality(S), j > i PROVE LayerOf(s[j]) # l
      <4> DEFINE a == Nth(S, j)
      <4>1. a \in S /\ Under(S, a) = j - 1 /\ j \in Int  BY <2>6, NthIn
      <4>2. s[j] = m.mapping[a]  BY <3>2
      <4> HIDE DEF a
      <4>3. /\ S \in SUBSET Int /\ IsFiniteSet(S) /\ a \in Int /\ pos \in Int
            /\ Under(S, a) \in Nat /\ Under(S, pos) \in Nat
        BY <2>6, <2>9, <4>1, Subsets
      <4>4. Under(S, pos) < Under(S, a)  BY <3>4, <4>1, <4>3
      <4>5. a <= pos => Under(S, a) <= Under(S, pos)  BY <4>3, UnderGap
      <4>6. ~ (a <= pos)  BY <4>3, <4>4, <4>5
      <4> QED BY <2>2, <2>6, <4>1, <4>2, <4>6
    <3> QED BY <3>1, <3>2, <3>3, <3>4 DEF Newest
  <2> HIDE DEF i
  <2>14. PlainLayers(m) = s /\ PlainLayers(r) = Without(s, i)
    BY <2>11, <2>12 DEF PlainLayers, S, T
  <2> QED BY <2>8, <2>13, <2>14
<1> QED BY <1>1, <1>2

\* The base is the first layer.
LEMMA FirstPlain ==
  ASSUME PlainBases, NEW m \in Manager, MemoryInv(m), Based(m)
  PROVE  /\ Nth(PlainAt(m), 1) = layout_bottom /\ layout_bottom \in PlainAt(m)
         /\ 1 \in 1..Cardinality(PlainAt(m))
         /\ \A n \in 1..Cardinality(PlainAt(m)) : Nth(PlainAt(m), n) = layout_bottom => n = 1
         /\ PlainLayers(m)[1] = m.mapping[layout_bottom] /\ PlainLayers(m) # << >>
<1> USE Bounds, Fields
<1> DEFINE S == PlainAt(m)
<1>1. /\ S \in SUBSET (0..(LAYOUT_MAX - 1)) /\ LAYOUT_MAX \in Nat
      /\ \A a : a \in S <=> a \in Live(m) /\ LayerOf(m.mapping[a]) \notin Composites
      /\ \A a \in Live(m) : a \in Int /\ layout_bottom <= a
  BY PlainSet
<1> HIDE DEF S
<1>2. layout_bottom \in S
  <2>1. layout_bottom \in Live(m)  BY DEF Based, Live
  <2> QED BY <1>1, <2>1 DEF Based, PlainBases
<1>3. Under(S, layout_bottom) = 0
  <2>1. {h \in S : h < layout_bottom} = {}
    <3> SUFFICES ASSUME NEW h \in S, h < layout_bottom PROVE FALSE
      OBVIOUS
    <3>1. h \in Int /\ layout_bottom <= h  BY <1>1
    <3> QED BY <3>1
  <2> QED BY <2>1, FS_EmptySet DEF Under
<1>4. Nth(S, 1) = layout_bottom /\ 1 \in 1..Cardinality(S)
  <2>1. 1 = Under(S, layout_bottom) + 1  BY <1>3
  <2> QED BY <1>1, <1>2, <2>1, NthOf
<1>5. ASSUME NEW n \in 1..Cardinality(S), Nth(S, n) = layout_bottom PROVE n = 1
  <2>1. Under(S, layout_bottom) = n - 1 /\ n \in Int  BY <1>1, <1>5, NthIn
  <2> QED BY <1>3, <2>1
<1>6. PlainLayers(m)[1] = m.mapping[layout_bottom] /\ DOMAIN PlainLayers(m) # {}
  BY <1>4 DEF PlainLayers, WordsAt, S
<1>7. PlainLayers(m) # << >>  BY <1>6
<1> QED BY <1>2, <1>4, <1>5, <1>6, <1>7 DEF S

\* A stack of one word is that word.
LEMMA OnePlain ==
  ASSUME PlainBases, NEW m \in Manager, MemoryInv(m), m.layout_top = layout_bottom + 1,
         LayerOf(m.mapping[layout_bottom]) \in Bases
  PROVE  Based(m) /\ PlainLayers(m) = <<m.mapping[layout_bottom]>>
<1> USE Bounds, Fields
<1>1. Based(m)  BY DEF Based
<1>2. PlainAt(m) = {layout_bottom}
  <2>1. Live(m) = {layout_bottom}  BY DEF Live
  <2>2. layout_bottom \in PlainAt(m)  BY <1>1, FirstPlain
  <2>3. \A a \in PlainAt(m) : a \in Live(m)  BY PlainSet
  <2> QED BY <2>1, <2>2, <2>3
<1>3. Cardinality(PlainAt(m)) = 1  BY <1>2, FS_Singleton
<1>4. Nth(PlainAt(m), 1) = layout_bottom  BY <1>1, FirstPlain
<1>5. PlainLayers(m) = [n \in 1..1 |-> m.mapping[Nth(PlainAt(m), n)]]
  BY <1>3 DEF PlainLayers, WordsAt
<1>6. \A n \in 1..1 : n = 1  OBVIOUS
<1>7. PlainLayers(m) = [n \in 1..1 |-> m.mapping[layout_bottom]]
  BY <1>4, <1>5, <1>6
<1> QED BY <1>1, <1>7

\* set_layout replaces the oldest word.
LEMMA SetPlain ==
  ASSUME PlainBases, NEW m \in Manager, MemoryInv(m), Based(m), NEW w \in BaseLayers,
         NEW r, r = SetLayout(m, w)
  PROVE  Based(r) /\ PlainLayers(r) = [PlainLayers(m) EXCEPT ![1] = w]
<1> USE Bounds, Fields
<1>1. w \in 0..255 /\ LayerOf(w) = w /\ w \in Bases
  <2>1. BaseLayers \subseteq 0..255  BY CallsAssumption
  <2>2. w \in 0..255  BY <2>1
  <2>3. LayerOf(w) = w  BY ONLY <2>2 DEF LayerOf
  <2> QED BY <2>2, <2>3 DEF Bases
<1>2. layout_bottom \in Live(m) /\ layout_bottom \in Addr
  BY DEF Based, Live, Addr
<1>3. r.layout_top = m.layout_top /\ r.mapping = [m.mapping EXCEPT ![layout_bottom] = w]
  BY DEF SetLayout, Manager
<1>4. Live(r) = Live(m) /\ r.mapping[layout_bottom] = w  BY <1>2, <1>3 DEF Live
<1>5. Based(r)  BY <1>1, <1>3, <1>4 DEF Based
<1>6. r \in Manager /\ MemoryInv(r)
  <2>1. w \in Nat  BY <1>1
  <2>2. /\ r \in Manager /\ SameMemory(m, r) /\ MemoryInv(r)  BY <2>1, BaseInv
  <2> QED BY <2>2
<1> DEFINE S == PlainAt(m)
<1>7. PlainAt(r) = S
  <2>1. layout_bottom \in S /\ layout_bottom \in PlainAt(r)  BY <1>5, <1>6, FirstPlain
  <2>2. \A a : a # layout_bottom => r.mapping[a] = m.mapping[a]
    <3>1. ASSUME NEW a, a # layout_bottom PROVE r.mapping[a] = m.mapping[a]
      BY <1>3, <3>1
    <3> QED BY <3>1
  <2>3. /\ \A a : a \in S <=> a \in Live(m) /\ LayerOf(m.mapping[a]) \notin Composites
        /\ \A a : a \in PlainAt(r) <=> a \in Live(r) /\ LayerOf(r.mapping[a]) \notin Composites
    BY <1>6, PlainSet
  <2> HIDE DEF S
  <2>4. \A a : a \in PlainAt(r) <=> a \in S  BY <1>4, <2>1, <2>2, <2>3
  <2> QED BY <2>4
<1>8. /\ Nth(S, 1) = layout_bottom /\ 1 \in 1..Cardinality(S)
      /\ \A n \in 1..Cardinality(S) : Nth(S, n) = layout_bottom => n = 1
  BY FirstPlain
<1> HIDE DEF S
<1>9. ASSUME NEW n \in 1..Cardinality(S)
      PROVE  r.mapping[Nth(S, n)] = IF n = 1 THEN w ELSE m.mapping[Nth(S, n)]
  <2>1. CASE n = 1  BY <1>4, <1>8, <2>1
  <2>2. CASE n # 1
    <3>1. Nth(S, n) # layout_bottom  BY <1>8, <2>2
    <3> QED BY <1>3, <2>2, <3>1
  <2> QED BY <2>1, <2>2
<1>10. PlainLayers(r) = [PlainLayers(m) EXCEPT ![1] = w]
  BY <1>7, <1>8, <1>9 DEF PlainLayers, WordsAt, S
<1> QED BY <1>5, <1>10

-----------------------------------------------------------------------------
(***************************************************************************)
(* Layout implements LayerStack.                                           *)
(***************************************************************************)
\* The steps of LayerStack, from s to t.
LayerStep(s, t) ==
  \/ t = s
  \/ \E w \in PushLayers : t = Append(s, w) \/ \E i : Newest(s, LayerOf(w), i) /\ t = Without(s, i)
  \/ \E w \in BaseLayers : s # << >> /\ t = [s EXCEPT ![1] = w]
  \/ s # << >> /\ t = <<s[1]>>
  \/ t = <<MAIN_BASE>>

LEMMA LayerStepIs ==
  ASSUME LayerStep(PlainLayers(mgr), PlainLayers(mgr)')
  PROVE  [Layers!Next]_(PlainLayers(mgr))
<1> DEFINE s == PlainLayers(mgr)
           t == PlainLayers(mgr)'
<1>1. CASE t = s  BY <1>1
<1>2. ASSUME NEW w \in PushLayers, t = Append(s, w) PROVE Layers!Next
  BY <1>2 DEF Layers!Next, Layers!Activate
<1>3. ASSUME NEW w \in PushLayers, NEW i, Newest(s, LayerOf(w), i), t = Without(s, i)
      PROVE  Layers!Next
  <2>1. i \in Layers!Last(LayerOf(w))  BY <1>3 DEF Layers!Last, Newest
  <2>2. Layers!Deactivate(LayerOf(w))  BY <1>3, <2>1 DEF Layers!Deactivate, Without
  <2> QED BY <2>2 DEF Layers!Next
<1>4. ASSUME NEW w \in BaseLayers, s # << >>, t = [s EXCEPT ![1] = w] PROVE Layers!Next
  BY <1>4 DEF Layers!Next, Layers!Rebase
<1>5. ASSUME s # << >>, t = <<s[1]>> PROVE Layers!Next
  BY <1>5 DEF Layers!Next, Layers!ToBase
<1>6. ASSUME t = <<MAIN_BASE>> PROVE Layers!Next
  BY <1>6 DEF Layers!Next, Layers!Reset, MAIN_BASE
<1> QED BY <1>1, <1>2, <1>3, <1>4, <1>5, <1>6 DEF LayerStep

LInv == IInv /\ Based(mgr)

\* After clear_all, and after a load, there is the main base alone.
LEMMA ClearedPlain ==
  ASSUME PlainBases, NEW m \in Manager, NEW r, r = ClearAll(m)
  PROVE  Based(r) /\ PlainLayers(r) = <<MAIN_BASE>>
<1> USE Bounds, Fields
<1>1. r \in Manager /\ MemoryInv(r)  BY ClearAllInv
<1>2. r.layout_top = layout_bottom + 1 /\ r.mapping[layout_bottom] = MAIN_BASE
  <2>1. layout_bottom \in Addr  BY DEF Addr
  <2> QED BY <2>1 DEF ClearAll, ClearLayers, SetLayout, Manager
<1>3. LayerOf(MAIN_BASE) = MAIN_BASE /\ MAIN_BASE \in Bases  BY DEF LayerOf, MAIN_BASE, Bases
<1> QED BY <1>1, <1>2, <1>3, OnePlain

LEMMA LayersInit ==
  ASSUME PlainBases, Init
  PROVE  LInv /\ Layers!Init
<1> DEFINE e == [mapping |-> [a \in Addr |-> 0], layout_top |-> 0, macro_stack |-> 0,
                 memo_bottom |-> 0, memo_top |-> 0,
                 active_comp_part_layers |-> {}, active_comp_count |-> 0]
<1>1. IInv  BY InitInv
<1>2. e \in Manager  BY DEF Manager
<1>3. mgr = ClearAll(e)  BY DEF Init, Loaded
<1> HIDE DEF e
<1>4. Based(mgr) /\ PlainLayers(mgr) = <<MAIN_BASE>>  BY <1>2, <1>3, ClearedPlain
<1> QED BY <1>1, <1>4 DEF LInv, Layers!Init, MAIN_BASE

\* Every call is a step of LayerStack, or leaves the layers alone.
LEMMA LayersNext ==
  ASSUME SafeCalls, PlainBases, LInv, [Next]_vars
  PROVE  Based(mgr') /\ LayerStep(PlainLayers(mgr), PlainLayers(mgr'))
<1> USE Bounds
<1> DEFINE Goal == Based(mgr') /\ LayerStep(PlainLayers(mgr), PlainLayers(mgr'))
<1>0. /\ mgr \in Manager /\ MemoryInv(mgr) /\ macro_running \in MacroType /\ Based(mgr)
      /\ macro_running # Noop => mgr.memo_bottom > mgr.macro_stack
  BY DEF LInv, IInv, TypeOK, MacroType
<1>f. /\ mgr.layout_top \in Int /\ mgr.macro_stack \in Int
      /\ mgr.memo_bottom \in Int /\ mgr.memo_top \in Int
  BY <1>0, Fields
<1>n. PlainLayers(mgr) # << >> /\ PlainLayers(mgr)[1] = mgr.mapping[layout_bottom]
  BY <1>0, FirstPlain
<1>s. ASSUME SameStack(mgr, mgr') PROVE Goal
  <2>1. PlainLayers(mgr') = PlainLayers(mgr)  BY <1>0, <1>s, SamePlain
  <2>2. Based(mgr')  BY <1>0, <1>s, SameStackLayers
  <2> QED BY <2>1, <2>2 DEF LayerStep
<1>r. ASSUME Reset PROVE Goal
  <2>1. Based(mgr') /\ PlainLayers(mgr') = <<MAIN_BASE>>
    BY <1>0, <1>r, ClearedPlain DEF Reset
  <2> QED BY <2>1 DEF LayerStep
<1>i. SameStack(mgr, mgr)  BY DEF SameStack
<1>1. CASE UNCHANGED vars  BY <1>1, <1>i, <1>s DEF vars
<1>2. ASSUME NEW w \in PushLayers, Push(w) \/ Pop(LayerOf(w)) PROVE Goal
  <2>1. w \in Nat /\ LayerOf(w) \in Nat /\ LayerOf(w) \notin Composites \cup Bases
    BY CallsAssumption DEF LayerOf, PlainBases
  <2>2. CASE Push(w)
    <3>1. mgr' = PushLayer(mgr, w).m  BY <2>2 DEF Push
    <3>2. /\ Based(mgr')
          /\ \/ PlainLayers(mgr') = PlainLayers(mgr)
             \/ PlainLayers(mgr') = Append(PlainLayers(mgr), w)
      BY <1>0, <2>1, <3>1, PushPlain
    <3> QED BY <3>2 DEF LayerStep
  <2>3. CASE Pop(LayerOf(w))
    <3>1. mgr' = PopLayer(mgr, LayerOf(w)).m  BY <2>3 DEF Pop
    <3> DEFINE l == LayerOf(w)
    <3> HIDE DEF l
    <3>2. /\ Based(mgr')
          /\ \/ PlainLayers(mgr') = PlainLayers(mgr)
             \/ \E i : /\ Newest(PlainLayers(mgr), l, i)
                       /\ PlainLayers(mgr') = Without(PlainLayers(mgr), i)
      BY <1>0, <2>1, <3>1, PopPlain DEF l
    <3> QED BY <3>2 DEF LayerStep, l
  <2> QED BY <1>2, <2>2, <2>3
<1>3. ASSUME NEW w \in BaseLayers, SetBase(w) PROVE Goal
  <2>1. mgr' = SetLayout(mgr, w)  BY <1>3 DEF SetBase
  <2>2. Based(mgr') /\ PlainLayers(mgr') = [PlainLayers(mgr) EXCEPT ![1] = w]
    BY <1>0, <2>1, SetPlain
  <2> QED BY <1>n, <2>2 DEF LayerStep
<1>4. CASE ClearEverything  BY <1>4, <1>r DEF ClearEverything
<1>5. CASE ClearToBase
  <2>1. mgr' = ClearLayers(mgr)  BY <1>5 DEF ClearToBase
  <2>2. mgr'.layout_top = layout_bottom + 1 /\ mgr'.mapping = mgr.mapping
    BY <1>0, <2>1 DEF ClearLayers, Manager
  <2>3. mgr' \in Manager /\ MemoryInv(mgr')
    <3>1. 0 \in Nat  OBVIOUS
    <3> QED BY <1>0, <2>1, <3>1, BaseInv
  <2>4. Based(mgr') /\ PlainLayers(mgr') = <<mgr.mapping[layout_bottom]>>
    <3>1. LayerOf(mgr'.mapping[layout_bottom]) \in Bases  BY <1>0, <2>2 DEF Based
    <3> QED BY <2>2, <2>3, <3>1, OnePlain
  <2> QED BY <1>n, <2>4 DEF LayerStep
<1>6. CASE ClearModifiers \/ ClearModifiersPanics
  BY <1>6 DEF ClearModifiers, ClearModifiersPanics, May, SafeCalls
<1>7. ASSUME NEW memo \in Memos, PutOff(memo) PROVE Goal
  <2>1. memo \in Seq(Nat) /\ Len(memo) \in {2, 5}  BY CallsAssumption
  <2>2. CASE Reset  BY <1>r, <2>2
  <2>3. CASE PushMemo(mgr, memo).ok /\ mgr' = PushMemo(mgr, memo).m
    BY <1>0, <1>s, <2>1, <2>3, PushMemoSame
  <2> QED BY <1>7, <2>2, <2>3 DEF PutOff
<1>8. CASE RunMemo
  <2>1. mgr.memo_bottom # mgr.memo_top  BY <1>8 DEF RunMemo
  <2>2. mgr.mapping[mgr.memo_top - 1] \in {2, 5}
    BY <1>0, <2>1 DEF MemoryInv, MemoChain, Chained
  <2>3. mgr' = PopMemo(mgr).m  BY <1>8, <2>2 DEF RunMemo
  <2>4. SameStack(mgr, mgr')  BY <1>0, <2>1, <2>3, PopSame
  <2> QED BY <1>s, <2>4
<1>9. ASSUME NEW mac \in Macros, CallMacro(mac) PROVE Goal
  <2>1. mac \in MacroType  BY CallsAssumption DEF MacroType
  <2>2. SlotRoom  BY <1>9 DEF CallMacro, May, SafeCalls
  <2>3. ~ UpdateMacroPanics(mgr, macro_running)
    <3>1. macro_running # Noop => mgr.macro_stack + 3 <= LAYOUT_MAX
      BY <1>0, <1>f, SlotIsWhole DEF MemoryInv, Ordered
    <3> QED BY <1>0, <1>f, <3>1 DEF UpdateMacroPanics
  <2> DEFINE u == UpdateMacro(mgr, macro_running)
  <2>4. mgr' = PushMacro(u, mac)  BY <1>9, <2>3 DEF CallMacro
  <2>5. u \in Manager /\ MemoryInv(u) /\ SameStack(mgr, u)
        /\ u.macro_stack = mgr.macro_stack /\ u.memo_top = mgr.memo_top
    BY <1>0, UpdateMacroInv, UpdateMacroSame
  <2> HIDE DEF u
  <2>6. DefragStack(u).macro_stack - DefragStack(u).layout_top > 3
    <3>1. DefragStack(u).macro_stack = DefragStack(mgr).macro_stack
      BY <1>0, <2>5, DefragSame
    <3>2. DefragStack(u).layout_top = mgr.layout_top
      BY <2>5, DefragSame DEF SameStack
    <3> QED BY <2>2, <3>1, <3>2 DEF SlotRoom
  <2>7. SameStack(u, mgr')  BY <2>1, <2>4, <2>5, <2>6, PushMacroSame
  <2>8. SameStack(mgr, mgr')  BY <2>5, <2>7, SameStackTransitive
  <2> QED BY <1>s, <2>8
<1>10. CASE AdvanceMacro  BY <1>10, <1>i, <1>s DEF AdvanceMacro
<1>11. CASE ReturnMacro
  <2>1. mgr.memo_bottom > mgr.macro_stack  BY <1>0, <1>11 DEF ReturnMacro
  <2>2. mgr.macro_stack + 3 <= mgr.memo_bottom  BY <1>0, <2>1, SlotIsWhole
  <2>3. mgr' = PopMacro(mgr).m  BY <1>11, <1>f, <2>2 DEF ReturnMacro, PopMacroPanics
  <2>4. SameStack(mgr, mgr')  BY <1>0, <2>3, PopSame
  <2> QED BY <1>s, <2>4
<1> QED BY <1>1, <1>2, <1>3, <1>4, <1>5, <1>6, <1>7, <1>8, <1>9, <1>10, <1>11 DEF Next

\* With the composites taken away the stack is a plain stack of layers: composites
\* come and go without disturbing the layers they are built from, also when they find
\* no room, and a deactivation removes the newest activation of its layer only.
THEOREM LayersImplemented == ASSUME SafeCalls, PlainBases PROVE Spec => LayersStacked
<1>1. Init => LInv /\ Layers!Init  BY LayersInit
<1>2. LInv /\ [Next]_vars => LInv' /\ [Layers!Next]_(PlainLayers(mgr))
  <2> SUFFICES ASSUME LInv, [Next]_vars PROVE LInv' /\ [Layers!Next]_(PlainLayers(mgr))
    OBVIOUS
  <2>1. Based(mgr') /\ LayerStep(PlainLayers(mgr), PlainLayers(mgr'))  BY LayersNext
  <2>2. IInv'  BY StepInv DEF LInv
  <2>3. PlainLayers(mgr)' = PlainLayers(mgr')  BY DEF PlainLayers, WordsAt, PlainAt
  <2>4. Based(mgr)'  BY <2>1 DEF Based
  <2>5. [Layers!Next]_(PlainLayers(mgr))  BY <2>1, <2>3, LayerStepIs
  <2> QED BY <2>2, <2>4, <2>5 DEF LInv
<1> QED BY <1>1, <1>2, PTL DEF Spec, LayersStacked, Layers!Spec

-----------------------------------------------------------------------------
(***************************************************************************)
(* stop_active keeps the layers of the user, whatever was called before,   *)
(* also when layers, macro states and memos have run into each other.      *)
(***************************************************************************)
\* The pointers are numbers, and the array has its words.
Shaped(m) ==
  /\ m \in [mapping : {m.mapping}, layout_top : Int, macro_stack : Int,
            memo_bottom : Int, memo_top : Int,
            active_comp_part_layers : {m.active_comp_part_layers},
            active_comp_count : {m.active_comp_count}]
  /\ m.mapping = [a \in Addr |-> m.mapping[a]]

\* A sequence and one that goes on after it.
Prefix(s, t) == Len(s) <= Len(t) /\ SubSeq(t, 1, Len(s)) = s

LEMMA StopKeeps ==
  ASSUME NEW m, Shaped(m), ~ ClearModifierPanics(m), NEW r, r = ClearModifierLayers(m)
  PROVE  Prefix(UserLayers(m), UserLayers(r))
<1> USE Bounds
<1> DEFINE kept == KeptWords(m)
           k == Cardinality(kept)
           S == UserAt(m)
           T == UserAt(r)
           top == m.layout_top
           map == [a \in Addr |-> IF a - layout_bottom \in 1..k
                                  THEN m.mapping[Nth(kept, a - layout_bottom)] ELSE m.mapping[a]]
<1>1. top \in Int /\ top < LAYOUT_MAX  BY DEF Shaped, ClearModifierPanics
<1>2. r.mapping = map /\ r.layout_top = layout_bottom + 1 + k
  <2>1. r = [m EXCEPT !.mapping = map, !.layout_top = layout_bottom + 1 + k]
    BY DEF ClearModifierLayers
  <2> HIDE DEF map, k
  <2> QED BY <2>1 DEF Shaped
<1>3. /\ \A a : a \in kept <=> a \in (layout_bottom + 1)..top /\ m.mapping[a] >= 5
      /\ kept \in SUBSET (0..(LAYOUT_MAX - 1))
      /\ kept \in SUBSET ((layout_bottom + 1)..top)
  BY <1>1 DEF KeptWords
<1>4. /\ \A a : a \in S <=> a \in kept /\ a < top
      /\ S \in SUBSET (0..(LAYOUT_MAX - 1)) /\ LAYOUT_MAX \in Nat
  <2>1. \A a \in Int : a \in (layout_bottom + 1)..(top - 1)
                         <=> a \in (layout_bottom + 1)..top /\ a < top
    BY <1>1
  <2>2. \A a : a \in S <=> a \in kept /\ a < top
    BY <1>1, <2>1 DEF UserAt, KeptWords
  <2> QED BY <1>3, <2>2
<1> HIDE DEF kept, S, top, map, k
<1>5. /\ k \in Nat /\ k = Cardinality(kept)
      /\ kept \in SUBSET Int /\ IsFiniteSet(kept)
      /\ \A a \in kept : a \in Int /\ Under(kept, a) \in Nat
  BY <1>3, <1>4, Subsets DEF k
<1>6. k = 0 \/ layout_bottom + k <= top
  <2>1. k # 0 => kept # {}  BY FS_EmptySet DEF k
  <2>2. kept # {} => layout_bottom + 1 <= top
    <3> SUFFICES ASSUME NEW a \in kept PROVE layout_bottom + 1 <= top
      OBVIOUS
    <3>1. a \in (layout_bottom + 1)..top  BY <1>3
    <3> QED BY <1>1, <3>1
  <2>3. ASSUME layout_bottom + 1 <= top PROVE k <= top - layout_bottom
    <3>1. /\ IsFiniteSet((layout_bottom + 1)..top)
          /\ Cardinality((layout_bottom + 1)..top) = top - (layout_bottom + 1) + 1
      <4>1. layout_bottom + 1 \in Int /\ ~ (layout_bottom + 1 > top)  BY <1>1, <2>3
      <4> QED BY <1>1, <4>1, FS_Interval
    <3>2. k <= Cardinality((layout_bottom + 1)..top)  BY <1>3, <1>5, <3>1, FS_Subset
    <3> QED BY <1>1, <1>5, <3>1, <3>2
  <2> QED BY <1>1, <1>5, <2>1, <2>2, <2>3
<1>7. ASSUME NEW n \in 1..k
      PROVE  /\ n \in Int /\ layout_bottom + n \in Int
             /\ map[layout_bottom + n] = m.mapping[Nth(kept, n)]
             /\ Nth(kept, n) \in kept /\ Under(kept, Nth(kept, n)) = n - 1
  <2>1. n \in Int /\ 1 <= n /\ n <= k  BY <1>5
  <2>2. layout_bottom + n \in Addr  BY <1>1, <1>5, <1>6, <2>1 DEF Addr
  <2>3. layout_bottom + n - layout_bottom = n  BY <2>1
  <2>4. map[layout_bottom + n] = m.mapping[Nth(kept, n)]  BY <2>2, <2>3 DEF map
  <2>5. Nth(kept, n) \in kept /\ Under(kept, Nth(kept, n)) = n - 1
    BY <1>3, <1>4, <1>5, NthIn
  <2> QED BY <2>1, <2>4, <2>5
<1>8. \A a : a \in T <=> \E n \in 1..k : a = layout_bottom + n
  <2>1. \A a : a \in T <=> a \in (layout_bottom + 1)..(layout_bottom + k) /\ map[a] >= 5
    <3>1. r.layout_top - 1 = layout_bottom + k  BY <1>2, <1>5
    <3>2. T = {a \in (layout_bottom + 1)..(layout_bottom + k) : map[a] >= 5}
      BY ONLY <1>2, <3>1 DEF UserAt
    <3> HIDE DEF T
    <3> QED BY ONLY <3>2
  <2>2. \A a \in T : a - layout_bottom \in 1..k /\ a = layout_bottom + (a - layout_bottom)
    BY <1>5, <2>1
  <2>3. ASSUME NEW n \in 1..k PROVE layout_bottom + n \in T
    <3>1. layout_bottom + n \in (layout_bottom + 1)..(layout_bottom + k)  BY <1>5
    <3>2. map[layout_bottom + n] >= 5  BY <1>3, <1>7
    <3> QED BY <2>1, <3>1, <3>2
  <2> QED BY <2>2, <2>3
<1>9. T \in SUBSET (0..(LAYOUT_MAX - 1))
  <2> SUFFICES ASSUME NEW a \in T PROVE a \in 0..(LAYOUT_MAX - 1)
    OBVIOUS
  <2>1. PICK n \in 1..k : a = layout_bottom + n  BY <1>8
  <2>2. n \in Int /\ 1 <= n /\ n <= k  BY <1>5
  <2> QED BY <1>1, <1>5, <1>6, <2>1, <2>2
<1> HIDE DEF T
<1> DEFINE f == [a \in kept |-> layout_bottom + (Under(kept, a) + 1)]
<1>10. Moved(m, kept, r, T, f)
  <2>1. ASSUME NEW a \in kept, NEW n, n = Under(kept, a) + 1
        PROVE  n \in 1..k /\ Nth(kept, n) = a /\ f[a] = layout_bottom + n
    BY <1>3, <1>4, <2>1, NthOf DEF k
  <2>2. ASSUME NEW a \in kept PROVE f[a] \in T /\ r.mapping[f[a]] = m.mapping[a]
    <3> DEFINE n == Under(kept, a) + 1
    <3>1. n \in 1..k /\ Nth(kept, n) = a /\ f[a] = layout_bottom + n  BY <2>1
    <3> HIDE DEF n, f
    <3> QED BY <1>2, <1>7, <1>8, <3>1
  <2>3. ASSUME NEW a \in kept, NEW b \in kept, a < b PROVE f[a] < f[b]
    <3>1. Under(kept, a) < Under(kept, b)  BY <1>5, <2>3, UnderGap
    <3> QED BY <1>5, <3>1
  <2>4. ASSUME NEW c \in T PROVE \E a \in kept : c = f[a]
    <3>1. PICK n \in 1..k : c = layout_bottom + n  BY <1>8
    <3>2. Nth(kept, n) \in kept /\ Under(kept, Nth(kept, n)) = n - 1 /\ n \in Int  BY <1>7
    <3>3. f[Nth(kept, n)] = layout_bottom + (n - 1 + 1)  BY <3>2
    <3>4. n - 1 + 1 = n  BY <3>2
    <3> QED BY <3>1, <3>2, <3>3, <3>4
  <2>5. f \in [kept -> T]  BY <2>2
  <2> HIDE DEF f
  <2> QED BY <2>2, <2>3, <2>4, <2>5 DEF Moved
<1> HIDE DEF f
<1>11. UserLayers(r) = WordsAt(m, kept) /\ UserLayers(m) = WordsAt(m, S)
  <2>1. WordsAt(r, T) = WordsAt(m, kept)
    <3>1. kept \in SUBSET (0..(LAYOUT_MAX - 1))  BY <1>3
    <3>2. LAYOUT_MAX \in Nat /\ T \in SUBSET (0..(LAYOUT_MAX - 1))  BY <1>4, <1>9
    <3>3. \A hi \in Nat : \A K, U \in SUBSET (0..(hi - 1)) : \A g :
            Moved(m, K, r, U, g) => WordsAt(r, U) = WordsAt(m, K)
      BY ONLY WordsMoved
    <3> QED BY ONLY <1>10, <3>1, <3>2, <3>3
  <2> QED BY <2>1 DEF UserLayers, S, T
<1> DEFINE V == {m.mapping[a] : a \in kept}
           s == WordsAt(m, S)
<1>12. /\ s \in Seq(V)
       /\ \A x \in V : /\ Append(s, x) \in Seq(V) /\ Len(Append(s, x)) = Len(s) + 1
                       /\ Len(s) \in Nat
                       /\ \A n \in 1..Len(s) : Append(s, x)[n] = s[n]
  <2>1. \A a \in S : m.mapping[a] \in V  BY <1>4
  <2> HIDE DEF V
  <2>2. s \in Seq(V)  BY <1>4, <2>1, WordsSeq
  <2> HIDE DEF s
  <2> QED BY <2>2, AppendProperties, LenProperties
<1>13. CASE top \notin kept
  <2>1. kept = S
    <3>1. \A a \in kept : a < top
      <4> SUFFICES ASSUME NEW a \in kept PROVE a < top
        OBVIOUS
      <4>1. a \in (layout_bottom + 1)..top /\ a # top  BY <1>3, <1>13
      <4> QED BY <1>1, <4>1
    <3> QED BY <1>4, <3>1
  <2> HIDE DEF V, s
  <2>2. SubSeq(s, 1, Len(s)) = s /\ Len(s) \in Nat  BY <1>12, SubSeqFull, LenProperties
  <2> QED BY <1>11, <2>1, <2>2 DEF Prefix, s
<1>14. CASE top \in kept
  <2>1. kept = S \cup {top} /\ \A a \in S : a < top
    <3>1. \A a \in kept : a < top \/ a = top
      <4> SUFFICES ASSUME NEW a \in kept PROVE a < top \/ a = top
        OBVIOUS
      <4>1. a \in (layout_bottom + 1)..top  BY <1>3
      <4> QED BY <1>1, <4>1
    <3> QED BY <1>4, <1>14, <3>1
  <2>2. top \in 0..(LAYOUT_MAX - 1)  BY <1>3, <1>14
  <2>3. Appended(m, S, m, top)
    <3>1. \A a \in S : a < top  BY <2>1
    <3> QED BY ONLY <1>4, <2>2, <3>1, WordsAppended
  <2> DEFINE x == m.mapping[top]
  <2>4. WordsAt(m, kept) = Append(s, x)  BY <2>1, <2>3 DEF Appended
  <2>5. x \in V  BY <1>14
  <2> HIDE DEF V, s, x
  <2> DEFINE t == Append(s, x)
  <2>6. /\ t \in Seq(V) /\ Len(t) = Len(s) + 1 /\ Len(s) \in Nat
        /\ \A n \in 1..Len(s) : t[n] = s[n]
    BY <1>12, <2>5
  <2> HIDE DEF t
  <2>7. SubSeq(t, 1, Len(s)) = s
    <3> DEFINE u == SubSeq(t, 1, Len(s))
    <3>1. \A n \in 1..Len(s) : n \in 1..Len(t) /\ n \in Int /\ 1 + n - 1 = n  BY <2>6
    <3>2. 1 \in Int /\ Len(s) \in Int /\ \A n \in 1..Len(s) : t[n] \in V
      BY <2>6, <3>1, ElementOfSeq
    <3>3. /\ u \in Seq(V) /\ Len(u) = IF 1 <= Len(s) THEN Len(s) - 1 + 1 ELSE 0
          /\ \A n \in 1..(Len(s) - 1 + 1) : u[n] = t[1 + n - 1]
      BY <3>2, SubSeqProperties
    <3> HIDE DEF u
    <3>4. Len(u) = Len(s) /\ Len(s) - 1 + 1 = Len(s)  BY <2>6, <3>3
    <3>5. \A n \in 1..Len(s) : u[n] = s[n]  BY <2>6, <3>1, <3>3, <3>4
    <3>6. u = s  BY <1>12, <3>3, <3>4, <3>5, SeqEqual
    <3> QED BY <3>6 DEF u
  <2> QED BY <1>11, <2>4, <2>6, <2>7 DEF Prefix, s, t
<1> QED BY <1>13, <1>14

-----------------------------------------------------------------------------
\* The shape needs no invariant of the memory: every operation keeps it.
LEMMA ShapedClear ==
  ASSUME NEW m, Shaped(m), NEW n
  PROVE  Shaped(ClearLayers(m)) /\ Shaped(SetLayout(m, n))
<1> USE Bounds
<1> DEFINE map == [m.mapping EXCEPT ![layout_bottom] = n]
<1>1. map = [a \in Addr |-> map[a]]  BY DEF Shaped
<1>2. SetLayout(m, n) = [m EXCEPT !.mapping = map]  BY DEF SetLayout
<1> HIDE DEF map
<1>3. Shaped(SetLayout(m, n))  BY <1>1, <1>2 DEF Shaped
<1>4. Shaped(ClearLayers(m))  BY DEF Shaped, ClearLayers
<1> QED BY <1>3, <1>4

LEMMA ShapedClearAll == ASSUME NEW m, Shaped(m) PROVE Shaped(ClearAll(m))
<1> DEFINE e == [m EXCEPT !.macro_stack = LAYOUT_MAX, !.memo_bottom = LAYOUT_MAX,
                          !.memo_top = LAYOUT_MAX]
<1>1. Shaped(e)
  <2> SUFFICES ASSUME NEW x, x = e PROVE Shaped(x)
    OBVIOUS
  <2>1. LAYOUT_MAX \in Int  BY Bounds
  <2>2. x.mapping = m.mapping  BY DEF Shaped
  <2>3. x \in [mapping : {x.mapping}, layout_top : Int, macro_stack : Int,
               memo_bottom : Int, memo_top : Int,
               active_comp_part_layers : {x.active_comp_part_layers},
               active_comp_count : {x.active_comp_count}]
    BY <2>1 DEF Shaped
  <2> QED BY <2>2, <2>3 DEF Shaped
<1>2. ClearAll(m) = SetLayout(ClearLayers(e), MAIN_BASE)  BY DEF ClearAll
<1> HIDE DEF e
<1>3. Shaped(ClearLayers(e))  BY <1>1, ShapedClear
<1> QED BY <1>2, <1>3, ShapedClear

LEMMA ShapedLoaded == Shaped(Loaded)
<1> DEFINE zeros == [a \in Addr |-> 0]
           e == [mapping |-> zeros, layout_top |-> 0, macro_stack |-> 0,
                 memo_bottom |-> 0, memo_top |-> 0,
                 active_comp_part_layers |-> {}, active_comp_count |-> 0]
<1>1. Loaded = ClearAll(e)  BY DEF Loaded
<1>2. zeros = [a \in Addr |-> zeros[a]]  OBVIOUS
<1> HIDE DEF zeros
<1>3. Shaped(e)  BY <1>2 DEF Shaped
<1> HIDE DEF e
<1> QED BY <1>1, <1>3, ShapedClearAll

\* The part of the shape that a change of the layers has to keep.
LEMMA ShapedLayers ==
  ASSUME NEW m, Shaped(m), NEW f, f = [a \in Addr |-> f[a]], NEW top \in Int,
         NEW parts, NEW count,
         NEW r, r = [m EXCEPT !.mapping = f, !.layout_top = top,
                              !.active_comp_part_layers = parts, !.active_comp_count = count]
  PROVE  Shaped(r)
BY DEF Shaped

\* The same for a change of the macro states and memos.
LEMMA ShapedMemory ==
  ASSUME NEW m, Shaped(m), NEW f, f = [a \in Addr |-> f[a]],
         NEW stack \in Int, NEW bottom \in Int, NEW top \in Int,
         NEW r, r = [m EXCEPT !.mapping = f, !.macro_stack = stack,
                              !.memo_bottom = bottom, !.memo_top = top]
  PROVE  Shaped(r)
BY DEF Shaped

LEMMA ShapedPush == ASSUME NEW m, Shaped(m), NEW n PROVE Shaped(PushLayer(m, n).m)
<1> USE Bounds
<1> DEFINE l     == LayerOf(n)
           old   == m.active_comp_part_layers
           fresh == FreshPart(m, l)
           count == m.active_comp_count + 1
           comps == IF fresh /\ count > 1 THEN Completed(old, old \cup {l}, count) ELSE {}
           room  == m.macro_stack - m.layout_top - 2
           Rank(i) == Cardinality({j \in comps : j < i})
           At(a) == {i \in comps : Rank(i) = a - m.layout_top - 1 /\ Rank(i) < room}
           map == [a \in Addr |-> IF a = m.layout_top THEN n
                                  ELSE IF At(a) # {} THEN CHOOSE i \in At(a) : TRUE
                                  ELSE m.mapping[a]]
           top == m.layout_top + 1 + Least(room, Cardinality(comps))
           parts == IF fresh THEN old \cup {l} ELSE old
           cnt == IF fresh THEN count ELSE m.active_comp_count
           r == [m EXCEPT !.mapping = map, !.layout_top = top,
                          !.active_comp_part_layers = parts, !.active_comp_count = cnt]
<1>1. PushLayer(m, n).m \in {m, r}  BY DEF PushLayer
<1>2. top \in Int
  <2>1. comps \in SUBSET Composites  BY DEF Completed
  <2>2. IsFiniteSet(Composites)
    <3>1. composite_start_index \in Int /\ macro_dir_base - 1 \in Int  OBVIOUS
    <3> QED BY <3>1, FS_Interval DEF Composites
  <2> HIDE DEF comps
  <2>3. Cardinality(comps) \in Int  BY <2>1, <2>2, FS_Subset, FS_CardinalityType
  <2>4. room \in Int /\ m.layout_top \in Int  BY DEF Shaped
  <2> HIDE DEF room
  <2> QED BY <2>3, <2>4 DEF Least
<1>3. map = [a \in Addr |-> map[a]]  OBVIOUS
<1> HIDE DEF map, top, parts, cnt
<1>4. Shaped(r)  BY <1>2, <1>3, ShapedLayers
<1> QED BY <1>1, <1>4

LEMMA ShapedPop == ASSUME NEW m, Shaped(m), NEW n PROVE Shaped(PopLayer(m, n).m)
<1> USE Bounds
<1>1. ASSUME NEW e, Shaped(e), e.layout_top = m.layout_top,
             NEW gone \in SUBSET (layout_bottom..(m.layout_top - 1))
      PROVE  Shaped(RemoveWords(e, gone))
  <2> DEFINE map == [a \in Addr |-> IF a < e.layout_top THEN e.mapping[Source(e, gone, a)]
                                                       ELSE e.mapping[a]]
             top == e.layout_top - Cardinality(gone)
  <2>1. layout_bottom \in Int /\ m.layout_top - 1 \in Int  BY DEF Shaped
  <2>2. IsFiniteSet(layout_bottom..(m.layout_top - 1))  BY <2>1, FS_Interval
  <2>3. Cardinality(gone) \in Int
    <3>1. IsFiniteSet(gone)  BY <1>1, <2>2, FS_Subset
    <3> QED BY <3>1, FS_CardinalityType
  <2>4. top \in Int  BY <1>1, <2>3 DEF Shaped
  <2>5. map = [a \in Addr |-> map[a]]  OBVIOUS
  <2>6. RemoveWords(e, gone) = [e EXCEPT !.mapping = map, !.layout_top = top]
    BY DEF RemoveWords
  <2> HIDE DEF map, top
  <2> QED BY <1>1, <2>4, <2>5, <2>6 DEF Shaped
<1> DEFINE found == Occurrences(m, n, m.layout_top)
           pos   == Top(found)
           old   == m.active_comp_part_layers
           last  == n \in part_layers /\ n \in old /\ Occurrences(m, n, pos) = {}
           parts == old \ {n}
           Broken(c) == /\ c \in Composites
                        /\ composite_bitmap[c] \subseteq old
                        /\ ~ composite_bitmap[c] \subseteq parts
           comps == IF last /\ m.active_comp_count > 1
                    THEN {a \in (pos + 1)..(m.layout_top - 1) : Broken(LayerOf(m.mapping[a]))}
                    ELSE {}
           marked == IF last THEN [m EXCEPT !.active_comp_part_layers = parts,
                                            !.active_comp_count = @ - 1] ELSE m

<1>2. \/ PopLayer(m, n).m = m
      \/ found # {} /\ PopLayer(m, n).m = RemoveWords(marked, comps \cup {pos})
  BY DEF PopLayer
<1>3. CASE found # {} /\ PopLayer(m, n).m = RemoveWords(marked, comps \cup {pos})
  <2>2. m.layout_top \in Int  BY DEF Shaped
  <2>3. found \in SUBSET (layout_bottom..(m.layout_top - 1))  BY DEF Occurrences
  <2>4. pos \in found
    <3> HIDE DEF found
    <3>1. found \in SUBSET Int /\ \A a \in found : a <= m.layout_top  BY <2>2, <2>3
    <3>2. \E a \in found : \A b \in found : b <= a
      BY <1>3, <2>2, <3>1, GreatestElement
    <3> QED BY <3>2 DEF Top
  <2> HIDE DEF found, pos
  <2>5. pos \in layout_bottom..(m.layout_top - 1)  BY <2>3, <2>4
  <2>6. pos \in Int /\ layout_bottom <= pos  BY <2>2, <2>5
  <2>7. comps \in SUBSET ((pos + 1)..(m.layout_top - 1))  OBVIOUS
  <2>8. (pos + 1)..(m.layout_top - 1) \in SUBSET (layout_bottom..(m.layout_top - 1))
    BY <2>2, <2>6
  <2>9. comps \cup {pos} \in SUBSET (layout_bottom..(m.layout_top - 1))
    <3> HIDE DEF comps
    <3> QED BY <2>5, <2>7, <2>8
  <2>10. Shaped(marked) /\ marked.layout_top = m.layout_top
    <3> HIDE DEF last, parts
    <3> QED BY DEF Shaped
  <2> HIDE DEF comps, marked
  <2> QED BY <1>1, <1>3, <2>9, <2>10
<1> QED BY <1>2, <1>3

LEMMA ShapedDefrag == ASSUME NEW m, Shaped(m) PROVE Shaped(DefragStack(m))
<1> DEFINE diff == LAYOUT_MAX - m.memo_top
           map == [a \in Addr |-> IF a >= m.macro_stack + diff
                                  THEN m.mapping[a - diff] ELSE m.mapping[a]]
           stack  == m.macro_stack + diff
           bottom == m.memo_bottom + diff
           top    == m.memo_top + diff
           r == [m EXCEPT !.mapping = map, !.macro_stack = stack,
                          !.memo_bottom = bottom, !.memo_top = top]
<1>1. DefragStack(m) = r  BY DEF DefragStack
<1>2. map = [a \in Addr |-> map[a]]  OBVIOUS
<1>3. stack \in Int /\ bottom \in Int /\ top \in Int  BY Bounds DEF Shaped
<1> HIDE DEF map, stack, bottom, top
<1> QED BY <1>1, <1>2, <1>3, ShapedMemory

LEMMA ShapedPushMemo ==
  ASSUME NEW m, Shaped(m), NEW memo, Len(memo) \in {2, 5}
  PROVE  Shaped(PushMemo(m, memo).m)
<1> DEFINE d    == DefragStack(m)
           base == d.memo_bottom - Len(memo) - 1
           map  == [a \in Addr |-> IF a >= base /\ a < base + Len(memo) THEN memo[a - base + 1]
                                   ELSE IF a = d.memo_bottom - 1 THEN Len(memo)
                                   ELSE d.mapping[a]]
           r == [d EXCEPT !.mapping = map, !.macro_stack = base, !.memo_bottom = base]
<1>1. PushMemo(m, memo).m \in {d, r}  BY DEF PushMemo
<1>2. Shaped(d)  BY ShapedDefrag
<1>3. map = [a \in Addr |-> map[a]]  OBVIOUS
<1> HIDE DEF d, map
<1>4. base \in Int  BY <1>2 DEF Shaped
<1> HIDE DEF base
<1>5. Shaped(r)  BY <1>2, <1>3, <1>4 DEF Shaped
<1> QED BY <1>1, <1>2, <1>5

LEMMA ShapedPopMemo ==
  ASSUME NEW m, Shaped(m), m.mapping[m.memo_top - 1] \in {2, 5}
  PROVE  Shaped(PopMemo(m).m)
<1> DEFINE start == m.memo_top - 1 - m.mapping[m.memo_top - 1]
           r == [m EXCEPT !.memo_top = start]
<1>1. PopMemo(m).m \in {m, r}  BY DEF PopMemo
<1>2. start \in Int
  <2> DEFINE v == m.mapping[m.memo_top - 1]
  <2>1. v \in Int /\ m.memo_top \in Int  BY DEF Shaped
  <2> HIDE DEF v
  <2>2. start = m.memo_top - 1 - v  BY DEF v
  <2> QED BY <2>1, <2>2
<1> HIDE DEF start
<1>3. Shaped(r)  BY <1>2 DEF Shaped
<1> QED BY <1>1, <1>3

LEMMA ShapedUpdateMacro ==
  ASSUME NEW m, Shaped(m), NEW mac PROVE Shaped(UpdateMacro(m, mac))
<1> DEFINE map == [[[m.mapping EXCEPT ![m.macro_stack] = mac.mode]
                                EXCEPT ![m.macro_stack + 1] = mac.location]
                                EXCEPT ![m.macro_stack + 2] = mac.rem]
           r == [m EXCEPT !.mapping = map]
<1>1. UpdateMacro(m, mac) \in {m, r}  BY DEF UpdateMacro, Shaped
<1>2. map = [a \in Addr |-> map[a]]  BY DEF Shaped
<1> HIDE DEF map
<1>3. Shaped(r)  BY <1>2 DEF Shaped
<1> QED BY <1>1, <1>3

LEMMA ShapedPushMacro ==
  ASSUME NEW m, Shaped(m), NEW mac PROVE Shaped(PushMacro(m, mac))
<1> DEFINE d == DefragStack(m)
           e == [d EXCEPT !.macro_stack = d.macro_stack - 3]
<1>1. Shaped(d)  BY ShapedDefrag
<1>2. PushMacro(m, mac) \in {d, UpdateMacro(e, mac)}  BY DEF PushMacro
<1> HIDE DEF d
<1>3. Shaped(e)  BY <1>1 DEF Shaped
<1> HIDE DEF e
<1> QED BY <1>1, <1>2, <1>3, ShapedUpdateMacro

LEMMA ShapedPopMacro == ASSUME NEW m, Shaped(m) PROVE Shaped(PopMacro(m).m)
BY DEF PopMacro, Shaped

LEMMA ShapedClearModifiers ==
  ASSUME NEW m, Shaped(m) PROVE Shaped(ClearModifierLayers(m))
<1> DEFINE kept == KeptWords(m)
           map == [a \in Addr |-> IF a - layout_bottom \in 1..Cardinality(kept)
                                  THEN m.mapping[Nth(kept, a - layout_bottom)] ELSE m.mapping[a]]
           top == layout_bottom + 1 + Cardinality(kept)
           r == [m EXCEPT !.mapping = map, !.layout_top = top]
<1>1. ClearModifierLayers(m) = r  BY DEF ClearModifierLayers
<1>2. map = [a \in Addr |-> map[a]]  OBVIOUS
<1>3. top \in Int
  <2>1. kept \in SUBSET ((layout_bottom + 1)..m.layout_top)  BY DEF KeptWords
  <2>2. layout_bottom + 1 \in Int /\ m.layout_top \in Int  BY Bounds DEF Shaped
  <2> HIDE DEF kept
  <2>3. IsFiniteSet((layout_bottom + 1)..m.layout_top)  BY <2>2, FS_Interval
  <2>4. IsFiniteSet(kept)  BY <2>1, <2>3, FS_Subset
  <2>5. Cardinality(kept) \in Nat  BY <2>4, FS_CardinalityType
  <2> QED BY <2>2, <2>5
<1> HIDE DEF map, top
<1> QED BY <1>1, <1>2, <1>3 DEF Shaped

LEMMA ShapedStep == Shaped(mgr) /\ [Next]_vars => Shaped(mgr')
<1> SUFFICES ASSUME Shaped(mgr), [Next]_vars PROVE Shaped(mgr')
  OBVIOUS
<1>u. CASE UNCHANGED mgr  BY <1>u
<1>1. ASSUME NEW n \in PushLayers, Push(n) \/ Pop(LayerOf(n)) PROVE Shaped(mgr')
  BY <1>1, ShapedPush, ShapedPop DEF Push, Pop
<1>2. ASSUME NEW n \in BaseLayers, SetBase(n) PROVE Shaped(mgr')
  BY <1>2, ShapedClear DEF SetBase
<1>3. CASE ClearEverything  BY <1>3, ShapedClearAll DEF ClearEverything, Reset
<1>4. CASE ClearToBase  BY <1>4, ShapedClear DEF ClearToBase
<1>5. CASE ClearModifiers  BY <1>5, ShapedClearModifiers DEF ClearModifiers
<1>6. CASE ClearModifiersPanics  BY <1>6, <1>u DEF ClearModifiersPanics, Panic
<1>7. ASSUME NEW memo \in Memos, PutOff(memo) PROVE Shaped(mgr')
  <2>1. Len(memo) \in {2, 5}  BY CallsAssumption
  <2> QED BY <1>7, <2>1, ShapedPushMemo, ShapedClearAll DEF PutOff, Reset
<1>8. CASE RunMemo  BY <1>8, <1>u, ShapedPopMemo DEF RunMemo, Panic
<1>9. ASSUME NEW mac \in Macros, CallMacro(mac) PROVE Shaped(mgr')
  <2>1. Shaped(PushMacro(UpdateMacro(mgr, macro_running), mac))
    BY ShapedUpdateMacro, ShapedPushMacro
  <2> QED BY <1>9, <1>u, <2>1 DEF CallMacro, Panic
<1>10. CASE AdvanceMacro  BY <1>10, <1>u DEF AdvanceMacro
<1>11. CASE ReturnMacro  BY <1>11, <1>u, ShapedPopMacro DEF ReturnMacro, Panic
<1>12. CASE UNCHANGED vars  BY <1>12, <1>u DEF vars
<1> QED
  BY <1>1, <1>2, <1>3, <1>4, <1>5, <1>6, <1>7, <1>8, <1>9, <1>10, <1>11, <1>12 DEF Next

\* stop_active keeps every layer of the user, in order.  Nothing is assumed about the
\* calls: it holds also in the histories in which a macro without a slot has broken
\* the memory behind the layers.
THEOREM StopKeepsLayers == Spec => StopKeepsUserLayers
<1> DEFINE Stops == ClearModifiers =>
              /\ Len(UserLayers(mgr)) <= Len(UserLayers(mgr'))
              /\ SubSeq(UserLayers(mgr'), 1, Len(UserLayers(mgr))) = UserLayers(mgr)
           Shape == Shaped(mgr)
<1>1. Init => Shape  BY ShapedLoaded DEF Init
<1>2. Shape /\ [Next]_vars => Shape' /\ [Stops]_vars
  <2> SUFFICES ASSUME Shape, [Next]_vars PROVE Shape' /\ [Stops]_vars
    OBVIOUS
  <2>1. Shaped(mgr')  BY ShapedStep
  <2>2. Shape'  BY <2>1 DEF Shaped
  <2>3. ASSUME ClearModifiers PROVE Prefix(UserLayers(mgr), UserLayers(mgr'))
    BY <2>3, StopKeeps DEF ClearModifiers
  <2>4. Stops  BY <2>3 DEF Prefix
  <2> QED BY <2>2, <2>4
<1>3. StopKeepsUserLayers <=> [][Stops]_vars  BY DEF StopKeepsUserLayers
<1> HIDE DEF Shape, Stops
<1> QED BY <1>1, <1>2, <1>3, PTL DEF Spec
=============================================================================
