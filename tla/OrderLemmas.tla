---------------------------- MODULE OrderLemmas ----------------------------
(***************************************************************************)
(* Facts about integers that the proofs of several modules need:           *)
(* remainders, least and greatest elements, induction, a counting bound.   *)
(***************************************************************************)
EXTENDS Integers, FiniteSets, FiniteSetTheorems, TLAPS

\* What a remainder is between.
LEMMA Remainder == ASSUME NEW x \in Int, NEW n \in Nat, n > 0 PROVE x % n \in 0..(n - 1)
OBVIOUS

LessNat == {p \in Nat \X Nat : p[1] < p[2]}

\* The order of the naturals has no infinite descent.
LEMMA LessWellFounded == IsWellFoundedOn(LessNat, Nat)
<1>1. IsWellFoundedOn(OpToRel(<, Nat), Nat)  BY NatLessThanWellFounded
<1>2. LessNat = OpToRel(<, Nat)  BY DEF LessNat, OpToRel
<1> QED BY <1>1, <1>2

\* A nonempty set of naturals has a least element.
LEMMA LeastElement ==
  ASSUME NEW S \in SUBSET Nat, S # {}
  PROVE  \E x \in S : \A y \in S : x <= y
<1>1. PICK x \in S : \A y \in S : ~ (<<y, x>> \in LessNat)  BY LessWellFounded, WFMin
<1>2. \A y \in S : ~ (y < x)  BY <1>1 DEF LessNat
<1> QED BY <1>2

\* Induction: a set that has 0, and with n also n + 1, has every natural.
LEMMA Induction ==
  ASSUME NEW T, 0 \in T, \A n \in Nat : n \in T => n + 1 \in T PROVE \A n \in Nat : n \in T
<1> SUFFICES ASSUME Nat \ T # {} PROVE FALSE  OBVIOUS
<1>1. PICK x \in Nat \ T : \A y \in Nat \ T : x <= y
  <2>1. Nat \ T \in SUBSET Nat  OBVIOUS
  <2> QED BY <2>1, LeastElement
<1>2. x \in Nat /\ x # 0 /\ x - 1 \in Nat /\ x - 1 + 1 = x  OBVIOUS
<1>3. x - 1 \in T  BY <1>1, <1>2
<1> QED BY <1>2, <1>3

\* A nonempty set of integers with an upper bound has a greatest element.
LEMMA GreatestElement ==
  ASSUME NEW S \in SUBSET Int, NEW hi \in Int, S # {}, \A a \in S : a <= hi
  PROVE  \E x \in S : \A y \in S : y <= x
<1> DEFINE D == {hi - a : a \in S}
<1>1. ASSUME NEW d \in D PROVE d \in Nat
  <2>1. PICK a \in S : d = hi - a  OBVIOUS
  <2>2. a \in Int /\ a <= hi  OBVIOUS
  <2> QED BY <2>1, <2>2
<1>2. D \in SUBSET Nat /\ D # {}  BY <1>1
<1> HIDE DEF D
<1>3. PICK d \in D : \A e \in D : d <= e  BY <1>2, LeastElement
<1>4. PICK x \in S : d = hi - x  BY DEF D
<1>5. ASSUME NEW y \in S PROVE y <= x
  <2>1. hi - y \in D  BY DEF D
  <2>2. hi - x <= hi - y  BY <1>3, <1>4, <2>1
  <2> QED BY <2>2
<1> QED BY <1>5

\* The elements of a finite set of integers that have fewer than n elements above
\* them are at most n.
LEMMA FewAbove ==
  ASSUME NEW S \in SUBSET Int, IsFiniteSet(S), NEW n \in Nat,
         NEW T, T = {g \in S : Cardinality({h \in S : h > g}) < n}
  PROVE  IsFiniteSet(T) /\ Cardinality(T) \in 0..n
<1> DEFINE Above(g) == {h \in S : h > g}
           rank == [g \in T |-> Cardinality(Above(g))]
<1>1. \A g \in S : IsFiniteSet(Above(g)) /\ Cardinality(Above(g)) \in Nat
  BY FS_Subset, FS_CardinalityType
<1>2. rank \in [T -> 0..(n - 1)]
  <2>1. ASSUME NEW g \in T PROVE Cardinality(Above(g)) \in 0..(n - 1)
    <3>1. g \in S /\ Cardinality(Above(g)) < n  OBVIOUS
    <3> HIDE DEF Above
    <3> QED BY <1>1, <3>1
  <2> HIDE DEF Above
  <2> QED BY <2>1
<1>3. ASSUME NEW g \in T, NEW h \in T, g < h PROVE rank[g] # rank[h]
  <2>0. g \in Int /\ h \in Int /\ g \in S /\ h \in S  OBVIOUS
  <2>1. Above(h) \subseteq Above(g) /\ h \in Above(g) /\ h \notin Above(h)
    <3>1. \A x \in S : x > h => x > g  BY <1>3, <2>0
    <3>2. h > g /\ ~ (h > h)  BY <1>3, <2>0
    <3> QED BY <2>0, <3>1, <3>2, Zenon
  <2>2. Above(g) # Above(h)  BY <2>1
  <2> QED BY <1>1, <2>1, <2>2, FS_Subset
<1>4. ASSUME NEW g \in T, NEW h \in T, rank[g] = rank[h] PROVE g = h
  <2>1. g \in Int /\ h \in Int  OBVIOUS
  <2> QED BY <1>3, <1>4, <2>1
<1>5. rank \in Injection(T, 0..(n - 1))
  BY <1>2, <1>4 DEF Injection, IsInjective
<1>6. IsFiniteSet(0..(n - 1)) /\ Cardinality(0..(n - 1)) = n
  BY FS_Interval
<1>7. IsFiniteSet(T) /\ Cardinality(T) <= n
  BY <1>5, <1>6, FS_Injection
<1> QED BY <1>7, FS_CardinalityType

-----------------------------------------------------------------------------
(***************************************************************************)
(* The number of elements of S below x, as x grows.                        *)
(***************************************************************************)
Under(S, x) == Cardinality({h \in S : h < x})

\* One step up passes at most one element.
LEMMA UnderStep ==
  ASSUME NEW S \in SUBSET Int, IsFiniteSet(S), NEW x \in Int
  PROVE  /\ Under(S, x) \in Nat /\ Under(S, x + 1) \in Nat
         /\ x \in S => Under(S, x + 1) = Under(S, x) + 1
         /\ x \notin S => Under(S, x + 1) = Under(S, x)
<1> DEFINE below == {h \in S : h < x}
<1>1. IsFiniteSet(below) /\ Cardinality(below) \in Nat  BY FS_Subset, FS_CardinalityType
<1>2. ASSUME x \in S PROVE {h \in S : h < x + 1} = below \cup {x}
  <2>1. \A h \in S : h < x + 1 <=> h < x \/ h = x  OBVIOUS
  <2> QED BY <1>2, <2>1
<1>3. ASSUME x \notin S PROVE {h \in S : h < x + 1} = below
  <2>1. \A h \in S : h < x + 1 <=> h < x  BY <1>3
  <2> QED BY <2>1
<1>4. x \notin below  OBVIOUS
<1> HIDE DEF below
<1>5. Cardinality(below \cup {x}) = Cardinality(below) + 1  BY <1>1, <1>4, FS_AddElement
<1>6. Under(S, x) = Cardinality(below)  BY DEF Under, below
<1> QED BY <1>1, <1>2, <1>3, <1>5, <1>6 DEF Under

\* Between b and c there are no more elements of S than integers.
LEMMA UnderGap ==
  ASSUME NEW S \in SUBSET Int, IsFiniteSet(S), NEW b \in Int, NEW c \in Int, b <= c
  PROVE  /\ Under(S, b) \in Nat /\ Under(S, c) \in Nat
         /\ Under(S, b) <= Under(S, c) /\ Under(S, c) - Under(S, b) <= c - b
         /\ b < c /\ b \notin S => Under(S, c) - Under(S, b) <= c - b - 1
         /\ b \in S /\ b < c => Under(S, b) < Under(S, c)
<1> DEFINE Bad == {k \in Nat : ~ /\ Under(S, b) <= Under(S, b + k)
                                 /\ Under(S, b + k) - Under(S, b) <= k}
<1>0. \A x \in Int : Under(S, x) \in Nat  BY UnderStep
<1>1. Bad = {}
  <2> SUFFICES ASSUME Bad # {} PROVE FALSE
    OBVIOUS
  <2>1. PICK k \in Bad : \A i \in Bad : k <= i  BY LeastElement
  <2>2. k \in Nat /\ ~ /\ Under(S, b) <= Under(S, b + k)
                       /\ Under(S, b + k) - Under(S, b) <= k
    OBVIOUS
  <2>3. k # 0
    <3>1. b + 0 = b  OBVIOUS
    <3> QED BY <1>0, <2>2, <3>1
  <2>4. k - 1 \in Nat /\ k - 1 \notin Bad  BY <2>1, <2>2, <2>3
  <2>5. /\ Under(S, b) <= Under(S, b + (k - 1))
        /\ Under(S, b + (k - 1)) - Under(S, b) <= k - 1
    BY <2>4
  <2> DEFINE x == b + (k - 1)
  <2>6. x \in Int /\ x + 1 = b + k  BY <2>2
  <2>7. Under(S, x) \in Nat /\ Under(S, b) \in Nat /\ Under(S, b + k) \in Nat
    BY <1>0, <2>6
  <2>8. Under(S, b + k) = Under(S, x) + 1 \/ Under(S, b + k) = Under(S, x)
    BY <2>6, UnderStep
  <2> HIDE DEF Bad, x
  <2>9. Under(S, b) <= Under(S, x) /\ Under(S, x) - Under(S, b) <= k - 1  BY <2>5 DEF x
  <2> QED BY <2>2, <2>7, <2>8, <2>9
<1>2. ASSUME NEW x \in Int, NEW k \in Nat, x = b + k
      PROVE  Under(S, b) <= Under(S, x) /\ Under(S, x) - Under(S, b) <= k
  BY <1>1, <1>2
<1>3. Under(S, b) <= Under(S, c) /\ Under(S, c) - Under(S, b) <= c - b
  <2>1. c - b \in Nat /\ c = b + (c - b)  OBVIOUS
  <2> QED BY <1>2, <2>1
<1> HIDE DEF Bad
<1>4. Under(S, b) \in Nat /\ Under(S, c) \in Nat  BY <1>0
<1>5. ASSUME b < c, b \notin S PROVE Under(S, c) - Under(S, b) <= c - b - 1
  <2> DEFINE T == {h \in S : h < c} \ {h \in S : h < b}
  <2>1. {h \in S : h < b} \in SUBSET {h \in S : h < c}
    <3>1. \A h \in S : h \in Int /\ (h < b => h < c)  OBVIOUS
    <3> QED BY <3>1
  <2>2. IsFiniteSet({h \in S : h < c})  BY FS_Subset
  <2>3. {h \in S : h < c} = {h \in S : h < b} \cup T /\ {h \in S : h < b} \cap T = {}
    BY <2>1
  <2>4. T \in SUBSET ((b + 1)..(c - 1))
    <3>1. ASSUME NEW h \in T PROVE h \in (b + 1)..(c - 1)
      <4>1. h \in S /\ h \in Int /\ h < c /\ ~ (h < b) /\ h # b  BY <1>5
      <4> QED BY <4>1
    <3> QED BY <3>1
  <2>5. IsFiniteSet((b + 1)..(c - 1)) /\ Cardinality((b + 1)..(c - 1)) = c - b - 1
    <3>1. /\ IsFiniteSet((b + 1)..(c - 1))
          /\ Cardinality((b + 1)..(c - 1)) = IF b + 1 > c - 1 THEN 0 ELSE c - 1 - (b + 1) + 1
      BY FS_Interval
    <3> QED BY <1>5, <3>1
  <2> HIDE DEF T
  <2>6. IsFiniteSet(T) /\ Cardinality(T) <= c - b - 1 /\ Cardinality(T) \in Nat
    BY <2>4, <2>5, FS_Subset, FS_CardinalityType
  <2>7. IsFiniteSet({h \in S : h < b})  BY FS_Subset
  <2>8. Cardinality({h \in S : h < b} \cup T)
          = Cardinality({h \in S : h < b}) + Cardinality(T)
            - Cardinality({h \in S : h < b} \cap T)
    BY <2>6, <2>7, FS_Union
  <2>9. Under(S, c) = Under(S, b) + Cardinality(T)
    <3>1. Cardinality({h \in S : h < b} \cap T) = 0  BY <2>3, FS_EmptySet
    <3>2. /\ Under(S, c) = Cardinality({h \in S : h < b} \cup T)
          /\ Under(S, b) = Cardinality({h \in S : h < b})
      BY <2>3 DEF Under
    <3> QED BY <1>4, <2>6, <2>8, <3>1, <3>2
  <2> QED BY <1>4, <2>6, <2>9
<1>6. ASSUME b < c, b \in S PROVE Under(S, b) < Under(S, c)
  <2>1. {h \in S : h < b} \in SUBSET {h \in S : h < c}
    <3>1. \A h \in S : h \in Int /\ (h < b => h < c)  OBVIOUS
    <3> QED BY <3>1
  <2>2. {h \in S : h < b} # {h \in S : h < c}  BY <1>6
  <2>3. IsFiniteSet({h \in S : h < c})  BY FS_Subset
  <2>4. Under(S, b) # Under(S, c)  BY <2>1, <2>2, <2>3, FS_Subset DEF Under
  <2> QED BY <1>3, <1>4, <2>4
<1> QED BY <1>3, <1>4, <1>5, <1>6

\* No element is below a lower bound, all are below what is above them all.
LEMMA UnderEnds ==
  ASSUME NEW S \in SUBSET Int, NEW lo \in Int, NEW hi \in Int, S \subseteq lo..(hi - 1)
  PROVE  Under(S, lo) = 0 /\ Under(S, hi) = Cardinality(S)
<1>0. \A h \in S : ~ (h < lo) /\ h < hi
  <2> SUFFICES ASSUME NEW h \in S PROVE ~ (h < lo) /\ h < hi
    OBVIOUS
  <2>1. h \in lo..(hi - 1)  OBVIOUS
  <2> QED BY <2>1
<1>1. {h \in S : h < lo} = {}  BY <1>0
<1>2. {h \in S : h < hi} = S  BY <1>0
<1> QED BY <1>1, <1>2, FS_EmptySet DEF Under

\* Every rank below the number of elements is the rank of an element.
LEMMA RankOnto ==
  ASSUME NEW S \in SUBSET Nat, NEW hi \in Nat, S \subseteq 0..(hi - 1),
         NEW j \in Nat, j < Cardinality(S)
  PROVE  \E i \in S : Under(S, i) = j
<1> DEFINE Past == {x \in Nat : Under(S, x) > j}
<1>1. S \in SUBSET Int /\ IsFiniteSet(S)
  <2>1. 0 \in Int /\ hi - 1 \in Int /\ S \in SUBSET (0..(hi - 1))  OBVIOUS
  <2>2. IsFiniteSet(0..(hi - 1))  BY <2>1, FS_Interval
  <2>3. S \in SUBSET Int  BY <2>1
  <2> QED BY <2>1, <2>2, <2>3, FS_Subset
<1>2. Under(S, 0) = 0 /\ Under(S, hi) = Cardinality(S)
  <2>1. 0 \in Int /\ hi \in Int  OBVIOUS
  <2> QED BY <1>1, <2>1, UnderEnds
<1>3. hi \in Past  BY <1>2
<1>4. PICK x \in Past : \A y \in Past : x <= y  BY <1>3, LeastElement
<1>5. x \in Nat /\ Under(S, x) > j  OBVIOUS
<1>6. x # 0  BY <1>2, <1>5
<1> DEFINE y == x - 1
<1>7. y \in Nat /\ x = y + 1  BY <1>5, <1>6
<1>8. y \notin Past  BY <1>4, <1>5, <1>7
<1>9. ~ (Under(S, y) > j)  BY <1>7, <1>8
<1> HIDE DEF Past, y
<1>10. /\ Under(S, y) \in Nat /\ Under(S, x) \in Nat
       /\ y \in S => Under(S, x) = Under(S, y) + 1
       /\ y \notin S => Under(S, x) = Under(S, y)
  BY <1>1, <1>7, UnderStep
<1>11. y \in S  BY <1>5, <1>9, <1>10
<1>12. Under(S, y) = j  BY <1>5, <1>9, <1>10, <1>11
<1> QED BY <1>11, <1>12

\* Different elements have different ranks.
LEMMA RankInjective ==
  ASSUME NEW S \in SUBSET Int, IsFiniteSet(S), NEW g \in S, NEW h \in S,
         Under(S, g) = Under(S, h)
  PROVE  g = h
<1>1. g \in Int /\ h \in Int  OBVIOUS
<1>2. g < h => Under(S, g) < Under(S, h) /\ Under(S, g) \in Nat /\ Under(S, h) \in Nat
  BY <1>1, UnderGap
<1>3. h < g => Under(S, h) < Under(S, g) /\ Under(S, g) \in Nat /\ Under(S, h) \in Nat
  BY <1>1, UnderGap
<1> QED BY <1>1, <1>2, <1>3

\* When the elements of S go and the integers above them close up, the one that
\* comes to a is x: it stays, and a is where it arrives.
LEMMA ClosingUpOnto ==
  ASSUME NEW S \in SUBSET Int, NEW lo \in Nat, NEW hi \in Nat, S \subseteq lo..(hi - 1),
         NEW a \in Int, lo <= a, a < hi - Cardinality(S), lo <= hi
  PROVE  \E x \in lo..(hi - 1) : x \notin S /\ a = x - Under(S, x)
<1> DEFINE Past == {x \in Nat : lo <= x /\ x - Under(S, x) > a}
<1>1. IsFiniteSet(S)
  <2>1. IsFiniteSet(lo..(hi - 1))  BY FS_Interval
  <2> QED BY <2>1, FS_Subset
<1>2. Under(S, lo) = 0 /\ Under(S, hi) = Cardinality(S)
  <2>1. lo \in Int /\ hi \in Int  OBVIOUS
  <2> QED BY <2>1, UnderEnds
<1>3. hi \in Past  BY <1>2
<1>4. PICK x \in Past : \A y \in Past : x <= y  BY <1>3, LeastElement
<1>5. x \in Nat /\ lo <= x /\ x - Under(S, x) > a /\ x <= hi  BY <1>3, <1>4
<1>6. x # lo  BY <1>2, <1>5
<1> DEFINE y == x - 1
<1>7. y \in Nat /\ x = y + 1 /\ lo <= y /\ y \in lo..(hi - 1)  BY <1>5, <1>6
<1>8. y \notin Past  BY <1>4, <1>5, <1>7
<1>9. ~ (y - Under(S, y) > a)  BY <1>7, <1>8
<1> HIDE DEF Past, y
<1>10. /\ Under(S, y) \in Nat /\ Under(S, x) \in Nat
       /\ y \in S => Under(S, x) = Under(S, y) + 1
       /\ y \notin S => Under(S, x) = Under(S, y)
  BY <1>1, <1>7, UnderStep
<1>11. y \notin S  BY <1>5, <1>7, <1>9, <1>10
<1>12. a = y - Under(S, y)  BY <1>5, <1>7, <1>9, <1>10, <1>11
<1> QED BY <1>7, <1>11, <1>12
=============================================================================
