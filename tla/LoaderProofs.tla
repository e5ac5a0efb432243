---------------------------- MODULE LoaderProofs ----------------------------
(***************************************************************************)
(* What the keyboard has loaded, for every matrix, every size of the       *)
(* array, every layout in the firmware and every file of the compiler, as  *)
(* much of it as came: a load that fails is recovered from, what fits is   *)
(* loaded, and every body lies in what was loaded.                         *)
(*                                                                         *)
(* A load starts from whatever the loads before it left behind.  So the    *)
(* proofs show that where the settings end, and whether they can be read,  *)
(* depends on the words alone.                                             *)
(***************************************************************************)
EXTENDS Loader, OrderLemmas, SequenceTheorems, TLAPS

LEMMA ErasedWord == ERASED \in Nat /\ ERASED > 300
BY SMT DEF ERASED

LEMMA WordsOf == ASSUME NEW words \in Seq(Word), NEW i \in 1..Len(words) PROVE words[i] \in Nat /\ words[i] \in Word
<1>1. words[i] \in Word  OBVIOUS
<1> QED BY <1>1, ErasedWord DEF Word

LEMMA LeastOfTwo == ASSUME NEW a \in Int, NEW b \in Int PROVE Min({a, b}) = IF a <= b THEN a ELSE b
<1> DEFINE x == IF a <= b THEN a ELSE b
<1>1. x \in {a, b} /\ \A y \in {a, b} : x <= y  OBVIOUS
<1>2. \A z \in {a, b} : (\A y \in {a, b} : z <= y) => z = x  OBVIOUS
<1> HIDE DEF x
<1>3. Min({a, b}) = x  BY <1>1, <1>2 DEF Min
<1> QED BY <1>3 DEF x

\* A manager, whatever it has loaded.
Shape(m) ==
  /\ DOMAIN m = {"mapping", "globals", "mouse_profiles", "layout_bottom", "composite_start_index", "macro_dir_base"}
  /\ DOMAIN m.mapping = 0..(LAYOUT_MAX - 1)
  /\ DOMAIN m.globals = 3..6

LEMMA DefaultShape == Shape(DefaultManager)
<1>1. DOMAIN DefaultTimeouts = 3..6
  BY DEF DefaultTimeouts, DEBOUNCE_SETTLE_TIME
<1> QED BY <1>1 DEF Shape, DefaultManager

-----------------------------------------------------------------------------
(***************************************************************************)
(* The settings.                                                           *)
(***************************************************************************)
\* r is where the reading of the settings has got to, m the manager before it began.
Reading(m, words, r) ==
  /\ DOMAIN r = {"m", "at", "left", "ok"} /\ Shape(r.m)
  /\ r.m.mapping = m.mapping
  /\ r.m.layout_bottom = m.layout_bottom /\ r.m.macro_dir_base = m.macro_dir_base
  /\ r.m.composite_start_index = words[3] % 256
  /\ r.ok \in BOOLEAN /\ r.left \in Nat /\ r.at \in Nat /\ r.at >= 6 /\ r.at + r.left = 6 + words[5]
  /\ r.at <= Len(words) + 1

\* Two managers for which the same words are being read.
Alike(p, q) == p.at = q.at /\ p.left = q.left /\ p.ok = q.ok

LEMMA FirstReading ==
  ASSUME NEW words \in Seq(Word), HeaderOk(words), NEW m, Shape(m)
  PROVE  Reading(m, words, FirstSetting(m, words))
<1>1. words[5] \in Nat /\ Len(words) \in Nat /\ Len(words) >= 5  BY WordsOf DEF HeaderOk
<1>2. Shape([m EXCEPT !.composite_start_index = words[3] % 256])  BY DEF Shape
<1> QED BY <1>1, <1>2 DEF FirstSetting, Reading, Shape

LEMMA NextReading ==
  ASSUME NEW words \in Seq(Word), NEW m, NEW r, Reading(m, words, r)
  PROVE  Reading(m, words, NextSetting(r, words))
<1> DEFINE i == words[r.at]
           profile == [r.m EXCEPT !.mouse_profiles[i] = ProfileAt(words, r.at)]
           global == [r.m EXCEPT !.globals[i] = words[r.at + 1]]
<1>1. CASE NextSetting(r, words) = r  BY <1>1
<1>2. CASE /\ NextSetting(r, words) =
                [r EXCEPT !.m.mouse_profiles[i] = ProfileAt(words, r.at), !.at = @ + 21, !.left = @ - 21]
           /\ r.left >= 21 /\ r.at + 20 <= Len(words)
  <2>1. Shape(profile) /\ profile.mapping = m.mapping /\ profile.layout_bottom = m.layout_bottom
        /\ profile.macro_dir_base = m.macro_dir_base /\ profile.composite_start_index = words[3] % 256
    BY DEF Reading, Shape
  <2>2. NextSetting(r, words) = [r EXCEPT !.m = profile, !.at = r.at + 21, !.left = r.left - 21]
    BY <1>2 DEF Reading, Shape
  <2>3. /\ Len(words) \in Nat /\ r.left >= 21 /\ r.at + 20 <= Len(words)
        /\ r.left \in Nat /\ r.at \in Nat /\ r.at >= 6
    BY <1>2 DEF Reading
  <2> HIDE DEF profile
  <2> DEFINE next == NextSetting(r, words)
  <2>4. /\ DOMAIN next = {"m", "at", "left", "ok"} /\ next.m = profile /\ next.ok = r.ok
        /\ next.at = r.at + 21 /\ next.left = r.left - 21
    BY <2>2 DEF Reading
  <2> HIDE DEF next
  <2>5. /\ next.left \in Nat /\ next.at \in Nat /\ next.at >= 6
        /\ next.at + next.left = r.at + r.left
        /\ next.at <= Len(words) + 1
    <3> DEFINE n == Len(words)
               a == r.at
               l == r.left
    <3>1. n \in Nat /\ l >= 21 /\ a + 20 <= n /\ l \in Nat /\ a \in Nat /\ a >= 6  BY <2>3
    <3>2. next.at = a + 21 /\ next.left = l - 21  BY <2>4
    <3> HIDE DEF n, a, l
    <3>3. next.left \in Nat /\ next.at \in Nat /\ next.at >= 6 /\ next.at + next.left = a + l /\ next.at <= n + 1
      BY <3>1, <3>2
    <3> QED BY <3>3 DEF n, a, l
  <2>6. Reading(m, words, next)  BY <2>1, <2>4, <2>5 DEF Reading
  <2> QED BY <2>6 DEF next
<1>3. CASE /\ NextSetting(r, words) = [r EXCEPT !.m.globals[i] = words[r.at + 1], !.at = @ + 2, !.left = @ - 2]
           /\ r.left >= 2 /\ r.at + 1 <= Len(words)
  <2>1. Shape(global) /\ global.mapping = m.mapping /\ global.layout_bottom = m.layout_bottom
        /\ global.macro_dir_base = m.macro_dir_base /\ global.composite_start_index = words[3] % 256
    BY DEF Reading, Shape
  <2>2. NextSetting(r, words) = [r EXCEPT !.m = global, !.at = r.at + 2, !.left = r.left - 2]
    BY <1>3 DEF Reading, Shape
  <2>3. /\ Len(words) \in Nat /\ r.left >= 2 /\ r.at + 1 <= Len(words)
        /\ r.left \in Nat /\ r.at \in Nat /\ r.at >= 6
    BY <1>3 DEF Reading
  <2> HIDE DEF global
  <2> DEFINE next == NextSetting(r, words)
  <2>4. /\ DOMAIN next = {"m", "at", "left", "ok"} /\ next.m = global /\ next.ok = r.ok
        /\ next.at = r.at + 2 /\ next.left = r.left - 2
    BY <2>2 DEF Reading
  <2> HIDE DEF next
  <2>5. /\ next.left \in Nat /\ next.at \in Nat /\ next.at >= 6
        /\ next.at + next.left = r.at + r.left
        /\ next.at <= Len(words) + 1
    <3> DEFINE n == Len(words)
               a == r.at
               l == r.left
    <3>1. n \in Nat /\ l >= 2 /\ a + 1 <= n /\ l \in Nat /\ a \in Nat /\ a >= 6  BY <2>3
    <3>2. next.at = a + 2 /\ next.left = l - 2  BY <2>4
    <3> HIDE DEF n, a, l
    <3>3. next.left \in Nat /\ next.at \in Nat /\ next.at >= 6 /\ next.at + next.left = a + l /\ next.at <= n + 1
      BY <3>1, <3>2
    <3> QED BY <3>3 DEF n, a, l
  <2>6. Reading(m, words, next)  BY <2>1, <2>4, <2>5 DEF Reading
  <2> QED BY <2>6 DEF next
<1>4. CASE NextSetting(r, words) = [r EXCEPT !.ok = FALSE]  BY <1>4 DEF Reading
<1> QED BY <1>1, <1>2, <1>3, <1>4 DEF NextSetting, EntryFits

\* A mouse profile and a timeout that are read.
LEMMA MouseNext ==
  ASSUME NEW words, NEW m, NEW r, Reading(m, words, r),
         r.ok /\ r.left # 0 /\ r.at <= Len(words) /\ words[r.at] \in MouseProfiles,
         EntryFits(words, r.at, r.left, 21)
  PROVE  LET next == NextSetting(r, words) IN next.at = r.at + 21 /\ next.left = r.left - 21 /\ next.ok
<1>1. DOMAIN r = {"m", "at", "left", "ok"} /\ words[r.at] \notin DOMAIN r.m.globals
  BY DEF Reading, Shape, MouseProfiles
<1>2. NextSetting(r, words) =
        [r EXCEPT !.m.mouse_profiles[words[r.at]] = ProfileAt(words, r.at), !.at = @ + 21, !.left = @ - 21]
  BY <1>1 DEF NextSetting
<1> QED BY <1>1, <1>2

LEMMA GlobalNext ==
  ASSUME NEW words, NEW m, NEW r, Reading(m, words, r),
         r.ok /\ r.left # 0 /\ r.at <= Len(words) /\ words[r.at] \in DOMAIN r.m.globals,
         EntryFits(words, r.at, r.left, 2)
  PROVE  LET next == NextSetting(r, words) IN next.at = r.at + 2 /\ next.left = r.left - 2 /\ next.ok
<1>1. DOMAIN r = {"m", "at", "left", "ok"} /\ words[r.at] \notin MouseProfiles
  BY DEF Reading, Shape, MouseProfiles
<1>2. NextSetting(r, words) =
        [r EXCEPT !.m.globals[words[r.at]] = words[r.at + 1], !.at = @ + 2, !.left = @ - 2]
  BY <1>1 DEF NextSetting
<1> QED BY <1>1, <1>2

\* Whether a setting can be read, and where it ends, does not depend on the manager.
LEMMA NextAlike ==
  ASSUME NEW words \in Seq(Word), NEW m, NEW p, Reading(m, words, p), NEW n, NEW q, Reading(n, words, q),
         Alike(p, q)
  PROVE  Alike(NextSetting(p, words), NextSetting(q, words))
<1>1. DOMAIN p = {"m", "at", "left", "ok"} /\ DOMAIN q = {"m", "at", "left", "ok"}
      /\ DOMAIN p.m.globals = DOMAIN q.m.globals
  BY DEF Reading, Shape
<1>2. CASE ~ p.ok \/ p.left = 0  BY <1>2 DEF NextSetting, Alike
<1>3. CASE p.ok /\ p.left # 0 /\ p.at <= Len(words) /\ words[p.at] \in MouseProfiles
           /\ EntryFits(words, p.at, p.left, 21)
  <2>1. q.ok /\ q.left # 0 /\ q.at <= Len(words) /\ words[q.at] \in MouseProfiles
        /\ EntryFits(words, q.at, q.left, 21)
    BY <1>3 DEF Alike
  <2> QED BY <1>3, <2>1, MouseNext DEF Alike
<1>4. CASE p.ok /\ p.left # 0 /\ p.at <= Len(words) /\ words[p.at] \in DOMAIN p.m.globals
           /\ EntryFits(words, p.at, p.left, 2)
  <2>1. q.ok /\ q.left # 0 /\ q.at <= Len(words) /\ words[q.at] \in DOMAIN q.m.globals
        /\ EntryFits(words, q.at, q.left, 2)
    BY <1>1, <1>4 DEF Alike
  <2> QED BY <1>4, <2>1, GlobalNext DEF Alike
<1>5. CASE /\ p.ok /\ p.left # 0
           /\ ~ (p.at <= Len(words) /\ words[p.at] \in MouseProfiles /\ EntryFits(words, p.at, p.left, 21))
           /\ ~ (p.at <= Len(words) /\ words[p.at] \in DOMAIN p.m.globals /\ EntryFits(words, p.at, p.left, 2))
  BY <1>1, <1>5 DEF NextSetting, Alike
<1> QED BY <1>2, <1>3, <1>4, <1>5 DEF Reading

\* The recursion of LoadGlobals has a value.
LEMMA ReadingsExist ==
  ASSUME NEW words \in Seq(Word), NEW m
  PROVE  \E load : load = [n \in 0..Len(words) |-> IF n = 0 THEN FirstSetting(m, words) ELSE NextSetting(load[n - 1], words)]
<1> DEFINE r0 == FirstSetting(m, words)
<1> HIDE DEF r0
<1> DEFINE Readings(k, load) == load = [n \in 0..k |-> IF n = 0 THEN r0 ELSE NextSetting(load[n - 1], words)]
           T == {k \in Nat : \E load : Readings(k, load)}
<1>1. 0 \in T
  <2> DEFINE load == [n \in 0..0 |-> r0]
  <2>1. load = [n \in 0..0 |-> IF n = 0 THEN r0 ELSE NextSetting(load[n - 1], words)]  OBVIOUS
  <2> QED BY <2>1
<1>2. ASSUME NEW k \in Nat, k \in T PROVE k + 1 \in T
  <2>1. PICK old : Readings(k, old)  BY <1>2
  <2> DEFINE load == [n \in 0..(k + 1) |-> IF n \in 0..k THEN old[n] ELSE NextSetting(old[k], words)]
  <2>2. ASSUME NEW n \in 0..(k + 1) PROVE load[n] = IF n = 0 THEN r0 ELSE NextSetting(load[n - 1], words)
    <3>1. CASE n = 0  BY <2>1, <3>1
    <3>2. CASE n # 0 /\ n \in 0..k
      <4>1. n - 1 \in 0..k /\ n - 1 \in 0..(k + 1)  BY <3>2
      <4>2. load[n] = old[n] /\ load[n - 1] = old[n - 1]  BY <3>2, <4>1
      <4> HIDE DEF load
      <4>3. old[n] = NextSetting(old[n - 1], words)  BY <2>1, <3>2
      <4> QED BY <3>2, <4>2, <4>3
    <3>3. CASE n # 0 /\ n \notin 0..k
      <4>1. n = k + 1 /\ n - 1 = k /\ k \in 0..k /\ k \in 0..(k + 1)  BY <3>3
      <4>2. load[n] = NextSetting(old[k], words) /\ load[n - 1] = old[k]  BY <3>3, <4>1
      <4> HIDE DEF load
      <4> QED BY <3>3, <4>2
    <3> QED BY <3>1, <3>2, <3>3
  <2>3. load = [n \in 0..(k + 1) |-> load[n]]  OBVIOUS
  <2> HIDE DEF load
  <2>4. Readings(k + 1, load)  BY <2>2, <2>3
  <2> HIDE DEF Readings
  <2> QED BY <2>4
<1>3. Len(words) \in T
  <2> HIDE DEF T
  <2> QED BY <1>1, <1>2, Induction
<1> QED BY <1>3 DEF r0

\* LoadGlobals is the last of its readings.
LEMMA Readings ==
  ASSUME NEW words \in Seq(Word), NEW m
  PROVE  \E load : /\ LoadGlobals(m, words) = load[Len(words)]
                   /\ load[0] = FirstSetting(m, words)
                   /\ \A n \in 1..Len(words) : load[n] = NextSetting(load[n - 1], words)
<1> DEFINE load[n \in 0..Len(words)] == IF n = 0 THEN FirstSetting(m, words) ELSE NextSetting(load[n - 1], words)
<1>1. load = [n \in 0..Len(words) |-> IF n = 0 THEN FirstSetting(m, words) ELSE NextSetting(load[n - 1], words)]
  BY ReadingsExist, Zenon
<1>2. LoadGlobals(m, words) = load[Len(words)]  BY DEF LoadGlobals
<1> HIDE DEF load
<1>3. load[0] = FirstSetting(m, words)  BY <1>1
<1>4. \A n \in 1..Len(words) : load[n] = NextSetting(load[n - 1], words)  BY <1>1
<1> QED BY <1>2, <1>3, <1>4

LEMMA GlobalsRead ==
  ASSUME NEW words \in Seq(Word), HeaderOk(words), NEW m, Shape(m)
  PROVE  Reading(m, words, LoadGlobals(m, words))
<1>1. PICK load : /\ LoadGlobals(m, words) = load[Len(words)]
                  /\ load[0] = FirstSetting(m, words)
                  /\ \A n \in 1..Len(words) : load[n] = NextSetting(load[n - 1], words)
  BY Readings
<1> DEFINE T == {n \in Nat : n <= Len(words) => Reading(m, words, load[n])}
<1>2. 0 \in T  BY <1>1, FirstReading
<1>3. ASSUME NEW n \in Nat, n \in T PROVE n + 1 \in T
  <2>1. n + 1 <= Len(words) => n <= Len(words) /\ load[n + 1] = NextSetting(load[n], words)  BY <1>1
  <2>2. n + 1 <= Len(words) => Reading(m, words, load[n + 1])  BY <1>3, <2>1, NextReading
  <2> QED BY <2>2
<1>4. Len(words) \in T
  <2> HIDE DEF T
  <2> QED BY <1>2, <1>3, Induction
<1> QED BY <1>1, <1>4

LEMMA GlobalsAlike ==
  ASSUME NEW words \in Seq(Word), HeaderOk(words), NEW m, Shape(m), NEW n, Shape(n)
  PROVE  Alike(LoadGlobals(m, words), LoadGlobals(n, words))
<1>1. PICK p : /\ LoadGlobals(m, words) = p[Len(words)]
               /\ p[0] = FirstSetting(m, words)
               /\ \A i \in 1..Len(words) : p[i] = NextSetting(p[i - 1], words)
  BY Readings
<1>2. PICK q : /\ LoadGlobals(n, words) = q[Len(words)]
               /\ q[0] = FirstSetting(n, words)
               /\ \A i \in 1..Len(words) : q[i] = NextSetting(q[i - 1], words)
  BY Readings
<1> DEFINE Both(i) == Reading(m, words, p[i]) /\ Reading(n, words, q[i]) /\ Alike(p[i], q[i])
           T == {i \in Nat : i <= Len(words) => Both(i)}
<1>3. 0 \in T
  <2>1. Alike(FirstSetting(m, words), FirstSetting(n, words))  BY DEF Alike, FirstSetting
  <2> QED BY <1>1, <1>2, <2>1, FirstReading
<1>4. ASSUME NEW i \in Nat, i \in T PROVE i + 1 \in T
  <2>1. i + 1 <= Len(words) => /\ i <= Len(words) /\ p[i + 1] = NextSetting(p[i], words)
                               /\ q[i + 1] = NextSetting(q[i], words)
    BY <1>1, <1>2
  <2>2. i + 1 <= Len(words) => Both(i + 1)  BY <1>4, <2>1, NextReading, NextAlike
  <2> QED BY <2>2
<1>5. Len(words) \in T
  <2> HIDE DEF T
  <2> QED BY <1>3, <1>4, Induction
<1> QED BY <1>1, <1>2, <1>5

\* More words after those that are read make no difference.
LEMMA NextLonger ==
  ASSUME NEW words \in Seq(Word), NEW longer \in Seq(Word), Len(words) <= Len(longer),
         \A i \in 1..Len(words) : longer[i] = words[i],
         NEW m, NEW p, Reading(m, words, p), NEW n, NEW q, Reading(n, longer, q),
         Alike(p, q), NextSetting(p, words).ok
  PROVE  Alike(NextSetting(p, words), NextSetting(q, longer))
<1>1. DOMAIN p = {"m", "at", "left", "ok"} /\ DOMAIN p.m.globals = DOMAIN q.m.globals
  BY DEF Reading, Shape
<1>2. p.ok  BY DEF NextSetting
<1>3. p.at \in Nat /\ p.at >= 6 /\ Len(words) \in Nat /\ Len(longer) \in Nat  BY DEF Reading
<1>4. p.at <= Len(words) => p.at <= Len(longer) /\ longer[p.at] = words[p.at]  BY <1>3
<1>5. CASE p.left = 0  BY <1>5 DEF NextSetting, Alike
<1>6. CASE p.left # 0 /\ p.at <= Len(words) /\ words[p.at] \in MouseProfiles
           /\ EntryFits(words, p.at, p.left, 21)
  <2>1. q.ok /\ q.left # 0 /\ q.at <= Len(longer) /\ longer[q.at] \in MouseProfiles
        /\ EntryFits(longer, q.at, q.left, 21)
    BY <1>2, <1>3, <1>4, <1>6 DEF Alike, EntryFits
  <2> QED BY <1>2, <1>6, <2>1, MouseNext DEF Alike
<1>7. CASE p.left # 0 /\ p.at <= Len(words) /\ words[p.at] \in DOMAIN p.m.globals
           /\ EntryFits(words, p.at, p.left, 2)
  <2>1. q.ok /\ q.left # 0 /\ q.at <= Len(longer) /\ longer[q.at] \in DOMAIN q.m.globals
        /\ EntryFits(longer, q.at, q.left, 2)
    BY <1>1, <1>2, <1>3, <1>4, <1>7 DEF Alike, EntryFits
  <2> QED BY <1>2, <1>7, <2>1, GlobalNext DEF Alike
<1>8. CASE /\ p.left # 0
           /\ ~ (p.at <= Len(words) /\ words[p.at] \in MouseProfiles /\ EntryFits(words, p.at, p.left, 21))
           /\ ~ (p.at <= Len(words) /\ words[p.at] \in DOMAIN p.m.globals /\ EntryFits(words, p.at, p.left, 2))
  <2>1. NextSetting(p, words) = [p EXCEPT !.ok = FALSE]  BY <1>2, <1>8 DEF NextSetting
  <2> QED BY <1>1, <2>1
<1> QED BY <1>5, <1>6, <1>7, <1>8

LEMMA GlobalsLonger ==
  ASSUME NEW words \in Seq(Word), NEW longer \in Seq(Word), Len(words) <= Len(longer),
         \A i \in 1..Len(words) : longer[i] = words[i],
         HeaderOk(words), HeaderOk(longer), NEW m, Shape(m), AllRead(LoadGlobals(m, words))
  PROVE  AllRead(LoadGlobals(m, longer))
<1>1. PICK p : /\ LoadGlobals(m, words) = p[Len(words)]
               /\ p[0] = FirstSetting(m, words)
               /\ \A i \in 1..Len(words) : p[i] = NextSetting(p[i - 1], words)
  BY Readings
<1>2. PICK q : /\ LoadGlobals(m, longer) = q[Len(longer)]
               /\ q[0] = FirstSetting(m, longer)
               /\ \A i \in 1..Len(longer) : q[i] = NextSetting(q[i - 1], longer)
  BY Readings
<1>3. Len(words) \in Nat /\ Len(words) >= 5 /\ Len(longer) \in Nat /\ longer[5] = words[5]  BY DEF HeaderOk
<1> DEFINE Both(i) == Reading(m, words, p[i]) /\ Reading(m, longer, q[i]) /\ (p[i].ok => Alike(p[i], q[i]))
           T == {i \in Nat : i <= Len(words) => Both(i)}
<1>4. 0 \in T
  <2>1. Alike(FirstSetting(m, words), FirstSetting(m, longer))  BY <1>3 DEF Alike, FirstSetting
  <2> QED BY <1>1, <1>2, <2>1, FirstReading
<1>5. ASSUME NEW i \in Nat, i \in T PROVE i + 1 \in T
  <2>1. i + 1 <= Len(words) => /\ i <= Len(words) /\ p[i + 1] = NextSetting(p[i], words)
                               /\ q[i + 1] = NextSetting(q[i], longer)
    <3> SUFFICES ASSUME i + 1 <= Len(words)
                 PROVE  /\ i <= Len(words) /\ p[i + 1] = NextSetting(p[i], words)
                        /\ q[i + 1] = NextSetting(q[i], longer)
      OBVIOUS
    <3>1. i + 1 \in 1..Len(words) /\ i + 1 \in 1..Len(longer) /\ i + 1 - 1 = i /\ i <= Len(words)  BY <1>3
    <3> QED BY <1>1, <1>2, <3>1
  <2>2. NextSetting(p[i], words).ok => p[i].ok  BY DEF NextSetting
  <2>3. i + 1 <= Len(words) => Both(i + 1)  BY <1>5, <2>1, <2>2, NextReading, NextLonger
  <2> QED BY <2>3
<1>6. Len(words) \in T
  <2> HIDE DEF T
  <2> QED BY <1>4, <1>5, Induction
<1>7. AllRead(q[Len(words)])  BY <1>1, <1>6 DEF AllRead, Alike
<1> DEFINE U == {k \in Nat : Len(words) + k <= Len(longer) => AllRead(q[Len(words) + k])}
<1>8. 0 \in U  BY <1>3, <1>7
<1>9. ASSUME NEW k \in Nat, k \in U PROVE k + 1 \in U
  <2> SUFFICES ASSUME Len(words) + (k + 1) <= Len(longer) PROVE AllRead(q[Len(words) + (k + 1)])  OBVIOUS
  <2>1. /\ Len(words) + k <= Len(longer) /\ Len(words) + (k + 1) \in 1..Len(longer)
        /\ Len(words) + (k + 1) - 1 = Len(words) + k
    BY <1>3
  <2>2. q[Len(words) + (k + 1)] = NextSetting(q[Len(words) + k], longer)  BY <1>2, <2>1
  <2>3. AllRead(q[Len(words) + k])  BY <1>9, <2>1
  <2> QED BY <2>2, <2>3 DEF NextSetting, AllRead
<1>10. Len(longer) - Len(words) \in U
  <2> HIDE DEF U
  <2>1. Len(longer) - Len(words) \in Nat  BY <1>3
  <2> QED BY <1>8, <1>9, <2>1, Induction
<1>11. Len(words) + (Len(longer) - Len(words)) = Len(longer)  BY <1>3
<1> QED BY <1>2, <1>10, <1>11

\* Settings that begin with a word that was not written cannot be read.
LEMMA ErasedSettings ==
  ASSUME NEW words \in Seq(Word), HeaderOk(words), NEW m, Shape(m),
         words[5] # 0, Len(words) >= 6 => words[6] = ERASED
  PROVE  ~ AllRead(LoadGlobals(m, words))
<1>1. PICK load : /\ LoadGlobals(m, words) = load[Len(words)]
                  /\ load[0] = FirstSetting(m, words)
                  /\ \A n \in 1..Len(words) : load[n] = NextSetting(load[n - 1], words)
  BY Readings
<1>2. Len(words) \in Nat /\ Len(words) >= 5  BY DEF HeaderOk
<1> DEFINE T == {n \in Nat : n + 1 <= Len(words) => ~ load[n + 1].ok}
<1>3. 0 \in T
  <2> DEFINE r == FirstSetting(m, words)
  <2>1. DOMAIN r = {"m", "at", "left", "ok"} /\ r.ok /\ r.at = 6 /\ r.left = words[5] /\ DOMAIN r.m.globals = 3..6
    BY DEF FirstSetting, Shape
  <2>2. ~ (r.at <= Len(words) /\ words[r.at] \in MouseProfiles)
        /\ ~ (r.at <= Len(words) /\ words[r.at] \in DOMAIN r.m.globals)
    BY <1>2, <2>1, ErasedWord DEF MouseProfiles
  <2> HIDE DEF r
  <2>3. NextSetting(r, words) = [r EXCEPT !.ok = FALSE]  BY <2>1, <2>2 DEF NextSetting
  <2>4. load[1] = NextSetting(r, words)  BY <1>1, <1>2 DEF r
  <2> QED BY <2>1, <2>3, <2>4
<1>4. ASSUME NEW n \in Nat, n \in T PROVE n + 1 \in T
  <2>1. n + 1 + 1 <= Len(words) => n + 1 <= Len(words) /\ load[n + 1 + 1] = NextSetting(load[n + 1], words)
    BY <1>1, <1>2
  <2>2. n + 1 + 1 <= Len(words) => ~ load[n + 1 + 1].ok  BY <1>4, <2>1 DEF NextSetting
  <2> QED BY <2>2
<1>5. Len(words) - 1 \in T
  <2> HIDE DEF T
  <2>1. Len(words) - 1 \in Nat  BY <1>2
  <2> QED BY <1>3, <1>4, <2>1, Induction
<1> QED BY <1>1, <1>2, <1>5 DEF AllRead

-----------------------------------------------------------------------------
(***************************************************************************)
(* The rest of the words: directory and bodies.                            *)
(***************************************************************************)
\* What is read after the settings.
Rest(words) == Body(words, 6 + words[5])

LEMMA RestIs ==
  ASSUME NEW words \in Seq(Word), Len(words) >= 5
  PROVE  /\ Rest(words) \in Seq(Word) /\ Len(Rest(words)) \in Nat
         /\ 5 + words[5] <= Len(words) =>
              Len(Rest(words)) = IF Len(words) - 5 - words[5] < LAYOUT_MAX THEN Len(words) - 5 - words[5] ELSE LAYOUT_MAX
         /\ \A j \in 1..Len(Rest(words)) : Rest(words)[j] = words[5 + words[5] + j]
<1> DEFINE at == 6 + words[5]
           end == Min({Len(words), at + LAYOUT_MAX - 1})
<1>1. words[5] \in Nat /\ Len(words) \in Nat /\ LAYOUT_MAX \in Nat  BY WordsOf, BoardAssumption
<1>2. at \in Nat /\ at >= 6  BY <1>1
<1>3. end = IF Len(words) <= at + LAYOUT_MAX - 1 THEN Len(words) ELSE at + LAYOUT_MAX - 1
  BY <1>1, <1>2, LeastOfTwo
<1>4. end \in Int /\ end <= Len(words)  BY <1>1, <1>2, <1>3
<1>5. Rest(words) = SubSeq(words, at, end)  BY DEF Rest, Body
<1>6. at = 6 + words[5]  OBVIOUS
<1> HIDE DEF at, end
<1>7. \A i \in at..end : words[i] \in Word  BY <1>1, <1>2, <1>4, WordsOf
<1>8. /\ SubSeq(words, at, end) \in Seq(Word)
      /\ Len(SubSeq(words, at, end)) = IF at <= end THEN end - at + 1 ELSE 0
      /\ \A i \in 1..(end - at + 1) : SubSeq(words, at, end)[i] = words[at + i - 1]
  BY <1>2, <1>4, <1>7, SubSeqProperties
<1>9. Len(Rest(words)) = IF at <= end THEN end - at + 1 ELSE 0  BY <1>5, <1>8
<1>10. Len(Rest(words)) \in Nat  BY <1>2, <1>4, <1>9
<1>11. ASSUME NEW j \in 1..Len(Rest(words)) PROVE Rest(words)[j] = words[5 + words[5] + j]
  <2>1. j \in 1..(end - at + 1) /\ at + j - 1 = 5 + words[5] + j  BY <1>1, <1>2, <1>4, <1>6, <1>9
  <2> QED BY <1>5, <1>8, <2>1
<1>12. ASSUME 5 + words[5] <= Len(words)
       PROVE  Len(Rest(words)) = IF Len(words) - 5 - words[5] < LAYOUT_MAX THEN Len(words) - 5 - words[5] ELSE LAYOUT_MAX
  <2>1. CASE Len(words) <= at + LAYOUT_MAX - 1
    <3>1. end = Len(words) /\ Len(words) - 5 - words[5] <= LAYOUT_MAX  BY <1>1, <1>3, <1>6, <2>1
    <3> QED BY <1>1, <1>6, <1>9, <1>12, <3>1
  <2>2. CASE Len(words) > at + LAYOUT_MAX - 1
    <3>1. end = at + LAYOUT_MAX - 1 /\ ~ (Len(words) - 5 - words[5] < LAYOUT_MAX) /\ at <= end
      BY <1>1, <1>2, <1>3, <1>6, <2>2, BoardAssumption
    <3> QED BY <1>1, <1>2, <1>9, <3>1
  <2> QED BY <1>1, <1>2, <2>1, <2>2
<1> QED BY <1>5, <1>8, <1>10, <1>11, <1>12

-----------------------------------------------------------------------------
(***************************************************************************)
(* What a load needs and what it leaves.                                   *)
(***************************************************************************)
\* The words can be loaded.
Loadable(words) ==
  /\ HeaderOk(words) /\ AllRead(LoadGlobals(DefaultManager, words)) /\ CountsOk(words)
  /\ DirectoryFaults(Rest(words), Entries(words)) = {} /\ Len(Rest(words)) < LAYOUT_MAX

\* The manager m has loaded the words.
Leaves(m, words) ==
  /\ m.layout_bottom = Len(Rest(words)) /\ m.macro_dir_base = LayerCount(words)
  /\ m.composite_start_index = words[3] % 256
  /\ m.mapping[Len(Rest(words))] = MAIN_BASE
  /\ \A a \in 0..(Len(Rest(words)) - 1) : m.mapping[a] = Rest(words)[a + 1]

LEMMA BodyLoaded ==
  ASSUME NEW m, Shape(m), NEW body \in Seq(Word), NEW layer_count, NEW entries
  PROVE  LET r == LoadBody(m, body, layer_count, entries)
         IN /\ Shape(r.m)
            /\ r.ok <=> DirectoryFaults(body, entries) = {} /\ Len(body) < LAYOUT_MAX
            /\ r.ok => /\ r.m.layout_bottom = Len(body) /\ r.m.macro_dir_base = layer_count
                       /\ r.m.composite_start_index = m.composite_start_index
                       /\ r.m.mapping[Len(body)] = MAIN_BASE
                       /\ \A a \in 0..(Len(body) - 1) : r.m.mapping[a] = body[a + 1]
<1> DEFINE faults == DirectoryFaults(body, entries)
           copied == IF faults = {} THEN Len(body) ELSE Min(faults) - 1
           filled == [m EXCEPT !.mapping = [a \in DOMAIN @ |-> IF a < copied THEN body[a + 1] ELSE @[a]]]
           r == LoadBody(m, body, layer_count, entries)
           n == [filled EXCEPT !.macro_dir_base = layer_count, !.layout_bottom = Len(body)]
<1>1. Shape(filled) /\ filled.composite_start_index = m.composite_start_index
  BY DEF Shape
<1>2. \A a \in 0..(LAYOUT_MAX - 1) : filled.mapping[a] = IF a < copied THEN body[a + 1] ELSE m.mapping[a]
  BY DEF Shape
<1>3. Len(body) \in Nat /\ LAYOUT_MAX \in Nat  BY BoardAssumption
<1>4. CASE faults # {} \/ Len(body) >= LAYOUT_MAX
  <2>1. r = Result(filled, FALSE)  BY <1>4 DEF LoadBody
  <2> QED BY <1>1, <1>3, <1>4, <2>1 DEF Result
<1>5. CASE faults = {} /\ Len(body) < LAYOUT_MAX
  <2>1. copied = Len(body)  BY <1>5
  <2>0. ~ (faults # {} \/ Len(body) >= LAYOUT_MAX)  BY <1>3, <1>5
  <2>2. r = Result(ClearAll(n), TRUE)  BY <2>0, Zenon DEF LoadBody
  <2> HIDE DEF filled, copied
  <2>3. /\ Shape(n) /\ n.mapping = filled.mapping /\ n.layout_bottom = Len(body)
        /\ n.macro_dir_base = layer_count /\ n.composite_start_index = m.composite_start_index
    BY <1>1 DEF Shape
  <2>4. \A a \in 0..(Len(body) - 1) : n.mapping[a] = body[a + 1]
    BY <1>2, <1>3, <1>5, <2>1, <2>3
  <2> HIDE DEF n
  <2> DEFINE c == [n EXCEPT !.mapping[Len(body)] = MAIN_BASE]
  <2>5. ClearAll(n) = c  BY <2>3 DEF ClearAll
  <2>6. Len(body) \in 0..(LAYOUT_MAX - 1)  BY <1>3, <1>5
  <2>7. /\ Shape(c) /\ c.layout_bottom = Len(body) /\ c.macro_dir_base = layer_count
        /\ c.composite_start_index = m.composite_start_index /\ c.mapping[Len(body)] = MAIN_BASE
    BY <2>3, <2>6 DEF Shape
  <2>8. \A a \in 0..(Len(body) - 1) : c.mapping[a] = body[a + 1]
    <3>1. \A a \in 0..(Len(body) - 1) : a # Len(body) /\ a \in 0..(LAYOUT_MAX - 1)  BY <1>3, <2>6
    <3>2. \A a \in 0..(Len(body) - 1) : c.mapping[a] = n.mapping[a]  BY <2>3, <3>1 DEF Shape
    <3> QED BY <2>4, <3>2
  <2> HIDE DEF c
  <2> QED BY <1>5, <2>2, <2>5, <2>7, <2>8 DEF Result
<1> QED BY <1>3, <1>4, <1>5

\* Whether the words can be loaded, and what they leave, does not depend on what was loaded
\* before them; a load that fails leaves a manager that can load.
LEMMA LoadIs ==
  ASSUME NEW words \in Seq(Word), NEW m, Shape(m)
  PROVE  LET r == Load(m, words)
         IN /\ Shape(r.m)
            /\ r.ok <=> Loadable(words)
            /\ r.ok => Leaves(r.m, words)
<1> DEFINE r == Load(m, words)
           g == LoadGlobals(m, words)
           d == LoadGlobals(DefaultManager, words)
<1>1. CASE ~ HeaderOk(words)  BY <1>1 DEF Load, Result, Loadable
<1>2. ASSUME HeaderOk(words) PROVE Reading(m, words, g) /\ (AllRead(g) <=> AllRead(d))
  <2>1. Alike(g, d)  BY <1>2, GlobalsAlike, DefaultShape
  <2> QED BY <1>2, <2>1, GlobalsRead DEF Alike, AllRead
<1>3. CASE HeaderOk(words) /\ ~ (AllRead(g) /\ CountsOk(words))
  <2>1. r = Result(g.m, FALSE)  BY <1>3 DEF Load
  <2> QED BY <1>2, <1>3, <2>1 DEF Result, Loadable, Reading
<1>4. CASE HeaderOk(words) /\ AllRead(g) /\ CountsOk(words)
  <2> HIDE DEF g
  <2>1. /\ Shape(g.m) /\ g.m.composite_start_index = words[3] % 256 /\ g.at = 6 + words[5]
        /\ AllRead(d)
    <3>1. words[5] \in Nat  BY <1>4, WordsOf DEF HeaderOk
    <3> QED BY <1>2, <1>4, <3>1 DEF Reading, AllRead
  <2>2. r = LoadBody(g.m, Rest(words), LayerCount(words), Entries(words))
    BY <1>4, <2>1 DEF Load, Rest, g
  <2>3. Rest(words) \in Seq(Word)  BY <1>4, RestIs DEF HeaderOk
  <2> HIDE DEF r, d
  <2>4. /\ Shape(r.m)
        /\ r.ok <=> DirectoryFaults(Rest(words), Entries(words)) = {} /\ Len(Rest(words)) < LAYOUT_MAX
        /\ r.ok => /\ r.m.layout_bottom = Len(Rest(words)) /\ r.m.macro_dir_base = LayerCount(words)
                   /\ r.m.composite_start_index = g.m.composite_start_index
                   /\ r.m.mapping[Len(Rest(words))] = MAIN_BASE
                   /\ \A a \in 0..(Len(Rest(words)) - 1) : r.m.mapping[a] = Rest(words)[a + 1]
    BY <2>1, <2>2, <2>3, BodyLoaded
  <2> QED BY <1>4, <2>1, <2>4 DEF Loadable, Leaves, d, r
<1> QED BY <1>1, <1>3, <1>4

\* The layout in the firmware can be loaded over anything: unwrap does not panic.
LEMMA BuiltInLoads == ASSUME NEW m, Shape(m) PROVE Load(m, BuiltIn).ok
<1>1. Load(DefaultManager, BuiltIn).ok /\ BuiltIn \in Seq(Word)  BY BuiltInAssumption
<1>2. Loadable(BuiltIn)  BY <1>1, LoadIs, DefaultShape
<1> QED BY <1>1, <1>2, LoadIs

-----------------------------------------------------------------------------
(***************************************************************************)
(* The files of the compiler.                                              *)
(***************************************************************************)
LEMMA Increasing ==
  ASSUME NEW s, NEW a \in Nat, NEW b \in Nat, \A i \in a..b : s[i] \in Int,
         \A i \in (a + 1)..b : s[i - 1] < s[i]
  PROVE  \A i \in a..b : \A j \in i..b : s[i] <= s[j]
<1> SUFFICES ASSUME NEW i \in a..b, NEW j \in i..b PROVE s[i] <= s[j]  OBVIOUS
<1> DEFINE T == {k \in Nat : i + k <= b => s[i] <= s[i + k]}
<1>1. 0 \in T
  <2>1. i + 0 = i /\ s[i] \in Int  OBVIOUS
  <2> QED BY <2>1
<1>2. ASSUME NEW k \in Nat, k \in T PROVE k + 1 \in T
  <2>1. ASSUME i + (k + 1) <= b PROVE s[i] <= s[i + (k + 1)]
    <3>1. i + k \in a..b /\ i + (k + 1) \in (a + 1)..b /\ i + (k + 1) - 1 = i + k  BY <2>1
    <3>2. s[i] <= s[i + k] /\ s[i + k] < s[i + (k + 1)]  BY <1>2, <3>1
    <3>3. s[i] \in Int /\ s[i + k] \in Int /\ s[i + (k + 1)] \in Int  BY <3>1
    <3> QED BY <3>2, <3>3
  <2> QED BY <2>1
<1>3. j - i \in Nat /\ i + (j - i) = j /\ j <= b  OBVIOUS
<1>4. j - i \in T
  <2> HIDE DEF T
  <2> QED BY <1>1, <1>2, <1>3, Induction
<1> QED BY <1>3, <1>4

\* What may be in the flash.
File(f) == f = NoFile \/ (Compiled(f.words) /\ f.came \in 0..Len(f.words))

LEMMA FlashIs ==
  ASSUME NEW f, File(f)
  PROVE  /\ f.words \in Seq(Word) /\ Flash(f) \in Seq(Word) /\ Len(Flash(f)) = Len(f.words) + UNSENT
         /\ \A i \in 1..(Len(f.words) + UNSENT) :
              Flash(f)[i] = IF i <= f.came THEN f.words[i] ELSE ERASED
<1>1. f.words \in Seq(Word)
  <2>1. << >> \in Seq(Word)  OBVIOUS
  <2>2. CASE f = NoFile  BY <2>1, <2>2 DEF NoFile
  <2>3. CASE Compiled(f.words)  BY <2>3 DEF Compiled
  <2> QED BY <2>2, <2>3 DEF File
<1>2. f.came \in Nat /\ f.came <= Len(f.words)  BY <1>1 DEF File, NoFile
<1> DEFINE n == Len(f.words) + UNSENT
<1>3. n \in Nat  BY <1>1 DEF UNSENT
<1>4. ERASED \in Word  BY ErasedWord DEF Word
<1>5. Flash(f) = [i \in 1..n |-> IF i <= f.came THEN f.words[i] ELSE ERASED]  BY DEF Flash
<1>6. \A i \in 1..n : i <= f.came => f.words[i] \in Word
  <2> TAKE i \in 1..n
  <2> HAVE i <= f.came
  <2>1. i \in 1..Len(f.words)  BY <1>1, <1>2, <1>3
  <2> QED BY <1>1, <2>1
<1> HIDE DEF n
<1>7. Flash(f) \in [1..n -> Word]  BY <1>4, <1>5, <1>6
<1>8. Flash(f) \in Seq(Word) /\ Len(Flash(f)) = n
  <2>1. Flash(f) \in Seq(Word)  BY <1>3, <1>7, SeqDef
  <2> QED BY <1>3, <1>7, <2>1, LenProperties
<1> QED BY <1>1, <1>5, <1>8 DEF n

\* What is said of a file of the compiler.
LEMMA CompiledIs ==
  ASSUME NEW words, Compiled(words)
  PROVE  LET before == 5 + words[5]
             last == before + Entries(words)
         IN /\ words \in Seq(Word) /\ Len(words) \in Nat /\ Len(words) >= 5
            /\ before \in Nat /\ before >= 5 /\ Entries(words) \in Nat \ {0} /\ last <= Len(words)
            /\ words[last] = Len(words) - before
            /\ LayerCount(words) \in Nat /\ words[4] \in Nat
            /\ Entries(words) = LayerCount(words) + words[4] + 1
            /\ words[before + 1] > 0 /\ \A i \in (before + 2)..last : words[i - 1] < words[i]
<1>1. words \in Seq(Word) /\ Len(words) \in Nat /\ Len(words) >= 5  BY DEF Compiled
<1>2. words[3] \in Nat /\ words[4] \in Nat /\ words[5] \in Nat  BY <1>1, WordsOf
<1>3. LayerCount(words) \in Nat
  <2> DEFINE x == words[3]
  <2> HIDE DEF x
  <2>1. x \in Nat  BY <1>2 DEF x
  <2>2. (x % 256) + (x \div 256) \in Nat  BY <2>1
  <2> QED BY <2>2 DEF LayerCount, x
<1>4. Entries(words) = LayerCount(words) + words[4] + 1  BY DEF Entries
<1>5. Entries(words) \in Nat \ {0}  BY <1>2, <1>3, <1>4
<1> DEFINE before == 5 + words[5]
           last == before + Entries(words)
<1>6. before \in Nat /\ before >= 5  BY <1>2
<1>7. /\ last <= Len(words) /\ words[last] = Len(words) - before
      /\ words[before + 1] > 0 /\ \A i \in (before + 2)..last : words[i - 1] < words[i]
  BY DEF Compiled
<1> HIDE DEF before, last
<1>8. /\ words \in Seq(Word) /\ Len(words) \in Nat /\ Len(words) >= 5
      /\ before \in Nat /\ before >= 5 /\ Entries(words) \in Nat \ {0} /\ last <= Len(words)
      /\ words[last] = Len(words) - before
      /\ LayerCount(words) \in Nat /\ words[4] \in Nat
      /\ Entries(words) = LayerCount(words) + words[4] + 1
      /\ words[before + 1] > 0 /\ \A i \in (before + 2)..last : words[i - 1] < words[i]
  BY <1>1, <1>2, <1>3, <1>4, <1>5, <1>6, <1>7
<1> QED BY <1>8 DEF before, last

\* The whole of its header came, or it is not loaded.
LEMMA HeaderCame ==
  ASSUME NEW f, File(f), f # NoFile, Loadable(Flash(f)) PROVE f.came >= 5
<1> DEFINE n == Len(f.words) + UNSENT
<1>1. n \in Nat /\ n >= 5 /\ f.came \in Nat  BY CompiledIs DEF File, UNSENT
<1> SUFFICES ASSUME f.came < 5 PROVE FALSE  BY <1>1
<1>2. Flash(f)[5] = ERASED /\ (n >= 6 => Flash(f)[6] = ERASED)  BY <1>1, FlashIs
<1>3. Flash(f) \in Seq(Word) /\ Len(Flash(f)) = n  BY FlashIs
<1>4. HeaderOk(Flash(f)) /\ AllRead(LoadGlobals(DefaultManager, Flash(f)))  BY DEF Loadable
<1> HIDE DEF n
<1> QED BY <1>2, <1>3, <1>4, ErasedWord, DefaultShape, ErasedSettings

\* Its directory came as well, and ends where the bodies end.
LEMMA DirectoryCame ==
  ASSUME NEW f, File(f), f # NoFile, Loadable(Flash(f))
  PROVE  LET e == Entries(f.words)
             body == Rest(Flash(f))
         IN /\ LayerCount(Flash(f)) = LayerCount(f.words) /\ e \in 1..Len(body) /\ body[e] + UNSENT = Len(body)
            /\ \A j \in 1..e : body[j] \in Nat
            /\ \A j \in 2..e : body[j - 1] < body[j]
<1> DEFINE w == f.words
           fl == Flash(f)
           before == 5 + w[5]
           e == Entries(w)
           body == Rest(fl)
<1>1. Compiled(w) /\ f.came \in 0..Len(w)  BY DEF File
<1>2. /\ w \in Seq(Word) /\ Len(w) \in Nat /\ Len(w) >= 5 /\ before \in Nat /\ before >= 5
      /\ e \in Nat \ {0} /\ before + e <= Len(w) /\ w[before + e] = Len(w) - before
  BY <1>1, CompiledIs
<1>3. fl \in Seq(Word) /\ Len(fl) = Len(w) + UNSENT /\ \A i \in 1..Len(w) : fl[i] = IF i <= f.came THEN w[i] ELSE ERASED
  BY <1>2, FlashIs DEF UNSENT
<1>4. fl[3] = w[3] /\ fl[4] = w[4] /\ fl[5] = w[5]
  <2>1. f.came >= 5 /\ f.came \in Nat  BY <1>1, HeaderCame
  <2>2. \A i \in {3, 4, 5} : i \in 1..Len(w) /\ i <= f.came  BY <1>2, <2>1
  <2> QED BY <1>3, <2>2
<1>5. Entries(fl) = e /\ LayerCount(fl) = LayerCount(w) /\ 5 + fl[5] = before
  BY <1>4 DEF Entries, LayerCount
<1>6. DirectoryFaults(body, e) = {} /\ Len(body) < LAYOUT_MAX  BY <1>5 DEF Loadable
<1>7. LAYOUT_MAX \in Nat /\ LAYOUT_MAX < ERASED  BY BoardAssumption, ErasedWord
<1> HIDE DEF w, fl, before, e
<1>8. /\ body \in Seq(Word) /\ Len(body) \in Nat
      /\ Len(body) = IF Len(w) - before + UNSENT < LAYOUT_MAX THEN Len(w) - before + UNSENT ELSE LAYOUT_MAX
      /\ \A j \in 1..Len(body) : body[j] = fl[before + j]
  <2>1. Len(fl) >= 5 /\ 5 + fl[5] <= Len(fl) /\ Len(fl) - 5 - fl[5] = Len(w) - before + UNSENT
    <3>1. fl[5] \in Nat
      <4>1. 5 \in 1..Len(fl)  BY <1>2, <1>3 DEF UNSENT
      <4> QED BY <1>3, <4>1, WordsOf
    <3> QED BY <1>2, <1>3, <1>5, <3>1 DEF UNSENT
  <2> QED BY <1>3, <1>5, <2>1, RestIs
<1> HIDE DEF body
<1>9. Len(body) = Len(w) - before + UNSENT /\ e \in 1..Len(body)  BY <1>2, <1>6, <1>7, <1>8 DEF UNSENT
<1>10. \A j \in 1..e : body[j] \in Nat /\ body[j] <= LAYOUT_MAX /\ (j # 1 => body[j - 1] < body[j])
  <2> SUFFICES ASSUME NEW j \in 1..e
               PROVE  body[j] \in Nat /\ body[j] <= LAYOUT_MAX /\ (j # 1 => body[j - 1] < body[j])
    OBVIOUS
  <2>1. j \in 1..Len(body) /\ (j # 1 => j - 1 \in 1..Len(body))  BY <1>2, <1>9
  <2>2. body[j] \in Nat /\ (j # 1 => body[j - 1] \in Nat)  BY <1>8, <2>1, WordsOf
  <2>3. ~ (body[j] > LAYOUT_MAX \/ body[j] <= (IF j = 1 THEN 0 ELSE body[j - 1]))
    BY <1>6, <2>1 DEF DirectoryFaults
  <2> QED BY <1>7, <2>2, <2>3
<1>11. body[e] = w[before + e]
  <2>1. e \in 1..Len(body) /\ before + e \in 1..Len(w) /\ body[e] = fl[before + e]  BY <1>2, <1>8, <1>9
  <2>2. body[e] <= LAYOUT_MAX  BY <1>2, <1>10
  <2>3. body[e] # ERASED  BY <1>7, <2>2, ErasedWord
  <2> QED BY <1>3, <2>1, <2>3
<1>12. \A j \in 2..e : body[j - 1] < body[j]  BY <1>2, <1>10
<1> QED BY <1>2, <1>5, <1>9, <1>10, <1>11, <1>12 DEF w, fl, e, body

LEMMA LoadedInside ==
  ASSUME NEW f, File(f), f # NoFile, Loadable(Flash(f)), NEW m, Leaves(m, Flash(f))
  PROVE  \A i \in 0..(m.macro_dir_base + MacroCount(f.words) - 1) :
           m.mapping[i] < m.mapping[i + 1] /\ m.mapping[i + 1] <= m.layout_bottom
<1> DEFINE e == Entries(f.words)
           body == Rest(Flash(f))
<1>1. /\ LayerCount(Flash(f)) = LayerCount(f.words) /\ e \in 1..Len(body) /\ body[e] + UNSENT = Len(body)
      /\ \A j \in 1..e : body[j] \in Nat
      /\ \A j \in 2..e : body[j - 1] < body[j]
  BY DirectoryCame
<1>2. Compiled(f.words)  BY DEF File
<1>3. LayerCount(f.words) \in Nat /\ f.words[4] \in Nat /\ e = LayerCount(f.words) + f.words[4] + 1
  BY <1>2, CompiledIs
<1>4. /\ m.layout_bottom = Len(body) /\ m.macro_dir_base = LayerCount(f.words)
      /\ \A a \in 0..(Len(body) - 1) : m.mapping[a] = body[a + 1]
  BY <1>1 DEF Leaves
<1>5. Len(body) \in Nat
  <2>1. Flash(f) \in Seq(Word) /\ Len(Flash(f)) >= 5  BY <1>2, FlashIs, CompiledIs DEF UNSENT
  <2> QED BY <2>1, RestIs
<1> HIDE DEF e, body
<1>6. \A i \in 1..e : \A j \in i..e : body[i] <= body[j]
  <2>1. 1 \in Nat /\ e \in Nat /\ (\A j \in 1..e : body[j] \in Int) /\ \A j \in (1 + 1)..e : body[j - 1] < body[j]
    BY <1>1, <1>5
  <2> QED BY <2>1, Increasing
<1> SUFFICES ASSUME NEW i \in 0..(LayerCount(f.words) + f.words[4] - 1)
             PROVE  m.mapping[i] < m.mapping[i + 1] /\ m.mapping[i + 1] <= Len(body)
  BY <1>4 DEF MacroCount
<1>7. i + 1 \in 1..e /\ i + 2 \in 2..e /\ i + 2 \in 1..e /\ e \in (i + 2)..e /\ i + 2 - 1 = i + 1
  <2>1. i \in Nat /\ i <= LayerCount(f.words) + f.words[4] - 1  BY <1>3
  <2>2. i + 2 <= e /\ e \in Nat  BY <1>3, <2>1
  <2> QED BY <2>1, <2>2
<1>8. i \in 0..(Len(body) - 1) /\ i + 1 \in 0..(Len(body) - 1) /\ i + 1 + 1 = i + 2  BY <1>1, <1>5, <1>7
<1>9. m.mapping[i] = body[i + 1] /\ m.mapping[i + 1] = body[i + 2]
  <2>1. m.mapping[i + 1] = body[i + 1 + 1]  BY <1>4, <1>8
  <2> QED BY <1>4, <1>8, <2>1
<1>10. body[i + 1] < body[i + 2]  BY <1>1, <1>7
<1>11. body[i + 2] <= body[e] /\ body[i + 2] \in Nat /\ body[e] \in Nat  BY <1>1, <1>6, <1>7
<1> QED BY <1>1, <1>5, <1>9, <1>10, <1>11 DEF UNSENT

\* A whole file can be loaded if it is for this matrix and there is room for it.
LEMMA WholeLoads ==
  ASSUME NEW f, File(f), f # NoFile, Whole(f)
  PROVE  Loadable(Flash(f)) <=> /\ f.words[2] = 256 * ROWS + COLS
                                /\ Len(f.words) - 5 - f.words[5] + UNSENT < LAYOUT_MAX
<1> DEFINE w == f.words
           before == 5 + w[5]
           e == Entries(w)
<1>1. Compiled(w) /\ f.came \in 0..Len(w)  BY DEF File
<1>2. /\ w \in Seq(Word) /\ Len(w) \in Nat /\ Len(w) >= 5 /\ before \in Nat /\ before >= 5
      /\ e \in Nat \ {0} /\ before + e <= Len(w) /\ w[before + e] = Len(w) - before
      /\ w[before + 1] > 0 /\ \A i \in (before + 2)..(before + e) : w[i - 1] < w[i]
  BY <1>1, CompiledIs
<1>3. w[5] \in Nat  BY <1>2, WordsOf
<1> DEFINE fl == Flash(f)
<1>4. /\ fl \in Seq(Word) /\ Len(fl) = Len(w) + UNSENT /\ Len(fl) \in Nat /\ Len(w) <= Len(fl)
      /\ \A i \in 1..Len(w) : fl[i] = w[i]
  <2>1. f.came = Len(w)  BY <1>1, <1>2 DEF Whole
  <2>2. /\ fl \in Seq(Word) /\ Len(fl) = Len(w) + UNSENT
        /\ \A i \in 1..Len(w) : fl[i] = IF i <= f.came THEN w[i] ELSE ERASED
    <3>1. \A i \in 1..Len(w) : i \in 1..(Len(w) + UNSENT)  BY <1>2 DEF UNSENT
    <3> QED BY <3>1, FlashIs
  <2> HIDE DEF fl, w
  <2> QED BY <1>2, <2>1, <2>2 DEF UNSENT
<1> HIDE DEF fl
<1>5. fl[1] = w[1] /\ fl[2] = w[2] /\ fl[3] = w[3] /\ fl[4] = w[4] /\ fl[5] = w[5]  BY <1>2, <1>4
<1>6. /\ HeaderOk(fl) <=> w[2] = 256 * ROWS + COLS
      /\ HeaderOk(w) <=> w[2] = 256 * ROWS + COLS
  <2>1. w[1] = PROTOCOL_VERSION /\ w[3] % 256 >= 6  BY <1>1 DEF Compiled
  <2>2. Len(w) >= 5 /\ Len(fl) >= 5  BY <1>2, <1>4 DEF UNSENT
  <2> HIDE DEF w
  <2>3. HeaderOk(w) <=> w[2] = 256 * ROWS + COLS  BY <2>1, <2>2 DEF HeaderOk
  <2>4. HeaderOk(fl) <=> w[2] = 256 * ROWS + COLS  BY <1>5, <2>1, <2>2 DEF HeaderOk
  <2> QED BY <2>3, <2>4
<1>7. /\ w[2] = 256 * ROWS + COLS => AllRead(LoadGlobals(DefaultManager, fl))
      /\ CountsOk(fl) /\ Entries(fl) = e
  <2>1. AllRead(LoadGlobals(DefaultManager, w)) /\ CountsOk(w)  BY <1>1 DEF Compiled
  <2>2. CountsOk(fl) /\ Entries(fl) = e  BY <1>5, <2>1 DEF CountsOk, LayerCount, Entries
  <2> HIDE DEF w
  <2> QED BY <1>2, <1>4, <1>6, <2>1, <2>2, GlobalsLonger, DefaultShape
<1> HIDE DEF w, e
<1>8. /\ Rest(fl) \in Seq(Word) /\ Len(Rest(fl)) \in Nat
      /\ Len(Rest(fl)) = IF Len(w) - 5 - w[5] + UNSENT < LAYOUT_MAX THEN Len(w) - 5 - w[5] + UNSENT ELSE LAYOUT_MAX
      /\ \A j \in 1..Len(Rest(fl)) : j <= e => Rest(fl)[j] = w[before + j]
  <2>1. 5 + fl[5] <= Len(fl) /\ Len(fl) >= 5 /\ 5 + fl[5] = before  BY <1>2, <1>4, <1>5 DEF UNSENT
  <2>2. Len(fl) - 5 - fl[5] = Len(w) - 5 - w[5] + UNSENT  BY <1>3, <1>4, <1>5, <1>2 DEF UNSENT
  <2> HIDE DEF before
  <2>3. /\ Rest(fl) \in Seq(Word) /\ Len(Rest(fl)) \in Nat
        /\ Len(Rest(fl)) = IF Len(fl) - 5 - fl[5] < LAYOUT_MAX THEN Len(fl) - 5 - fl[5] ELSE LAYOUT_MAX
        /\ \A j \in 1..Len(Rest(fl)) : Rest(fl)[j] = fl[before + j]
    BY <1>4, <2>1, RestIs
  <2>4. \A j \in 1..Len(Rest(fl)) : j <= e => before + j \in 1..Len(w)  BY <1>2, <2>3
  <2> QED BY <1>4, <2>2, <2>3, <2>4
<1>9. LAYOUT_MAX \in Nat /\ (Len(Rest(fl)) < LAYOUT_MAX <=> Len(w) - 5 - w[5] + UNSENT < LAYOUT_MAX)
  BY <1>2, <1>3, <1>8, BoardAssumption DEF UNSENT
<1>10. ASSUME Len(w) - 5 - w[5] + UNSENT < LAYOUT_MAX PROVE DirectoryFaults(Rest(fl), e) = {}
  <2> DEFINE body == Rest(fl)
  <2>1. \A i \in (before + 1)..(before + e) : w[i] \in Int
    <3> SUFFICES ASSUME NEW i \in (before + 1)..(before + e) PROVE w[i] \in Int  OBVIOUS
    <3>1. i \in 1..Len(w)  BY <1>2
    <3>2. w[i] \in Nat  BY <1>2, <3>1, WordsOf
    <3> QED BY <3>2
  <2>2. \A i \in (before + 1)..(before + e) : \A j \in i..(before + e) : w[i] <= w[j]
    <3>1. before + 1 \in Nat /\ before + e \in Nat /\ \A i \in (before + 1 + 1)..(before + e) : w[i - 1] < w[i]
      BY <1>2
    <3> HIDE DEF before
    <3> QED BY <2>1, <3>1, Increasing
  <2> HIDE DEF before
  <2>3. ASSUME NEW j \in 1..Len(body), j <= e
        PROVE  ~ (body[j] > LAYOUT_MAX \/ body[j] <= (IF j = 1 THEN 0 ELSE body[j - 1]))
    <3>1. /\ before + j \in (before + 1)..(before + e) /\ before + e \in (before + j)..(before + e)
          /\ before + e \in (before + 1)..(before + e)
      BY <1>2, <2>3
    <3>2. w[before + j] <= w[before + e] /\ w[before + e] < LAYOUT_MAX
      <4>1. w[before + j] <= w[before + e]  BY <2>2, <3>1
      <4>2. Len(w) - before < LAYOUT_MAX  BY <1>2, <1>3, <1>9, <1>10 DEF before, UNSENT
      <4> QED BY <1>2, <4>1, <4>2
    <3>3. body[j] = w[before + j] /\ w[before + j] \in Int /\ w[before + e] \in Int  BY <1>8, <2>1, <2>3, <3>1
    <3>4. CASE j = 1  BY <1>2, <1>9, <3>2, <3>3, <3>4
    <3>5. CASE j # 1
      <4>1. /\ j - 1 \in 1..Len(body) /\ before + j \in (before + 2)..(before + e)
            /\ before + j - 1 = before + (j - 1) /\ before + (j - 1) \in (before + 1)..(before + e)
        BY <1>2, <1>8, <2>3, <3>5
      <4>2. body[j - 1] = w[before + (j - 1)]  BY <1>2, <1>8, <2>3, <4>1
      <4>3. w[before + j - 1] < w[before + j]  BY <1>2, <4>1
      <4>4. w[before + (j - 1)] \in Int  BY <2>1, <4>1
      <4> QED BY <1>9, <3>2, <3>3, <3>5, <4>1, <4>2, <4>3, <4>4
    <3> QED BY <3>4, <3>5
  <2> QED BY <2>3 DEF DirectoryFaults
<1> QED BY <1>6, <1>7, <1>9, <1>10 DEF Loadable, w, e, fl

-----------------------------------------------------------------------------
(***************************************************************************)
(* The loader.                                                             *)
(***************************************************************************)
\* What is in use, as file and manager.
InUse(k) ==
  /\ Shape(k.m) /\ File(k.file)
  /\ IF k.file = NoFile THEN Leaves(k.m, BuiltIn) ELSE Loadable(Flash(k.file)) /\ Leaves(k.m, Flash(k.file))

LoaderInv ==
  /\ InUse(kb) /\ File(file)
  /\ (~ due /\ file # NoFile /\ Whole(file)) => (kb.file = file <=> Loadable(Flash(file)))

LEMMA NothingLoads == ~ Loadable(Flash(NoFile))
<1>1. Len(Flash(NoFile)) = 2
  <2>1. File(NoFile) /\ Len(NoFile.words) = 0  BY DEF File, NoFile
  <2>2. Len(Flash(NoFile)) = 0 + UNSENT  BY <2>1, FlashIs
  <2> QED BY <2>2 DEF UNSENT
<1> QED BY <1>1 DEF Loadable, HeaderOk

\* A file that can be loaded is in use afterwards, the layout in the firmware if not.
LEMMA FileInUse ==
  ASSUME NEW m, Shape(m), NEW f, File(f)
  PROVE  LET k == LoadFile(m, f)
         IN InUse(k) /\ (k.file = IF Loadable(Flash(f)) THEN f ELSE NoFile)
<1> DEFINE k == LoadFile(m, f)
           r == Load(m, Flash(f))
           b == Load(r.m, BuiltIn)
<1>1. Flash(f) \in Seq(Word)  BY FlashIs
<1>2. Shape(r.m) /\ (r.ok <=> Loadable(Flash(f))) /\ (r.ok => Leaves(r.m, Flash(f)))  BY <1>1, LoadIs
<1>3. Shape(b.m) /\ Leaves(b.m, BuiltIn)
  <2>1. BuiltIn \in Seq(Word)  BY BuiltInAssumption
  <2>2. b.ok  BY <1>2, BuiltInLoads
  <2> QED BY <1>2, <2>1, <2>2, LoadIs
<1>4. k = IF r.ok THEN Loaded(r.m, f, m) ELSE Loaded(b.m, NoFile, m)  BY DEF LoadFile
<1> HIDE DEF k, r, b
<1>5. \A n, g : Loaded(n, g, m).m = n /\ Loaded(n, g, m).file = g  BY DEF Loaded
<1>6. CASE r.ok
  <2>1. k.m = r.m /\ k.file = f  BY <1>4, <1>5, <1>6
  <2>2. f # NoFile  BY <1>2, <1>6, NothingLoads
  <2> QED BY <1>2, <1>6, <2>1, <2>2 DEF InUse, k
<1>7. CASE ~ r.ok
  <2>1. k.m = b.m /\ k.file = NoFile /\ ~ Loadable(Flash(f))  BY <1>2, <1>4, <1>5, <1>7
  <2>2. File(NoFile)  BY DEF File
  <2> QED BY <1>3, <2>1, <2>2 DEF InUse, k
<1> QED BY <1>6, <1>7

LEMMA InitInv == LoaderInit => LoaderInv
<1> SUFFICES ASSUME LoaderInit PROVE LoaderInv  OBVIOUS
<1>1. File(NoFile)  BY DEF File
<1>2. kb = LoadFile(DefaultManager, NoFile) /\ file = NoFile  BY DEF LoaderInit
<1>3. InUse(kb)  BY <1>1, <1>2, DefaultShape, FileInUse
<1> QED BY <1>1, <1>2, <1>3 DEF LoaderInv

LEMMA StepInv == LoaderInv /\ [LoaderNext]_loader => LoaderInv'
<1> SUFFICES ASSUME LoaderInv, [LoaderNext]_loader PROVE LoaderInv'  OBVIOUS
<1>1. InUse(kb) /\ File(file)  BY DEF LoaderInv
<1>2. ASSUME NEW m, Shape(m), kb' = LoadFile(m, file), UNCHANGED file PROVE LoaderInv'
  <2>1. InUse(kb') /\ kb'.file = IF Loadable(Flash(file)) THEN file ELSE NoFile  BY <1>1, <1>2, FileInUse
  <2>2. file' = file  BY <1>2
  <2>3. file # NoFile => (kb'.file = file <=> Loadable(Flash(file)))  BY <2>1
  <2>4. InUse(kb)' /\ File(file)'  BY <1>1, <2>1, <2>2 DEF InUse
  <2> QED BY <2>2, <2>3, <2>4 DEF LoaderInv
<1>3. CASE LoadLayout
  <2>1. Shape(kb.m) /\ kb' = LoadFile(kb.m, file) /\ UNCHANGED file  BY <1>1, <1>3 DEF LoadLayout, InUse
  <2> QED BY <1>2, <2>1
<1>4. CASE Restart  BY <1>2, <1>4, DefaultShape DEF Restart
<1>5. CASE Store
  <2>1. /\ kb' = kb /\ Compiled(file'.words) /\ file'.came \in 0..Len(file'.words)
        /\ due' = Whole(file')
    BY <1>5 DEF Store
  <2>2. InUse(kb)'  BY <1>1, <2>1
  <2>3. File(file)'  BY <2>1 DEF File
  <2>4. ~ (~ due' /\ Whole(file'))  BY <2>1
  <2> QED BY <2>2, <2>3, <2>4 DEF LoaderInv
<1>6. CASE UNCHANGED loader
  <2>1. kb' = kb /\ file' = file /\ due' = due  BY <1>6 DEF loader
  <2> QED BY <2>1 DEF LoaderInv
<1> QED BY <1>3, <1>4, <1>5, <1>6 DEF LoaderNext

LEMMA Invariant == LoaderSpec => []LoaderInv
<1> QED BY InitInv, StepInv, PTL DEF LoaderSpec

\* A load that fails is recovered from: the layout in the firmware is then there as if nothing
\* had been loaded before it (load_layout in config_loader.rs, Manager::load).
THEOREM FailedLoadsRecover == LoaderSpec => []FailedLoadRecovers
<1>1. ASSUME LoaderInv PROVE FailedLoadRecovers
  <2> SUFFICES ASSUME kb.file = NoFile PROVE FailedLoadRecovers  BY DEF FailedLoadRecovers
  <2> DEFINE m == Load(DefaultManager, BuiltIn).m
             n == Len(Rest(BuiltIn))
  <2>1. BuiltIn \in Seq(Word) /\ Load(DefaultManager, BuiltIn).ok  BY BuiltInAssumption
  <2>2. Leaves(m, BuiltIn)  BY <2>1, DefaultShape, LoadIs
  <2>3. Leaves(kb.m, BuiltIn)  BY <1>1 DEF LoaderInv, InUse
  <2>4. n \in Nat
    <3>1. Len(BuiltIn) >= 5  BY <2>1, DefaultShape, LoadIs DEF Loadable, HeaderOk
    <3> QED BY <2>1, <3>1, RestIs
  <2> HIDE DEF m
  <2>5. m.layout_bottom = n /\ kb.m.layout_bottom = n  BY <2>2, <2>3 DEF Leaves
  <2>6. ASSUME NEW a \in 0..n PROVE kb.m.mapping[a] = m.mapping[a]
    <3>1. CASE a = n  BY <2>2, <2>3, <3>1 DEF Leaves
    <3>2. CASE a # n
      <4>1. a \in 0..(n - 1)  BY <2>4, <3>2
      <4> QED BY <2>2, <2>3, <4>1 DEF Leaves
    <3> QED BY <3>1, <3>2
  <2> HIDE DEF n
  <2>7. /\ kb.m.layout_bottom = m.layout_bottom
        /\ kb.m.macro_dir_base = m.macro_dir_base
        /\ kb.m.composite_start_index = m.composite_start_index
        /\ \A a \in 0..m.layout_bottom : kb.m.mapping[a] = m.mapping[a]
    BY <2>2, <2>3, <2>5, <2>6 DEF Leaves
  <2> QED BY <2>7 DEF FailedLoadRecovers, m
<1> QED BY <1>1, Invariant, PTL

\* Whatever came of a file, what is taken for a layout has its bodies where the directory says,
\* inside what was loaded (Manager::load checks no more than that the directory grows).
THEOREM BodiesAreInside == LoaderSpec => []BodiesInside
<1>1. ASSUME LoaderInv PROVE BodiesInside
  <2> SUFFICES ASSUME kb.file # NoFile PROVE BodiesInside  BY DEF BodiesInside
  <2>1. File(kb.file) /\ Loadable(Flash(kb.file)) /\ Leaves(kb.m, Flash(kb.file))  BY <1>1 DEF LoaderInv, InUse
  <2> QED BY <2>1, LoadedInside DEF BodiesInside
<1> QED BY <1>1, Invariant, PTL

\* A whole file that is for this keyboard and fits is in use, and no other whole file.  It fits if its
\* layout and the two words after it that were declared and not sent leave a word of the array free.
THEOREM FittingFilesLoad == LoaderSpec => []FittingLoads
<1>1. ASSUME LoaderInv PROVE FittingLoads
  <2> SUFFICES ASSUME ~ due, file # NoFile, Whole(file)
               PROVE  kb.file = file <=> /\ file.words[2] = 256 * ROWS + COLS
                                         /\ Len(file.words) - 5 - file.words[5] + UNSENT < LAYOUT_MAX
    BY DEF FittingLoads
  <2> QED BY <1>1, WholeLoads DEF LoaderInv
<1> QED BY <1>1, Invariant, PTL

\* load_layout(layout_mapping).unwrap() in config_loader.rs never panics, and the start does not
\* fail: whatever a load that failed has left behind, the layout in the firmware can be loaded.
THEOREM FallbackLoads ==
  LoaderSpec => [](\A m \in {kb.m, DefaultManager} : Load(Load(m, Flash(file)).m, BuiltIn).ok)
<1>1. ASSUME LoaderInv, NEW m \in {kb.m, DefaultManager} PROVE Load(Load(m, Flash(file)).m, BuiltIn).ok
  <2>1. Shape(m) /\ Flash(file) \in Seq(Word)  BY <1>1, DefaultShape, FlashIs DEF LoaderInv, InUse
  <2>2. Shape(Load(m, Flash(file)).m)  BY <2>1, LoadIs
  <2> QED BY <2>2, BuiltInLoads
<1>2. LoaderInv => \A m \in {kb.m, DefaultManager} : Load(Load(m, Flash(file)).m, BuiltIn).ok
  BY <1>1
<1> QED BY <1>2, Invariant, PTL
=============================================================================
