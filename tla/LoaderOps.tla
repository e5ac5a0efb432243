----------------------------- MODULE LoaderOps -----------------------------
(***************************************************************************)
(* layout::Manager::load (rpk-firmware/src/layout.rs).                     *)
(*                                                                         *)
(* A manager is a record of the fields that load writes.  The rest of it   *)
(* (the stacks behind layout_bottom) is in LayoutOps, whose assumption     *)
(* about a loaded layout Deploy checks.                                    *)
(***************************************************************************)
EXTENDS RpkCommon, Sequences, SequencesExt

ERASED == 65535   \* a word of flash that nothing was written to
Word == 0..ERASED

CONSTANTS
  ROWS, COLS,   \* the matrix of the board
  LAYOUT_MAX    \* the length of mapping

ASSUME BoardAssumption ==
  ROWS \in 1..255 /\ COLS \in 1..255 /\ LAYOUT_MAX \in 2..(ERASED - 1)

MAIN_BASE == 5

\* Manager::default
DefaultManager ==
  [mapping |-> [a \in 0..(LAYOUT_MAX - 1) |-> 0], globals |-> DefaultTimeouts,
   mouse_profiles |-> DefaultProfiles, layout_bottom |-> 0,
   composite_start_index |-> 0, macro_dir_base |-> 0]

Result(m, ok) == [m |-> m, ok |-> ok]

\* Version, matrix and number of layers are right.
HeaderOk(words) ==
  /\ Len(words) >= 5
  /\ words[1] = PROTOCOL_VERSION
  /\ words[2] = 256 * ROWS + COLS
  /\ words[3] % 256 >= 6

\* MouseAnalogSetting::deserialize
Floats(words, at) ==
  [i \in 1..5 |-> <<words[at + 2 * (i - 1)], words[at + 2 * (i - 1) + 1]>>]

\* Mutant: a setting may not be the last one.
EntryFitsStrict(words, at, left, n) == left > n /\ at + n - 1 <= Len(words)

\* assert_globals_count, and the words are there.
EntryFits(words, at, left, n) == left >= n /\ at + n - 1 <= Len(words)

(***************************************************************************)
(* The settings: `left` words are left of them, from `at` on.  Each is in  *)
(* force as soon as it is read.                                            *)
(***************************************************************************)
LayerCount(words) == (words[3] % 256) + (words[3] \div 256)

FirstSetting(m, words) ==
  [m |-> [m EXCEPT !.composite_start_index = words[3] % 256], at |-> 6, left |-> words[5], ok |-> TRUE]

ProfileAt(words, at) == [movement |-> Floats(words, at + 1), scroll |-> Floats(words, at + 11)]

NextSetting(r, words) ==
  CASE ~ r.ok \/ r.left = 0 -> r
    [] r.ok /\ r.left # 0 /\ r.at <= Len(words) /\ words[r.at] \in MouseProfiles
         /\ EntryFits(words, r.at, r.left, 21) ->
         [r EXCEPT !.m.mouse_profiles[words[r.at]] = ProfileAt(words, r.at), !.at = @ + 21, !.left = @ - 21]
    [] r.ok /\ r.left # 0 /\ r.at <= Len(words) /\ words[r.at] \in DOMAIN r.m.globals
         /\ EntryFits(words, r.at, r.left, 2) ->
         [r EXCEPT !.m.globals[words[r.at]] = words[r.at + 1], !.at = @ + 2, !.left = @ - 2]
    [] OTHER -> [r EXCEPT !.ok = FALSE]

\* There are fewer settings than words.
LoadGlobals(m, words) ==
  LET load[n \in 0..Len(words)] == IF n = 0 THEN FirstSetting(m, words) ELSE NextSetting(load[n - 1], words)
  IN load[Len(words)]

AllRead(r) == r.ok /\ r.left = 0

\* Mutant: the last entry, where the last body ends, is not looked at.
DirectoryFaultsButLast(body, entries) ==
  {j \in 1..Len(body) : j < entries /\ (body[j] > LAYOUT_MAX \/ body[j] <= (IF j = 1 THEN 0 ELSE body[j - 1]))}

\* The entries of the directory must grow and stay in the array.
DirectoryFaults(body, entries) ==
  {j \in 1..Len(body) : j <= entries /\ (body[j] > LAYOUT_MAX \/ body[j] <= (IF j = 1 THEN 0 ELSE body[j - 1]))}

\* clear_all, as far as it concerns the base layer; the stacks are LayoutOps!ClearAll.
ClearAll(m) == [m EXCEPT !.mapping[m.layout_bottom] = MAIN_BASE]

\* Directory and bodies are copied until the first fault; they must leave a word free.
LoadBody(m, body, layer_count, entries) ==
  LET faults == DirectoryFaults(body, entries)
      copied == IF faults = {} THEN Len(body) ELSE Min(faults) - 1
      filled == [m EXCEPT !.mapping = [a \in DOMAIN @ |-> IF a < copied THEN body[a + 1] ELSE @[a]]]
  IN IF faults # {} \/ Len(body) >= LAYOUT_MAX THEN Result(filled, FALSE)
     ELSE Result(ClearAll([filled EXCEPT !.macro_dir_base = layer_count, !.layout_bottom = Len(body)]), TRUE)

\* The entries of the directory: where each layer and macro starts, and where the last ends.
Entries(words) == LayerCount(words) + words[4] + 1

\* There are as many layers and macros as there may be.
CountsOk(words) == LayerCount(words) < 255 /\ words[4] < MACROS_MAX - MACROS_MIN

\* What is read of the rest: one word more than there may be.
Body(words, at) == SubSeq(words, at, Min({Len(words), at + LAYOUT_MAX - 1}))

Load(m, words) ==
  IF ~ HeaderOk(words) THEN Result(m, FALSE)
  ELSE LET g == LoadGlobals(m, words)
       IN IF ~ AllRead(g) \/ ~ CountsOk(words) THEN Result(g.m, FALSE)
          ELSE LoadBody(g.m, Body(words, g.at), LayerCount(words), Entries(words))
=============================================================================
