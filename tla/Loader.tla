------------------------------- MODULE Loader -------------------------------
(***************************************************************************)
(* The task that loads layouts (config_loader.rs): the newest file of the  *)
(* flash when the keyboard starts and when LoadLayout asks for it, and the *)
(* layout in the firmware when that file cannot be loaded.  The manager is *)
(* the same all the time: a load that failed half-way is followed by       *)
(* another into the same array.                                            *)
(*                                                                         *)
(* A file is one that rpk-config made, as much of it as came: an upload    *)
(* may stop between two packets.  Deploy makes the files; here they may be *)
(* any that the compiler could make.                                       *)
(***************************************************************************)
EXTENDS LoaderOps

CONSTANT BuiltIn    \* the words of the layout in the firmware

\* load_layout(layout_mapping).unwrap(): the layout in the firmware can be loaded.
ASSUME BuiltInAssumption == BuiltIn \in Seq(Word) /\ Load(DefaultManager, BuiltIn).ok

VARIABLES
  file,   \* the newest file: the words of the layout, and how many of them came
  due,    \* LoadLayout has been asked for
  kb      \* the manager; the file it was loaded from, NoFile if that is the layout in the
          \* firmware; the settings before that; and what load_layout set

loader == <<file, due, kb>>

NoFile == [words |-> << >>, came |-> 0]

\* save_config declares a length of four bytes more than it sends, two words.
UNSENT == 2

\* The words that are read from the flash, as many as were declared: what did not come, and
\* what was never sent, is as it was erased.
Flash(f) == [i \in 1..(Len(f.words) + UNSENT) |-> IF i <= f.came THEN f.words[i] ELSE ERASED]

\* All that was sent came.
Whole(f) == f.came >= Len(f.words)

\* What rpk-config makes: but for the matrix and its size there is nothing wrong with it.
Compiled(words) ==
  LET before == 5 + words[5]
      last == before + Entries(words)
  IN /\ words \in Seq(Word) /\ Len(words) >= 5
     /\ words[1] = PROTOCOL_VERSION /\ words[3] % 256 >= 6 /\ CountsOk(words)
     /\ AllRead(LoadGlobals(DefaultManager, words))
     /\ last <= Len(words) /\ words[last] = Len(words) - before
     /\ words[before + 1] > 0 /\ \A i \in (before + 2)..last : words[i - 1] < words[i]

\* Mapper::load_layout after a load that went well.
Settings(m) == [settle |-> m.globals[DEBOUNCE_SETTLE_TIME], mouse |-> m.mouse_profiles[1]]

Loaded(m, f, before) ==
  [m |-> m, file |-> f, set |-> Settings(m),
   before |-> [globals |-> before.globals, mouse_profiles |-> before.mouse_profiles]]

\* Mutant: a load that fails is taken to leave the layout that was there.
LoadFileKeeps(m, f) ==
  LET r == Load(m, Flash(f))
  IN IF r.ok THEN Loaded(r.m, f, m)
     ELSE Loaded(IF m.layout_bottom > 0 THEN r.m ELSE Load(r.m, BuiltIn).m, NoFile, m)

\* The file, or the layout in the firmware if it cannot be loaded.
LoadFile(m, f) ==
  LET r == Load(m, Flash(f))
  IN IF r.ok THEN Loaded(r.m, f, m) ELSE Loaded(Load(r.m, BuiltIn).m, NoFile, m)

LoaderInit == file = NoFile /\ due = FALSE /\ kb = LoadFile(DefaultManager, NoFile)

\* A file is stored; its last packet is followed by LoadLayout.
Store ==
  /\ Compiled(file'.words) /\ file'.came \in 0..Len(file'.words)
  /\ due' = Whole(file')
  /\ UNCHANGED kb

LoadLayout ==
  /\ due
  /\ kb' = LoadFile(kb.m, file)
  /\ due' = FALSE
  /\ UNCHANGED file

\* The keyboard starts with the newest file.
Restart ==
  /\ kb' = LoadFile(DefaultManager, file)
  /\ due' = FALSE
  /\ UNCHANGED file

LoaderNext == LoadLayout \/ Restart \/ Store

LoaderSpec == LoaderInit /\ [][LoaderNext]_loader

(***************************************************************************)
(* Properties                                                              *)
(***************************************************************************)
MacroCount(words) == words[4]

\* A file that was cut short in its directory is not taken for a layout: in whatever is
\* loaded, each body has words and lies in what was loaded.  Erased flash reads 65535.
BodiesInside ==
  kb.file # NoFile =>
    \A i \in 0..(kb.m.macro_dir_base + MacroCount(kb.file.words) - 1) :
      kb.m.mapping[i] < kb.m.mapping[i + 1] /\ kb.m.mapping[i + 1] <= kb.m.layout_bottom

\* What fits is loaded: a whole file that the compiler made for this matrix, if there is
\* room for it, for the two words after it that were not sent and for one more, and no other.
FittingLoads ==
  (~ due /\ file # NoFile /\ Whole(file)) =>
    (kb.file = file <=> /\ file.words[2] = 256 * ROWS + COLS
                        /\ Len(file.words) - 5 - file.words[5] + UNSENT < LAYOUT_MAX)

\* A load that fails has already written into the array; the layout in the firmware is then
\* loaded over it and nothing of the failed one is left below layout_bottom.
FailedLoadRecovers ==
  kb.file = NoFile =>
    LET m == Load(DefaultManager, BuiltIn).m
    IN /\ kb.m.layout_bottom = m.layout_bottom
       /\ kb.m.macro_dir_base = m.macro_dir_base
       /\ kb.m.composite_start_index = m.composite_start_index
       /\ \A a \in 0..m.layout_bottom : kb.m.mapping[a] = m.mapping[a]
=============================================================================
