------------------------------- MODULE Deploy -------------------------------
(***************************************************************************)
(* A configuration on its way from the text to the keyboard: rpk-config    *)
(* reads it line by line (CompilerOps), writes the words of the layout,    *)
(* sends them to the ring file system, and the firmware loads them         *)
(* (Loader).  The upload may be stopped between two packets, and the       *)
(* keyboard restarted when no text is being read; both are Upload's        *)
(* subject, here they matter for what is in the file.                      *)
(***************************************************************************)
EXTENDS ConfigMeaning, LayoutReading, Loader

CONSTANTS
  Projects,   \* sequences of texts, [headers, menus, most]: what each section may have
  PACKET      \* words in a packet

ASSUME ProjectAssumption ==
  /\ PACKET \in Nat \ {0}
  /\ \A p \in Projects : \A i \in DOMAIN p :
       Len(p[i].menus) = Len(p[i].headers) /\ Len(p[i].most) = Len(p[i].headers)

VARIABLES
  project,   \* the texts that are written, one after the other
  next,      \* the number of the text that is being read or comes next
  src,       \* the text read so far: its headers, and the lines of each section
  parser     \* Parser

compiler == <<project, next, src, parser>>
vars == <<compiler, loader>>

NoText == [headers |-> << >>, lines |-> << >>]

Text == project[next]
Section == Len(src.lines)
Idle == src = NoText

Init ==
  /\ project \in Projects /\ next = 1
  /\ src = NoText /\ parser = NewConfig
  /\ LoaderInit

(***************************************************************************)
(* rpk-config                                                              *)
(***************************************************************************)
\* compile: a text is opened and its headers are scanned.
OpenText ==
  /\ Idle /\ next <= Len(project) /\ ~ due
  /\ src' = [headers |-> Text.headers, lines |-> << >>]
  /\ parser' = ScanLayerNames(Text.headers)
  /\ UNCHANGED <<project, next, loader>>

\* parse_sections
NextSection ==
  /\ ~ Idle /\ ~ parser.err /\ Section < Len(src.headers)
  /\ src' = [src EXCEPT !.lines = Append(@, << >>)]
  /\ parser' = EnterSection(parser, src.headers[Section + 1])
  /\ UNCHANGED <<project, next, loader>>

NextLine(line) ==
  /\ ~ Idle /\ ~ parser.err
  /\ Len(src.lines[Section]) < Text.most[Section]
  /\ src' = [src EXCEPT !.lines[Section] = Append(@, line)]
  /\ parser' = ReadLine(parser, src.headers[Section], line)
  /\ UNCHANGED <<project, next, loader>>

CloseText == src' = NoText /\ parser' = NewConfig /\ next' = next + 1 /\ UNCHANGED project

\* The text is refused: rpk-config says so and does nothing.
Refuse == parser.err /\ CloseText /\ UNCHANGED loader

Packets(words) == (Len(words) + PACKET - 1) \div PACKET

\* The words of the text are sent, the first n packets come; the last packet is followed by
\* LoadLayout. file holds what was sent and how much of it came; the length save_config declares
\* is two words more, which Flash of Loader adds to what is read.
Send(words) ==
  \E n \in 1..Packets(words) :
    /\ file' = [words |-> words, came |-> Min({n * PACKET, Len(words)}), src |-> src]
    /\ due' = (n = Packets(words))
    /\ CloseText
    /\ UNCHANGED kb

\* rpk-config upload
Upload ==
  /\ ~ Idle /\ ~ parser.err /\ Section = Len(src.headers)
  /\ \E first \in {"dual_action_timeout", "overload_tap_timeout"} : Send(Serialize(parser, first))

Next ==
  \/ OpenText
  \/ NextSection
  \/ Section > 0 /\ \E line \in Text.menus[Section] : NextLine(line)
  \/ Refuse
  \/ Upload
  \/ LoadLayout /\ UNCHANGED compiler
  \/ Idle /\ Restart /\ UNCHANGED compiler

Spec == Init /\ [][Next]_vars

(***************************************************************************)
(* Properties                                                              *)
(***************************************************************************)
\* A whole file is loaded.
FileLoaded == kb.file # NoFile /\ Whole(kb.file) /\ Idle

Cells == {256 * r + c : r \in 0..(ROWS - 1), c \in 0..(COLS - 1)}

\* The tree of a code as the firmware reads it.  A macro may only refer to earlier ones.
RECURSIVE Tree(_, _, _)
Tree(m, code, end) ==
  LET d == Decode(MacroSlice(m, code))
      All(codes) == [i \in DOMAIN codes |-> Tree(m, codes[i], code)]
  IN IF code \notin MACROS_MIN..(end - 1) THEN Code(code)
     ELSE CASE d.t = "sequence" -> <<"sequence", d.mode, All(d.codes)>>
            [] d.t = "hold_release" -> <<"hold_release", All(d.codes)[1], All(d.codes)[2]>>
            [] d.t = "tapdance" -> <<"tapdance", d.timeout, All(d.codes)>>
            [] d.t = "dualaction" ->
                 <<"dualaction", Tree(m, d.tap, code), Tree(m, d.hold, code), d.time1, d.time2>>
            [] d.t = "mods" -> <<"mods", d.mods, d.code>>
            [] d.t = "delay" -> <<"delay", d.ms>>
            [] d.t = "noop" -> <<"noop">>

SliceAsWritten(slice, text, names) ==
  /\ BitsOf(slice[1] % 256) = UNION {LayerModifiers(text, name) : name \in names}
  /\ \A pos \in Cells :
       Tree(kb.m, LayerGet(slice, pos \div 256, pos % 256), MACROS_MAX + 1) = KeyMeaning(text, names, pos)

LayerNumbers(text, names) == {i - 1 : i \in {j \in DOMAIN LayerNames(text) : LayerNames(text)[j] \in names}}

\* The keyboard does what the text says: in every layer and in every composite each key has
\* the last action that was assigned to it (with the macros, dual actions and tap dances in
\* it), layers have their modifiers and composites their parts.  Macros are shared by equal
\* ones, layers are dense or sparse, and two programs must agree about all of it.
KeysAsWritten ==
  FileLoaded =>
    LET text == kb.file.src
        count == kb.m.composite_start_index
    IN /\ count = Len(LayerNames(text))
       /\ kb.m.macro_dir_base - count = Cardinality(CompositeNames(text))
       /\ \A n \in 0..(count - 1) :
            /\ SliceAsWritten(LayerSlice(kb.m, n), text, {LayerNames(text)[n + 1]})
            /\ IsCompositePart(LayerSlice(kb.m, n))
                 <=> \E c \in CompositeNames(text) : LayerNames(text)[n + 1] \in c
       /\ \A c \in CompositeNames(text) : \E n \in count..(kb.m.macro_dir_base - 1) :
            /\ IsComposite(LayerSlice(kb.m, n))
            /\ CompositeBitmap(LayerSlice(kb.m, n)) = LayerNumbers(text, c)
            /\ SliceAsWritten(LayerSlice(kb.m, n), text, c)

\* What a file of the compiler establishes when it is loaded, the assumption of LayoutOps:
\* composites come after the layers and have parts that are flagged, the macros refer to
\* earlier macros and layers that there are, and the array has a word left.
LoadEstablishes ==
  FileLoaded =>
    LET layers == 0..(kb.m.composite_start_index - 1)
        macros == MACROS_MIN..(MACROS_MIN + MacroCount(kb.file.words) - 1)
        Refers(d) == IF d.t = "dualaction" THEN {d.tap, d.hold}
                     ELSE IF d.t \in {"sequence", "hold_release", "tapdance"} THEN ToSet(d.codes) ELSE {}
        Known(code, end) == code >= MACROS_MIN => code \in MACROS_MIN..(end - 1)
    IN /\ kb.m.layout_bottom < LAYOUT_MAX
       /\ kb.m.mapping[kb.m.layout_bottom] = MAIN_BASE
       /\ kb.m.composite_start_index >= 6
       /\ \A n \in kb.m.composite_start_index..(kb.m.macro_dir_base - 1) :
            CompositeBitmap(LayerSlice(kb.m, n)) \subseteq {l \in layers : IsCompositePart(LayerSlice(kb.m, l))}
       /\ \A n \in 0..(kb.m.macro_dir_base - 1) : \A pos \in Cells :
            Known(LayerGet(LayerSlice(kb.m, n), pos \div 256, pos % 256), MACROS_MIN + Cardinality(macros))
       /\ \A code \in macros : \A c \in Refers(Decode(MacroSlice(kb.m, code))) : Known(c, code)

\* rpk-config sends nothing but what the loader is made for: whatever the text, the file has a
\* directory that grows and ends where the file ends, settings that can be read, and as many
\* layers and macros as there may be; and the rest is Loader.
LoadsAsPromised == LoaderSpec

\* The settle time that the key scanner makes of its setting (key_settle_time_uncompress).
Uncompressed(m16) == (m16 \div 1024) * 39063 + ((m16 % 1024) * 39063) \div 1024

\* The settings of the text are in force, the others are as they were: timeouts and floats
\* are what was written, the settle time is at most one unit (39 us) longer.  A text cannot
\* give more than 2499961 us, which are 65535 units (see README.md on what can be written).
SettingsAsWritten ==
  FileLoaded =>
    /\ \A i \in DOMAIN kb.m.globals :
         LET given == TimeoutMeaning(kb.file.src, i)
         IN IF given = {} THEN kb.m.globals[i] = kb.before.globals[i]
            ELSE IF i # DEBOUNCE_SETTLE_TIME THEN kb.m.globals[i] \in given
            ELSE \A us \in given :
                   us <= 2499961 => Uncompressed(kb.m.globals[i]) \in us..(us + 39)
    /\ \A i \in MouseProfiles, field \in {"movement", "scroll"}, j \in 1..5 :
         kb.m.mouse_profiles[i][field][j] =
           FloatMeaning(kb.file.src, i, field, j,
             IF \E h \in ToSet(kb.file.src.headers) : h.kind = "profile" /\ GlobalIndex[h.name] = i
             THEN DefaultProfiles[i][field][j] ELSE kb.before.mouse_profiles[i][field][j])
=============================================================================
