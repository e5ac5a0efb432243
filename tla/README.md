# A verification project for rpk

rpk is firmware for keyboards (crate `rpk-firmware`), with a compiler for the
language its layouts are written in and a tool that uploads them (crate
`rpk-config`).  This directory has TLA+ models of the parts of it that keep
state and interact, from the text of a configuration to the reports the host
gets; TLC runs that check them on small instances; and proofs about the layout
manager, the mapper and its timer, the key scanner, uploads and the configuration
loader that TLAPS checks for every size, and for every keyboard.

Paths below are relative to `src/`; those without a crate are in
`src/rpk-firmware/src/`.

1. [The system](#1-the-system): components, state, interaction, what is hard
2. [The modules](#2-the-modules) and how they correspond to the code
3. [The runs](#3-the-runs): what each checks, bounds, fairness
4. [The proofs](#4-the-proofs)
5. [Where the code does something else](#5-where-the-code-does-something-else)
6. [What is left out, and the plan](#6-what-is-left-out-and-the-plan)

## 1. The system

### Components

| component | source | state it keeps | operations |
|---|---|---|---|
| key scanner | `key_scanner.rs` | a byte per key (settle counter, last reported and actual position), the debounce counters, the countdown to rest | `run`, `scan`, `wait_for_key`, `calc_debounce_cycle` |
| mapper | `mapper.rs`, `mapper/dual_action.rs` | the action of each key that is down, modifier counts and their buffered changes, the waiting dual action, the tap dance, the oneshot, the running macro, the deadline | `run` and everything it calls: `key_switch`, `check_time`, `run_memo`, `load_layout` |
| layout manager | `layout.rs`, `mapper/macros.rs` | one array of words: the loaded layout, the layer stack, the states of interrupted macros, the events that were put off | `load`, `push_layer`, `pop_layer`, `set_layout`, `clear_*`, `push_memo`, `pop_memo`, `push_macro`, `update_macro`, `pop_macro`, `find_code` |
| mapper timer, control signal | `mapper.rs:110-240` | the deadline; two signals that hold one value each | `MapperTimer::run`, `ControlSignal`, `MapperChannel::report` |
| mouse keys | `mapper/mouse.rs`, `rpk-common/src/mouse.rs` | the buttons that are down; for each axis when it started to move, where to, and the part of a tick not reported yet; how many movement keys are down and since when; the profile | `action`, `pending_events`, `next_event_time`, `clear_all` |
| key reporter | `key_reporter.rs` | the report the host has to get | `Reporter::report` |
| configuration loader | `mapper/config_loader.rs` | none (it owns the mapper) | `run` |
| ring file system | `norflash_ring_fs.rs`, `ring_fs.rs` | flash; indices of the directory and of the free space; a cache of one page; the locks | `new` (mount, recovery), `create_file`, `write_file`, `read_file`, `close_file`, `file_reader*` |
| upload endpoint | `config.rs` | `rcv_state`, the writer of the file | `receive` |
| upload tool | `rpk-config/src/vendor_coms.rs` | how much of the file was sent | `save_config`, `list_files`, `fetch_stats`, resets |
| compiler | `rpk-config/src/compiler.rs`, `globals.rs`, `keycodes.rs` | the parse: layers, composites, aliases, macros with their numbers, settings | `compile`, `serialize` |
| the rest | `usb.rs`, `hid.rs`, `rpk-builder`, `rpk-macros`, `rpk-common`, `rpk-config/src/bin` | none or constant | transport, start-up, code generation, tables |

### How they interact

Everything in the firmware is a task of one cooperative executor
(`rpk-builder/src/rp.rs`), so a task runs undisturbed between two `await`s:

    switches -> key scanner --KeyScannerChannel (bounded, send waits)--> mapper
    mapper   --MapperChannel (bounded, full means: empty it and send Clear)--> key reporter -> host
    mapper   --at_sig (one value)--> mapper timer --ctl_sig (one value)--> mapper
    compiler --the words of the layout--> upload tool
    upload tool --USB packets--> upload endpoint --ctl_sig (the same)--> configuration loader -> mapper
    upload endpoint, configuration loader --RefCell--> ring file system -> flash

The mapper calls the layout manager for everything it looks up and keeps.  The
loader owns the mapper: `mapper.run` returns when a LoadLayout arrives.

### What is hard

- *Time against events.*  A dual action key is decided by a deadline, by its
  own release or by other keys; until then everything else is put off into a
  queue in the layout's memory.  Keys, put off events, macro steps and timer
  messages interleave in one loop (`mapper.rs:365-414`).
- *Slots that hold one value* (`at_sig`, `ctl_sig`): a later message replaces
  an earlier one.
- *Hand-kept summaries*: modifier counts, the bitmap and count of active parts
  of composites, `memo_count`, the locks of the file system.
- *Three users of one array*: layers, macro states and memos grow towards each
  other, and each refuses when there is no room.
- *Power failures* between any two commands of a flash that can only clear
  bits, and a directory that is itself recycled.
- *Bounce*: switches that move at any point of a scan, also in the one in which
  a key is taken to be settled, and a scanner that may be held up in between.
- *Interrupted uploads*: the tool may be stopped after any packet.
- *Two programs that must agree on words*: the compiler chooses for each layer
  between two forms, shares equal macros, numbers layers, composites and macros
  and writes their offsets; the firmware checks a few of the offsets, writes
  over the layout in use while it does, and keeps the settings of the last one.

### What makes each component correct

- **scanner**: a change is reported at once, then the key is left alone for the
  settle time from its last bounce; reports of a key alternate and end where
  the key settled; the scanner rests only when there is nothing left to report.
- **mapper**: every press reaches the host, in order; once all keys are up
  nothing is left down or active; counts and buffered changes agree with what
  the host was told; a deadline is never lost; macros run to their end.
- **layout manager**: activating and deactivating works as a plain stack of
  layers; composites are active exactly while all their parts are; the regions
  never overlap; events come back in order, macros resume where they stopped.
- **file system**: a log of files, through recycling and power failures; free
  space is erased; mounting finds what the running system had.
- **mouse keys**: reports go on while a movement key is down and stop with the
  last one; the host has the buttons down whose keys are.
- **upload**: what was sent is what is stored; what is stored last is in use.
- **compiler and loader**: the keyboard does what the text says, key by key and
  setting by setting; a file that cannot be loaded leaves the layout of the
  firmware, whole.

## 2. The modules

| module | what it is |
|---|---|
| `LayoutOps` | `layout::Manager` as functions from manager to manager, on the array of words |
| `Layout` | the manager as the mapper drives it, one action per call |
| `LayerStack` | abstract: a stack of layers without composites; implemented by `Layout` |
| `EventQueue` | abstract: a first-in first-out queue and a stack of macros; implemented by `Layout` |
| `OrderLemmas` | facts about orders, counting and induction that the proofs rest on |
| `LayoutProofs` | proofs about `Layout`: the memory; it implements `EventQueue` |
| `StackProofs` | proofs about `Layout`: composites and the bitmap of active parts; it implements `LayerStack`; `stop_active` |
| `ReportOps` | `MapperChannel::report`, modifiers with counts and buffers, the reporter's fold of events |
| `MouseOps` | the mouse keys as functions from mouse to mouse |
| `MapperOps` | the handlers of the mapper, each of which runs without an `await` |
| `Mapper` | scanner channel, mapper, timer task and reporter with a typist and a clock |
| `DeadlineTimer` | abstract: the timer, its two signals and the mapper as the timer sees it, with the proofs about them; implemented by `Mapper` |
| `MapperProofs` | proofs about `Mapper`: it implements `DeadlineTimer`; its deadlines; its modifiers |
| `KeyScanner` | the scanner with its switches and its channel |
| `KeyScannerProofs` | the proofs about `KeyScanner` |
| `RingFsOps` | `NorflashRingFsInner` and its flash as functions; every command of the flash leaves an image |
| `RingFs` | the file system in use, with power failures after any image |
| `FileLog` | abstract: a log of files; implemented by `RingFs` and by `Upload` |
| `Upload` | the upload tool, the endpoint, the locks of the file system, the control signal, the loader |
| `UploadProofs` | the proofs about `Upload` |
| `RpkCommon` | the numbers that `rpk-config` and `rpk-firmware` share |
| `CompilerOps` | the compiler as functions from parser to parser, and the words it writes |
| `LoaderOps` | `Manager::load` as a function from manager to manager |
| `LayoutReading` | how the firmware reads layers, keys and macros from the words that were loaded |
| `Loader` | the task that loads layouts, with any files the compiler could make |
| `LoaderProofs` | the proofs about `Loader` |
| `ConfigMeaning` | what a configuration means to the one who wrote it, without words, numbers or offsets |
| `Deploy` | text, compiler, file, loader, restarts; what is loaded against what was meant; implements `Loader` |
| `MC*` | the instances TLC checks |

**Layout.**  `mgr` is the struct: `mapping` behind `layout_bottom`, the four
pointers, the bitmap of active parts and its count.  What is below
`layout_bottom` never changes after `load` and is given by constants
(`composite_bitmap`, `part_layers`, ...), with what a successful load
establishes as `LayoutAssumption`.  `Calls` names the calls a configuration can
make.  An index out of range, or a memo of an impossible length, sets
`panicked`.  `PutOff` includes the `clear_all` that follows a refused memo.

**Mapper.**  One record `s` is the mapper.  Its layer stack, memos and macro frames are
sequences, which is what `Layout` shows the array to be (`LayerStack` and `EventQueue`);
only the words are counted, to refuse memos.  An action is what a task does between two
`await`s: `MacroStep`, `MemoStep`, `TakeKey`, `TakeTimer` are the four ways round the
loop of `Mapper::run`, in the order of its `select`; `TimerSet` and `TimerExpires` those
of `MapperTimer::run`; `Reporter` is `Reporter::report`.  The field `keyboard` is the
name of the keyboard, or, while a handler runs, the keyboard itself (`Begun`,
`Settled`); it never changes.  A `Keyboard` is a configuration together with who types
on it.  `run_action`, `macros`, `start_dual_action` and `next_macro_seq` call each
other; the calls still to be made are a list, `MakeCall` makes the first of them and
says which have to follow before the rest (`NextCall`, `RunCall`), and `MAX_CALLS`
bounds how many are made for one event.  `given_up` is history: events were given up
because the channel was full (`MapperChannel::report` clears it), or calls beyond
`MAX_CALLS`, since everything was cleared last; `ModifiersAgree` and `MouseFollowsKeys`
claim nothing from then on.  In the runs only `slow_host` comes to it.  `s.mouse` is
`mapper/mouse.rs`: `Move` is the branch of `action` for movement keys (`Steer` is
`MouseMove::action`), `Pending` is `pending_events`, `MouseMoves` the part of
`check_time` that sends what it returns.  An axis moves at the speed its acceleration
curve ends with; the fraction of a tick is kept as the code does.  The clock starts at
2: `first_down_time` is one less than the time of the press, and 0 means that there is
none.

**DeadlineTimer.**  Of the mapper there is `wait_time` and whether anything is
undecided that a deadline decides (`waiting`; in `Mapper` that one of the three
deadlines of `set_wait_time` is there, `NextDeadline`).  `Asks` is any handler that
ends in `set_wait_time`, with any deadline; `Decides` one that settles everything and
does not tell the timer, as `clear_all` does; `CheckTime` the one that takes the
timer's message.  A stored layout puts its own message into the same slot at any
time.  Time is left out: a deadline may pass as soon as it is set.  The message
`LogKeys` is left out as well; it would replace the timer's message and have nothing
looked at, but nothing in the repository sends it (`mapper.rs:140`).

**KeyScanner.**  The byte of a key is a record (`settle`, `reported`, `actual`).
`Look` is the step of one key; `Settle`, `Bounce`, `Change` and `Pass` are the
branches of the inner loop of `scan`; `Sent` is the `send` that had to wait;
`EndScan` is the end of `scan` with the body of the loop of `run`.  The time per
output pin is abstracted to how many scans the settle time comes to (`Cycles`),
from which `Tuned` computes the two maxima as `calc_debounce_cycle` does.
`last`, `age` and `glitch` are history.

**RingFs.**  Addresses count words of 32 bits.  An operation threads a record
with the flash, the indices and the write cache, and appends the flash to
`images` after every command of the flash; `Reboot` mounts one of the images,
and may fail again while it mounts.  `Then` is Rust's `?`.  Programming is the
bitwise AND (`Bitwise`), as flash can only clear bits.  Reading a file changes
nothing but its descriptor and the count of readers, which is in `Upload`.

**Upload.**  Lengths are in places of four bytes, and what is sent for a place is a
triple of the upload it is from, its place and the declared length; a file is a map from
places to such triples, so that a mixed file can be told from a whole one (`Whole`).
`Declared` is one place more than what is sent (`UNSENT`; `vendor_coms.rs:216`), so the
stored file ends with a place that nobody wrote, and a writer is not closed by reaching
the length: it stays open until the Close (`config.rs:137`).  The file
system is the log that `RingFs` shows it to be, with the locks
(`writer`, `read_counter`) of `ring_fs.rs` and `norflash_ring_fs.rs`.

**Deploy.**  A text is a sequence of headers and, under each, lines; a line is a
record of what is on either side of its `=`, an action a tree (`CompilerOps` lists
them).  `OpenText` is `compile` up to the scan of the headers (`ScanLayerNames`:
layers get their numbers before any line is read), `NextSection` and `NextLine` are
the loops of `parse_sections` and of the sections, `ReadLine` is what one line does
to the parser: `AssignCode`, `AddMacro`, `ReadAction`, ... have the names of their
functions.  What the parser refuses sets `err`, and nothing is written.  `Serialize`
writes the words: the header, the settings (`SerializeGlobals`; two of them share a
number and a hash map decides between them, `first`), the `Directory` and the
`Bodies`.  `Upload` sends them in packets and may be stopped after any (what did not
come reads as erased flash).  `LoadLayout` and `Restart` are `config_loader.rs`; the
manager of `LoaderOps` has the fields that `load` writes, also when it fails, and
`Load` goes through its checks in their order.  `LayerGet` and `Decode` of
`LayoutReading` are how the mapper reads a layer (`search_code` for sparse ones) and a
macro.

**Loader.**  `LoadLayout`, `Restart` and their state are a module of their own, in which
a file is any that the compiler could make (`Compiled`: the version, the counts, a
header that can be read, a directory that grows), cut off anywhere.  `Deploy` adds the
text and the compiler, and `LoadsAsPromised` says that what it stores is such a file, so
that what is proved of `Loader` holds of it.

`ConfigMeaning` is the reference: from the lines, and nothing else, it says what
layers and composites there are, what each key does (the last assignment counts,
names stand for the positions they stood for in that line, macros are trees), and
what the settings are.  `KeysAsWritten` compares the two trees for every key.
`LoadEstablishes` is what `LayoutAssumption` of `LayoutOps` takes for granted about a
loaded layout, so that the proofs of section 4 are about layouts of this compiler.

## 3. The runs

Twelve runs; eight pass and four show where the code does not do what its
documentation or its tests say (section 5).  Every property of a passing run
has a mutant (a definition marked `Mutant` in its comment, never used):
put in the place of the original it breaks that property.

| run | what it checks |
|---|---|
| `layout_composites` | `PartsExact`, `CompositeActive`, `CompositePrecedes`: the bookkeeping of composites after any pushes and pops; `LayersStacked`: the stack without composites is a `LayerStack` |
| `layout_memory` | `RegionsOrdered`, `NeverPanics`, `MacroHasSlot`: three users of one array until each is refused; `EventsQueued`: memos and macro states are an `EventQueue` |
| `layout_stop` | `StopKeepsUserLayers`: `stop_active` loses no user layer, even when its slice reaches beyond the stack |
| `mapper_keyboards` | nine keyboards: `NothingSticks`, `CountsBalanced`, `ModifiersAgree`, `MouseFollowsKeys`, `PressesInOrder`, `MacrosComplete`, `DeadlineArmed`; `EveryPressShown`: every press is shown to the host in the end; `WakesAsPromised`: mapper and timer task are a `DeadlineTimer` |
| `scanner_keys` | `Debounced`, `ReportedInState`, `Alternates`, `RestsClean`, and `ComesToRest` (`TypeOK` is proved) |
| `ringfs_files` | `FilesKept` (the file system is a `FileLog`), `NewestKept`, `FreeIsErased`, `Chained`, `Remounts` |
| `upload_uploads` | `Locks`, `UploadStored`, `ActiveNewest`, `StoreIsLog` |
| `deploy_projects` | twelve projects of nineteen texts: `KeysAsWritten` and `SettingsAsWritten` (what is loaded is what the text means), `LoadEstablishes`, `BodiesInside` (whatever is accepted lies inside what was loaded), `FittingLoads` (what fits, with the two words that are declared and not sent, is loaded and nothing else), `FailedLoadRecovers` (after a failed load the layout of the firmware is whole), `LoadsAsPromised` (the files and loads are those of `Loader`) |
| `layout_order` | violates `CompositeActive`: composites in the order of the compiler |
| `mapper_overtake` | violates `NothingSticks`: new events overtake put off ones |
| `ringfs_recycle` | violates `NewestKept`: power failure while the directory is recycled |
| `scanner_settle` | violates `RestsReported`: a key that moves in the scan in which it settles |

### Bounds, and why they are enough

- `layout_composites`: three composites over three parts, two of them sharing
  parts with the third, a plain layer, a base layer; stacks of up to five
  pushed layers, so that each part can be active twice and each composite
  comes, goes and comes again.
- `layout_memory`: nineteen words behind the base, memos of both lengths,
  macros three deep: each of the three users is refused in some behaviour, and
  the memos wrap round the array by `defrag_stack`.
- `layout_stop`: eight words, the smallest array in which a full stack, a memo
  and a macro without a slot meet.
- `mapper_*`: three keys, three or four presses in all, timeouts of one and two
  ticks and a mouse report every tick, five reports in the channel.  The presses are as many as it takes for
  a dual action, another put off behind it, and a key that decides them; the
  channel is small enough to be full (and, for `slow_host`, to overflow).
  `MAX_CALLS` is 60, and with 20 TLC finds the same states: no event of these keyboards
  leads to more calls.  `LAST_TIME`, where time stops for good, lies a million ticks ahead.
  `Board.max_time` and the running timer let time pass every timeout; only while a
  movement key is held does time stop there, or it would run for ever.  The keyboard
  `mouse` has both directions of an axis and, in a layer behind a dual action key,
  another axis and a button.
- `scanner_keys`: two keys, seven moves, a channel of one event, two bits of
  counter (`COUNT_BITS`, 5 in the code) and settle times of 1, 2, 5 and 9 scans,
  which reach all branches of `Tuned`; `IDLE_WAIT_COUNT` is 1 (100 in the code),
  the hardest value: there is only one scan to notice that a key has not settled.
- `ringfs_*`: a flash of six blocks of eight words, the first of which is the
  directory (1 MB, 4096 bytes and 256 bytes a page on the board), pages of four
  words, three files; files that need one page, more than one block, and nearly
  the whole ring.  The state space is finite without a bound on the number of
  files: the directory is recycled and the ring goes round any number of times.
- `upload_uploads`: three uploads of five lengths around the packet boundary
  (less than a packet, one, more than one, more than two, too large with the place that
  is declared and not sent; packets of three places, files of eight), two files
  kept, any number of timer messages, restarts and lists of files.

- `deploy_projects`: two rows of six keys, so that layers are sparse and dense, an
  array of 90 words, in which most layouts fit, `Large` does not and `Limit` has up to 94
  (87 are loaded and 88 are not), packets of eight
  words, so that a file may end in its header, its directory or its bodies.  A section
  has a menu of lines, any of which may come in any order, also twice.  The projects
  cover: rows of keys that overlap and are too long; composites in either order, twice
  and with unknown layers; macros in macros, equal macros, hold and release, dual
  actions, tap dances; everything that is refused; unicode with a prefix that changes;
  aliases of several keys and of aliases; settings that come and go with the next
  text; layers that are continued; a layout for another matrix or too long before and
  after one that fits.

`CHECK_DEADLOCK FALSE` is set where the number of presses, moves or uploads is
bounded (the typist stops and the firmware comes to rest), in `layout_stop`,
where the firmware may stop with a panic, and in `ringfs_*`, for the power
failures left out by `Windows`.

`Windows` in `RingFs` names when the power may fail.  `ringfs_files` has the
windows in which the file system recovers; the others are deviations listed in
section 5, one of them shown by `ringfs_recycle`.

### Fairness

- `Mapper!FairSpec`: the executor polls every task that was woken, so the timer
  task, the reporter and the mapper are weakly fair, and time passes.  The
  weak fairness of the mapper is spelled out as
  `[]<>~MapperReady \/ []<><<MapperMoves>>_vars`, because `MapperReady` is its
  guard and computing ENABLED would evaluate its handlers twice; `MapperMoves` is a
  step that no other task and not the typist makes.  Nothing is
  assumed of the typist.  `EveryPressShown` asks of keyboards with a code for each
  press (`shows`): for the others what a press shows depends on the layers.  That the reporter is fair means that the host polls
  the keyboard.
- `KeyScanner!FairSpec`: the scanner's timer always becomes due and the mapper
  always takes a waiting event.  Nothing is assumed of the switches;
  `ComesToRest` asks only what happens when they stop moving.
- The other runs check safety only: `Layout`, `RingFs`, `Upload` and `Deploy` are driven
  by what the user, the host and the power supply do, and none of that is fair.

## 4. The proofs

### The layout manager

Two modules prove of `Layout`, for every array size, layout, set of composites, and
set of memos, macros and layers:

| theorem | says | assumes of the calls and the layout |
|---|---|---|
| `LayoutProofs!TypeCorrect` | `Spec => []TypeOK` | `SafeCalls` |
| `LayoutProofs!RegionsSafe` | `Spec => []RegionsOrdered`: layers, macro states and memos never overlap and stay in the array | `SafeCalls` |
| `LayoutProofs!SlotSafe` | `Spec => []MacroHasSlot`: the running macro always has a slot of its own | `SafeCalls` |
| `LayoutProofs!PanicFree` | `Spec => []NeverPanics`: no index is out of range, no memo has an impossible length | `SafeCalls` |
| `LayoutProofs!QueueImplemented` | `Spec => EventsQueued`: the memos are a first-in first-out queue and the macro states a stack, word for word, although both move in memory: every step is one of `EventQueue` or leaves them alone | `SafeCalls` |
| `StackProofs!LayersImplemented` | `Spec => LayersStacked`: with the composites taken away the stack is a `LayerStack`, step by step, also when a composite finds no room | `SafeCalls`, `PlainBases` |
| `StackProofs!PartsAreExact` | `Spec => []PartsExact`: the bitmap of active parts and its count say what is on the stack | `StackCalls`, `StackRoom`, `BasesApart` |
| `StackProofs!CompositesFollow` | `Spec => []CompositeActive`: a composite is active when, and only when, all its parts are | the same and `CompositesOrdered` |
| `StackProofs!CompositesPrecede` | `Spec => CompositePrecedes`: it is on the stack once, it comes above every activation of its parts, and nothing but a further activation of a part is put above it | the same and `CompositesOrdered` |
| `StackProofs!StopKeepsLayers` | `Spec => StopKeepsUserLayers`: `stop_active` loses no layer of the user | nothing |

*Assumptions.*  `LayoutAssumption` is what `load` establishes (`LoadEstablishes` in
`Deploy` checks it of this compiler's layouts), `CallsAssumption` that memos have two
or five words, macros are not empty and the bounds of the runs are numbers.  The
others are hypotheses of the theorems, true in the runs that check the property:

- `SafeCalls`: no macro runs without a slot, and `stop_active` is not called.  A macro
  without a slot writes into memos, and the slice of `stop_active` may leave the array
  (section 5).
- `PlainBases`: base layers are not composites, and neither these nor the base layer
  are pushed.  `pop_layer` may remove the base (`layout.rs:365`), and the pushed words
  would then be taken for it.
- `BasesApart`: base layers are no parts of composites either; `set_layout` does not
  look at the bitmap (section 5).
- `StackCalls`: nothing clears the stack and keeps the bitmap, as `clear_layers` and
  `clear_all` do (`layout.rs:222`); a memo that is refused calls `clear_all`, so memos
  and macros are not both among the calls.
- `StackRoom`: the array holds everything the bounds allow at once.  Where it does not,
  a part may find no room for its composite, which then stays off.
- `CompositesOrdered`: composites come by number of parts, of which each has two.  The
  compiler does not see to this, and `layout_order` shows what happens then.

*Argument: the memory.*  `RegionsOrdered` is not inductive: `pop_memo` moves `memo_top` by a
length it reads from the array, and `pop_macro` resumes what it finds in a slot.
The inductive invariant `IInv` therefore adds that the ends of the memos form a
chain (`MemoChain`: under each end there is a length, 2 or 5, and it leads to the
next end), that macro states are whole slots of three words (`WholeSlots`), that
a running macro has at least one, and that the base layer has its word
(`Ordered`).  `MemoChain` quantifies over a set of addresses instead of recursing
over the memos, which keeps it within what the provers can do.  There is one
lemma for each operation of the manager (`PushLayerInv`, `PopLayerInv`,
`DefragInv`, `PushMemoInv`, `PopMemoInv`, `UpdateMacroInv`, `PushMacroInv`,
`PopMacroInv`, `BaseInv`, `ClearAllInv`), and `StepInv` puts them together, one
step per action.  `OrderLemmas` has the facts about least and greatest elements
and about counting that `PopLayerInv` and `RemoveWordsInv` rest on.

*Argument: the queue.*  `MemoQueue` chooses the ends of the memos from the array, so
the proof needs them as numbers: `Links` is a chain of ends from `memo_top` down to
`memo_bottom`, `Linked` that there is one.  `MemosFromDef` and `QueueIs` read the queue
off it; `MovedQueue` and `MovedFrames` show that memos and macro states that are copied
elsewhere by `defrag_stack` or `push_macro` are still the same.  `Callers` adds what the
frames of `EventQueue` need: the macros that were interrupted were not idle, so that
the empty end of the frames is where the array says.  The inductive invariant is
`QInv`, `IInv` with both; every operation has a lemma that says which step of
`EventQueue` it is.

*Argument: the bitmap and the composites.*  `pop_layer` closes up the stack over
several words at once.  `Down(gone, b)`, the place of the word at `b` when the words at
`gone` go, counts what goes below it (`Under`); that it is injective and reaches every
place is `RankInjective` and `ClosingUpOnto` in `OrderLemmas`, and `Kept` says with it
that no other word is lost or moved past another.  `PushedStack` and `PoppedStack` say
of the two operations which words come and go; all the rest argues about layers, not
addresses.  `PInv` is `IInv` with the bitmap (`PartsInv`), the base (`Based`) and the
space in use (`Sizes`, which with `StackRoom` leaves room for every composite).  For
composites three things have to be proved together (`CompositesInv`): that a composite
follows its parts (`Follows`), that it is there once (`Once`), and that its parts lie
below it (`PartsBelow`).  `CompositePrecedes` is a property of steps and follows from
`Once`, `PartsBelow` and the two operations: `PushPrecedes` and `PopPrecedes` say that no
activation of a part comes above a composite but by being pushed.  When a part is deactivated its newest activation goes, and
with it the composites above: that they are above is `PartsBelow`, that none is left is
`Once`, and that no composite goes whose part is still active is `Follows`.

*Argument: the layers.*  `PlainLayers` takes the words of a set of addresses in
order.  `Nth(S, i)` is the i-th address, and `WordsMoved`, `WordsAppended`,
`WordsWithout` say what becomes of the sequence when the words move, when one is added
and when one goes; each operation is then one of these and a step of `LayerStack`
(`PushPlain`, `PopPlain`, `SetPlain`, `SamePlain`, `ClearedPlain`).  The invariant is
`LInv`: `IInv` and `Based`.  `StopKeepsLayers` must not use any of this, as
`stop_active` is what breaks it: its invariant is only that the pointers are numbers
(`Shaped`), and it holds for every set of calls, in the histories that `SafeCalls`
excludes as well.

### The timer of the mapper

`DeadlineTimer` ends with what is proved of it, for every set of deadlines:

| theorem | says |
|---|---|
| `TypeCorrect` | `Spec => []TypeOK` |
| `WakesComing` | `Spec => []WakeComing`: while something is undecided its deadline is with the timer or on its way there, or a message is on its way back |
| `DeadlinesWanted` | `Spec => []NoStaleDeadline`: the timer runs for the deadline that was asked for last or for none, or is about to be told |

and `MapperProofs` of `Mapper`, for every keyboard, every program of macros, every
sequence of keys and timeouts and any size of the channels:

| theorem | says |
|---|---|
| `TimesCorrect` | `Spec => []TimesInv`: the times and deadlines of mapper and timer are such, and what was asked for comes no later than what is waited for |
| `TimerImplemented` | `Spec => WakesAsPromised`: every handler is a step of `DeadlineTimer` or changes nothing that it has |
| `NoWakeLost`, `NoDeadlineStale` | the two theorems above, of the mapper |
| `DeadlinesArmed` | `Spec => []DeadlineArmed`: a dual action, a tap dance or a mouse key that waits is woken in time |

*Assumptions.*  `DeadlineKinds`, a hypothesis of the theorems of `DeadlineTimer`: `NEVER`
is a deadline and `NoSignal` is none; there is nothing else.  The mapper satisfies it.
`TimeoutsAssumption` and `KeyboardsAssumption`: timeouts are words of 16 bits, as they are
in the layout, and a hold and release macro names two macros that exist.

*Argument: the handlers.*  What a handler changes of the times is followed from its
beginning `z`: `Handles(z, m)` says of the mapper `m` between two steps of it that
nothing waits longer than it may (`Timely`), and that the timer was asked for what is
waited for (`Asked`), or has not been told anything and nothing waits that did not wait
at the beginning (`Silent`).  Reports, modifiers and layers have nothing to do with it
(`SameTimes`); every other part of a handler has a lemma.  A macro may lead to any number
of calls, so the lemmas about `MakeCall` hold for whatever call is next, and `Induction`
carries them to the end of the list.  `HandlerEnds` turns what is left at the end into
one of the steps of `DeadlineTimer`.

*Argument: the timer.*  Each invariant is inductive with `TypeOK`.  The one step that could lose
a wake-up takes the timer's message; `check_time` asks anew even for the same deadline,
which is why `set_wait_time` has to signal a deadline that has not changed as well.
That a stored layout may replace the timer's message does no harm, because it clears
what was undecided.

### The modifiers of the mapper

| theorem of `MapperProofs` | says |
|---|---|
| `ModifiersKept` | `Spec => []ModifiersAgree`, on keyboards that keep the counts: the modifiers counted down are those the host has once the channel is drained, between any two handlers, until an event is given up |

*Assumptions.*  `KeepsCount` of every keyboard (in `Mapper`), beside the two above.  It
leaves out what breaks the claim in the code itself, each with its row in section 5: the
codes of `clear_layers` (8195) and `stop_active` (8196), layers with several modifiers,
modifier macros whose code reports nothing, and tap dances with as many codes as there
are words before another one.  The rest of it is what the compiler writes: codes of layers that exist,
macros whose words are in the layout.  The nine keyboards of `mapper_keyboards` keep the
counts, which `ASSUME CountsKept` in `MCMapper` has TLC evaluate; keys, modifier keys,
layers with a modifier, modifier macros, dual actions, tap dances, sequences and hold and
release macros nested in each other, oneshots, mouse keys, memos, timeouts and `clear_all`
are all within it.

*Argument: what is buffered.*  The count of a modifier, the change of it that is buffered,
the events in the channel and the report of the host are four places that have to agree,
and a handler changes them one at a time.  Between two handlers nothing is buffered and
the count is what the report will be (`Agreed`).  After `write_modifiers` a change is
owed: the count is what the report will be once both buffers are flushed (`Owing`), and
after a release only modifiers that the host has are to be taken away (`Taken`).  `Flush`
leads from either back to `Agreed`, if it sees the changes of one call of
`write_modifiers`; a modifier that went up and down between two flushes is in both
buffers, and `flush_modifiers` does nothing for it, which is right only if it went down
last.

*Argument: the list of calls.*  So the calls still to be made must come in an order in
which no flush is late.  `CallFits` says what each call may be about: codes of the
keyboard that keep the counts, and sequences within their words.  The list is `Patient`
(at most modifiers that the host has are still to be taken away, and no call is in a
hurry), `Running` (a sequence that interrupted another goes on first) or `Urgent` (the
modifiers of a macro were counted, and the code that reports something, and so flushes,
comes next); every call leads from one of the three to one of the three (`ResultFits`).
Most handlers flush when their calls have ended; a step of a sequence does not, but its
list ends with everything flushed (`Flushing`), and where the bound `MAX_CALLS` cuts a
list off, `given_up` says so.  What a position does when it
goes up is what it did when it went down (`PartsFit`): the action remembered for a
position, the waiting dual action, the tap dance, the memos and the frames of macros all
fit the keyboard.  `ModifiersInv` says all this between two handlers; `HandlerAtRest` and
`ReporterRests` that every action keeps it.

### The key scanner

`KeyScannerProofs` proves of `KeyScanner`, for any number of keys, any settle
times, any size of the channel and any number of moves:

| theorem | says |
|---|---|
| `TypeCorrect` | `Spec => []TypeOK` |
| `StateReported` | `Spec => []ReportedInState`: two bits of the byte know what was last reported (but for `glitch`) |
| `CleanRest` | `Spec => []RestsClean`: the scanner rests only when no key settles or has still to be reported up (but for `glitch`) |
| `KeysAlternate` | `Spec => Alternates`: a key goes down and up in turn (but for `glitch`) |
| `SettlesOnTime` | `Spec => Debounced`: a key is left alone for the whole settle time since its last bounce, and never longer |

*Assumptions.*  `ScannerAssumption` (sizes), and `TuningAssumption`: what
`calc_debounce_cycle` computes fits into the bits that count, and slows the
counter down only when it uses all of them.  The latter is arithmetic about
powers of two, of which the provers know nothing; TLC evaluates it for the
settle times of the runs.  `StateReported`, `CleanRest` and `KeysAlternate`
except a key whose switch had moved just when it was taken to be settled
(`glitch`), see `scanner_settle` in section 5.

*Argument.*  `RestsClean` does not follow from one scan that finds all keys up:
a key may settle down in it.  `TwoScans` says of the keys already looked at, and
of those not yet looked at, what this scan and the one before it have shown;
`LookRests` is the one place where a key moves from the second group to the
first, and each branch of `scan` cites it.  For `Debounced`, `OnTime` balances
the scans that a key has had against those that are missing until the counter
comes to its value (`Left`): `BegunOnTime`, `NextOnTime`, `PassedOnTime` and
`EndedOnTime` follow a key from `start_debounce` to the end of its time.  A new
tuning can leave the counter beyond its new maximum; `NextInRange` shows that the
first count of the next scan brings it back, because `scans_max` is above 0 only
when the maximum is the largest there is.

### Uploads

`UploadProofs` proves of `Upload`, for files of any length, any size of the file
system, any number of files that are kept and any number of uploads:

| theorem | says |
|---|---|
| `LocksHold` | `Spec => []Locks`: the file system's count of its users agrees with them, and nothing is written while a file is read |
| `UploadsStored` | `Spec => []UploadStored`: an upload that nobody disturbed is the newest file, complete and in order |
| `NewestIsActive` | `Spec => []ActiveNewest`: between uploads the layout in use is the one a restart would load, with the exceptions that `missed` names |
| `UploadImplementsLog` | `Spec => StoreIsLog`: every step of `Upload` is a step of `FileLog` or leaves the files alone |

*Assumptions.*  `UploadAssumption`: lengths are positive, and at least one file is
kept.  That a new file gets a place that no file has is how `Upload` abstracts the
ring (`NewLocation`); that `RingFs` is such a log is checked by TLC, not proved.

*Argument.*  `Locks` alone is nearly inductive; the other three are about uploads
that are complete and need to be told what came before.  `Progress` says of an upload
under way how much of it is stored, that no reader is open, and that the writer is its
own (`Stored`); `Log` and `Fresh` that files have places in the order in which they
were made, so that a location names one file; `Consistent` that a writer with a place
has the newest file; `ToLoad` which file a pending message is about.  One lemma
follows each part of `file_write` (`CreateKeeps`, `AllocateKeeps`, `FillKeeps`,
`CloseKeeps`; `WriteKeeps` and `WriteStores` put them together), one each action, and
every one of these also shows that the step is one of `FileLog`, which is all that
the refinement needs.

### The configuration loader

`LoaderProofs` proves of `Loader`, for every file the compiler could make, cut off
anywhere, every matrix, array size and layout in the firmware:

| theorem | says |
|---|---|
| `FailedLoadsRecover` | `LoaderSpec => []FailedLoadRecovers`: after a load that fails the layout of the firmware is there as if nothing had been loaded before |
| `BodiesAreInside` | `LoaderSpec => []BodiesInside`: whatever is taken for a layout has its bodies inside what was loaded |
| `FittingFilesLoad` | `LoaderSpec => []FittingLoads`: of the whole files those for this matrix that fit are in use, and no others; to fit is to leave a word of the array free, with the two words that are declared and not sent (`UNSENT`) |
| `FallbackLoads` | the layout in the firmware can be loaded at any time, so the `unwrap` of `load_layout` does not panic |

*Assumptions.*  `BuiltInAssumption`: the layout in the firmware is one that loads into a
new manager; `BoardAssumption`: the sizes of keyboard and array.  That the files of the
compiler are those of `Loader` is checked by TLC (`LoadsAsPromised`).

*Argument.*  `load` is called on the manager as the load before it left it, so
everything has to be shown not to depend on that.  Where the settings end and whether
they can be read is decided by the words alone (`Reading`, `Alike`), hence so is whether
a file loads (`Loadable`) and, if it does, what it leaves below `layout_bottom`
(`Leaves`); the settings themselves do depend on what was there, which section 5 lists.
A file that was cut off in its directory has an entry that reads 65535, which is beyond
any array (`ErasedSettings`, `DirectoryCame`), so that what is accepted has its whole
directory.  The invariant `LoaderInv` is that the manager in use is what such a load
leaves.  The loops of `load` are recursive functions; `Induction`, which `OrderLemmas`
derives from least elements of sets of numbers, is cited for each of them, with the set
of the numbers for which the claim holds.

### Only model-checked

- Of the mapper: `NothingSticks`, `CountsBalanced`, `PressesInOrder`,
  `MouseFollowsKeys` and `MacrosComplete`.  They do not hold of every keyboard (section 5
  names the actions that break them, and `mapper_overtake` the order of events).
- The file system: `RingFsOps` has recursive operators (the loops over blocks and
  entries) and uses `Bitwise`, neither of which the provers support.
- The compiler, and that what it writes is read as it was meant: actions are trees, over
  which `CompilerOps`, `ConfigMeaning`, `LayoutReading` and `Deploy` recurse with
  RECURSIVE operators.  `KeysAsWritten`, `LoadEstablishes`, `SettingsAsWritten` and
  `LoadsAsPromised` stay with TLC.
- All liveness properties (`EveryPressShown`, `ComesToRest`), which are out of
  the prover's reach.

## 5. Where the code does something else

Four runs expect a violation:

1. `layout_order` (`layout.rs:341`).  `push_layer` stops looking for composites
   at the first one with more parts than are active; the compiler writes them
   ordered by bitmap, not by size, so `[control+gui]` can stay off because
   `[control+shift+alt]` comes before it (`docs/.../layers.md:116`).
2. `mapper_overtake` (`mapper.rs:370`).  While a dual action waits, queued events
   stay queued and new ones are taken from the channel.  A new press can overtake
   a queued release; a layer stays active with every key up
   (`docs/.../actions.md:38`).
3. `ringfs_recycle` (`norflash_ring_fs.rs:559`).  A power failure after the erase
   of the directory in `rebuild_dir` makes `check_formatted` reject the store as
   well, and everything is formatted (`norflash_ring_fs_test.rs:657`).
4. `scanner_settle` (`key_scanner.rs:260`).  A switch that moves in the scan in
   which it is taken to be settled is reported as it is then, while its byte
   keeps where it was: the release that follows is never reported
   (`docs/.../global.md:18`).

Further deviations met while modelling.  The passing runs leave them out in the
way named, so that they show what holds otherwise:

| where | what | how the model treats it |
|---|---|---|
| `mapper.rs:134` | LoadLayout replaced by a timer message in the one slot: the uploaded layout is not used until a restart | `Upload!missed` |
| `mapper.rs:441` | the second timeout of a dual action is computed and never given to the timer (`global.md:10`) | `DeadlineArmed` asks for the first only |
| `layout.rs:222` | `clear_layers` forgets the stack, not the bitmap of active parts | not in `Calls` of `layout_composites` |
| `layout.rs:319` | a part that is activated again while its composite is active goes on top of it, and the composite is not pushed again: until that activation ends, `find_code` meets the part before the composite, which `layers.md:116` says is given precedence | `CompositePrecedes` allows it for a part that is pushed, and for nothing else |
| `layout.rs:365` | `pop_layer` may remove the base layer | the `LayerStack` allows it |
| `layout.rs:227`, `232` | `stop_active` reads one word past the stack, keeps right modifiers, can push `layout_top` past `macro_stack` | `SafeCalls`; `layout_stop` checks what is left |
| `mapper/macros.rs:145` | a macro that finds no slot runs and then overwrites a memo | `SafeCalls` |
| `layout.rs` | `set_layout` to a part of a composite does not count it as active | `BaseLayers` has no part |
| `mapper.rs:331` | `clear_all` resets neither `memo_count` nor the oneshot nor the buffered modifiers | modelled; harmless on the keyboards checked |
| `mapper.rs:865` | a second oneshot replaces the first, whose layer stays | keyboard `oneshots` |
| `mapper.rs:349`, `357` | `clear_layers` and `stop_active` forget counts of keys that are still down | keyboards `clear_layers`, `stop_active` |
| `mapper.rs:933` | of several layer modifiers only some are restored under a mask | keyboard `mask` |
| `mapper.rs:499`, `603` | a modifier macro of a code that reports nothing flushes nothing: its modifier, released, pressed and released again before the next flush, is in both buffers and stays down at the host while its count is 0 | `KeepsCount` asks for a code that reports |
| `mapper/macros.rs:47` | a tap dance that is over has location 0 but keeps its `rem`, and `is_same` takes it for one whose words end `rem` words behind 0: that one goes on where no words of a dance are (a layout whose first macros are dances and which has almost nothing before them) | `KeepsCount` asks for dances shorter than what lies before another one |
| `mapper.rs:446` | a memo that is refused clears everything, then the hold action runs | with `FREE_WORDS` = 14 `NothingSticks` breaks |
| `mapper/dual_action.rs:103` | the timeout is a u16 that may wrap | modelled, small timeouts |
| `key_reporter.rs:70` | modifiers pending before a consumer, system control or mouse event are not written | modelled (`Writes`); no property asks for the modifiers of a mouse click |
| `norflash_ring_fs.rs:263` | power failure between a file's length and its entry: the next length is ANDed with it | window `length` |
| `norflash_ring_fs.rs:397` | `find_free_index` differs from `free_space` for a file that ends at the end of the flash | window `seam` |
| `norflash_ring_fs.rs:695` | `recover_store_from_dir` erases the first block of the ring | window `header` |
| `norflash_ring_fs.rs:427` | an error after the entry was reserved leaves a hole in the directory | flash commands do not fail |
| `rpk-config/src/vendor_coms.rs:216` | the declared length of a file is 18 bytes, its name and its words, but 14, the name and the words are sent: the reader gets two erased words after the last one, so `load` refuses layouts of `LAYOUT_MAX - 2` and `LAYOUT_MAX - 1` words (`layout.rs:201`), and the writer never reaches its length and is open until the Close | modelled (`UNSENT` in `Loader` and `Upload`) |
| `config.rs:127` | an upload after an aborted one goes on in its file, or is ignored, and a mixed file may be loaded | `UploadStored` asks for `host.clean` |
| `config.rs:123`, `143` | an unexpected message in an upload ends it without an answer and keeps the writer | modelled |
| `config.rs:162` | errors of the file system are logged only; a file too large leads to loading location 0 | `UploadStored` asks for `len <= SIZE` |
| `config_loader.rs:58` | the file cannot be read while the next upload writes: the layout stays | `Upload!missed` |
| `key_scanner.rs:260` | the report of a settled bounce starts no settle time: the next report may follow in the next scan (`global.md:21`) | modelled; no property claims a minimum |
| `mapper/mouse.rs:47` | movement keys are counted up to four, releases without limit: with five down the reports stop one release too early, the axis of the fifth goes on, and when the next key goes down its start lies after now, a difference of u32 that panics or wraps (`rpk-common/src/mouse.rs:101`) | `ASSUME FiveMovementKeys` in `MCMapper` shows it; `mouse` has fewer keys |
| `mapper.rs:357` | `stop_active` sends Clear, which lets go of mouse buttons at the host, but `mouse_keys` keeps them: the next movement presses them again | modelled; not on keyboard `mouse` |
| `layout.rs:489` | `search_code` halves its middle whatever is left of the pairs: of layers with 16, 32, 33, 34, 36, 40 or 48 sparse keys (up to 60) the last keys are never found; the test has 9 pairs (`layout_test.rs`) | `ASSUME SparseSearch` in `MCDeploy` shows it; the matrix of the run is smaller |
| `layout.rs:143` | `load` never resets the settings and mouse profiles: one that the new text does not have keeps its value until a restart, and a load that fails leaves what it read | `SettingsAsWritten` says so (`kb.before`) |
| `config_loader.rs:27` | a file whose upload was stopped behind its directory is accepted at the next start, with 65535 for what is missing: the bitmap of a composite may be anything, and a macro reaches `unreachable!` in `Macro::decode` | `KeysAsWritten` and `LoadEstablishes` ask for whole files (`FileLoaded`) |
| `layout.rs:184` | a stream that ends inside the directory is accepted | not reachable with files of the compiler |
| `rpk-config/src/globals.rs:46` | settle times up to 25000 ms are accepted, but the u16 wraps from 2500 ms on: 2500 ms, the maximum in `global.md:20`, becomes 0 | `SettingsAsWritten` is about less than that |
| `rpk-config/src/globals.rs:200` | `dual_action_timeout` and `overload_tap_timeout` have the same number; with both given the order of a hash map decides | `first` in `Deploy!Upload` |
| `rpk-config/src/globals.rs:93` | `[global] mouse_profile1 = x` panics | left out |
| `rpk-config/src/compiler.rs:1231` | an alias of several positions is not checked against the matrix: a position outside it is another key, or a panic in `serialize` | aliases inside the matrix |
| `rpk-config/src/compiler.rs:777` | the tap dance that is refused in a macro is accepted after another macro in it | modelled |
| `rpk-config/src/compiler.rs:1296` | `[firmware]` becomes an empty layer; `[matrix]` after `[main]` overrides what `[main]` says; a different suffix is refused, which `layers.md` says is ignored | modelled |

The keyboards named are in `MCMapper`; put them into `Boards` to see the
behaviour.

## 6. What is left out, and the plan

Not modelled:

- the characters of a configuration: scanning words, numbers and spans, the names of
  keys (`keycodes.rs` is a table) and the messages about errors; a line is a record;
- the acceleration curve of the mouse (arithmetic of floats) and floats in settings,
  which are pairs of words here;
- USB descriptors and HID transport, board start-up, code generation (`rpk-macros`)
  and the other commands of the command line: constants, tables, transport and
  printing, without state of their own; resets are `Restart` in `Deploy` and in
  `Upload`;
- statistics and the key log, which change nothing that is modelled.

Done, in the order of the plan:

1. `LayoutOps`, `Layout` with `LayerStack` and `EventQueue`; `LayoutProofs`.
2. `ReportOps`, `MapperOps`, `Mapper`: the key path with its timer and reporter.
3. `RingFsOps`, `RingFs` with `FileLog`.
4. `Upload`, on top of `FileLog` and the control signal; `UploadProofs`.
5. `KeyScanner`; `KeyScannerProofs`.
6. `RpkCommon`, `CompilerOps`, `LoaderOps`, `ConfigMeaning`, `Deploy`: compiler and
   loader, composed; what a load establishes is what 1. assumes.
7. `MouseOps` in `Mapper`.
8. `StackProofs`, and the queue in `LayoutProofs`: the refinements of `Layout`, its
   composites and `stop_active`.
9. `DeadlineTimer`, which `Mapper` implements, and the modifiers of the mapper; `MapperProofs`.
10. `Loader`, which `Deploy` implements; `LoaderProofs`.

What could follow:

- `MouseFollowsKeys` for keyboards with up to four movement keys: the modifiers' invariant
  without `MakeCall`'s order, as mouse keys are reported at once;
- `FreeIsErased` and `Chained` of the file system, with the loops of `RingFsOps` written
  as functions and programming as a relation between words that only clears bits;
- the second timeout of dual actions (`mapper.rs:441`) as an action of its own, should the
  code give it to the timer.

To check: `tlc -config <cfg> <MC module>` for a run (`MCLayout_memory.cfg` with
`MCLayout`, and so on), and `tlapm <module>.tla` for the proofs, of `OrderLemmas`,
`LayoutProofs`, `StackProofs`, `DeadlineTimer`, `MapperProofs`,
`KeyScannerProofs`, `UploadProofs` and `LoaderProofs`.
