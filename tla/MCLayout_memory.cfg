SPECIFICATION Spec
CONSTANTS
  LAYOUT_MAX = 20
  layout_bottom = 1
  macro_dir_base = 8
  composite_start_index = 8
  part_layers = {}
  composite_bitmap <- NoComposites
  Calls <- MemoryCalls
  PushLayers = {6}
  BaseLayers = {5}
  Memos <- BothMemos
  Macros <- OneMacro
  MaxLayers = 30
  MaxMemos = 2
  MaxFrames = 3
INVARIANTS RegionsOrdered NeverPanics MacroHasSlot
PROPERTIES EventsQueued
