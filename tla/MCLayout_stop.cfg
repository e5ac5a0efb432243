SPECIFICATION Spec
CONSTANTS
  LAYOUT_MAX = 9
  layout_bottom = 1
  macro_dir_base = 8
  composite_start_index = 8
  part_layers = {}
  composite_bitmap <- NoComposites
  Calls <- TightCalls
  PushLayers = {1, 6}
  BaseLayers = {5}
  Memos <- OneMemo
  Macros <- OneMacro
  MaxLayers = 20
  MaxMemos = 1
  MaxFrames = 1
PROPERTIES StopKeepsUserLayers
CHECK_DEADLOCK FALSE
