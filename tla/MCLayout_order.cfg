SPECIFICATION Spec
CONSTANTS
  LAYOUT_MAX = 16
  layout_bottom = 1
  macro_dir_base = 8
  composite_start_index = 6
  part_layers = {0, 1, 2, 3}
  composite_bitmap <- ByBitmap
  Calls <- LayerCalls
  PushLayers = {0, 1, 2, 3}
  BaseLayers = {5}
  Memos = {}
  Macros = {}
  MaxLayers = 4
  MaxMemos = 0
  MaxFrames = 0
INVARIANTS CompositeActive
