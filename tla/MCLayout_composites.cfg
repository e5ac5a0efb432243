SPECIFICATION Spec
CONSTANTS
  LAYOUT_MAX = 16
  layout_bottom = 1
  macro_dir_base = 11
  composite_start_index = 8
  part_layers <- ControlShiftAlt
  composite_bitmap <- ThreeComposites
  Calls <- LayerCalls
  PushLayers = {0, 1, 2, 6}
  BaseLayers = {5, 7}
  Memos = {}
  Macros = {}
  MaxLayers = 5
  MaxMemos = 0
  MaxFrames = 0
INVARIANTS TypeOK PartsExact CompositeActive
PROPERTIES CompositePrecedes LayersStacked
