SPECIFICATION LayoutSpec
CONSTANTS
  Width = 8
  Header = 2
  Frames = 4
  Buffers = 2
CHECK_DEADLOCK FALSE
INVARIANTS Faithful
