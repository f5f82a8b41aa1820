SPECIFICATION Spec
CONSTANTS
  FrameWidth = 3
  FrameHeight = 2
  Frame0_Base = 8
  OtherBase = 40
  Memory = 72
  MaxCalls = 2
  TextWidth = 6
  TextHeight = 4
INVARIANTS
  DrawsShapes
  TextBlends
PROPERTY ImplementsCanvas
CHECK_DEADLOCK FALSE
