CONSTANTS
  Half = 2
  Levels = {1, 2}
SPECIFICATION Spec
INVARIANT AveragesWindow
PROPERTY KeepsMetering
