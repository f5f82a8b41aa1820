SPECIFICATION LiveSpec
CONSTANTS
  SizeSong = 6
  Muestras = 3
  FifoSize = 2
  Increment = 100
  Nominal = 250
INVARIANT ShownIsDone
PROPERTIES
  SongInOrder
  HeldIsHandled
