CONSTANTS
  N = 4
  L = 3
  Xor <- MCXor
  Plain = {1}
SPECIFICATION Spec
INVARIANTS StartIsTaken EveryByteVerified DecryptsRC4
PROPERTIES ImplementsKeySearch EndsOnDisplay
