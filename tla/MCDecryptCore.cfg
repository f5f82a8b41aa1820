CONSTANTS
  N = 3
  L = 2
  Xor <- MCXor
SPECIFICATION MCSpec
INVARIANTS InStep WritesLand ReadsAreFresh SBoxIsPermutation
PROPERTY StartsOnce
