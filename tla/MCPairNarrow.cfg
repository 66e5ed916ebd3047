\* A word narrower than the supply the NFTs could be wrapped into: every checked
\* operation reverts somewhere, every unchecked one must not wrap.  n4 has no Merkle
\* proof.
SPECIFICATION Spec
CONSTANTS
  Users = {u1, u2}
  PAIR = PAIR
  NFTs = {n1, n2, n3, n4}
  MerkleIds = {n1, n2, n3}
  ZeroRoot = FALSE
  NativeBase = FALSE
  ONE = 3
  Day = 2
  Owners = {deployer}
  BaseEach = 2
  StartBase <- MCStartBase
  Amount = {1, 2}
  Limit = {0, 2}
  MaxLpSupply = 7
  MaxTime = 1
  MaxUint = 7
SYMMETRY ProvedSymmetry
INVARIANTS LedgersAddUp
CHECK_DEADLOCK FALSE
