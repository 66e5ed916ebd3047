\* The whole life of a pair with ether as base token: msg.value and its
\* subtraction from the reserves, the refund of buy, a close by one of two owners
\* of the factory, the deadline, withdrawals.
SPECIFICATION Spec
CONSTANTS
  Users = {u1, u2}
  PAIR = PAIR
  NFTs = {n1, n2}
  MerkleIds = {n1, n2}
  ZeroRoot = FALSE
  NativeBase = TRUE
  ONE = 3
  Day = 1
  Owners = {u1, u2}
  BaseEach = 3
  StartBase <- MCStartBase
  Amount = {1, 2}
  Limit = {0, 3}
  MaxLpSupply = 3
  MaxTime = 3
  MaxUint = 65535
SYMMETRY FullSymmetry
INVARIANTS Backed NoOrphanedEther
PROPERTIES RefinesVault SwapsFollowCurve
CHECK_DEADLOCK FALSE
