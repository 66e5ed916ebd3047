\* CLOSE_GRACE_PERIOD against the delay that close sets.
SPECIFICATION Spec
CONSTANTS
  Users = {u1, u2}
  PAIR = PAIR
  NFTs = {n1, n2}
  MerkleIds = {n1}
  ZeroRoot = FALSE
  NativeBase = FALSE
  ONE = 2
  Day = 2
  Owners = {u1, u2}
  BaseEach = 2
  StartBase <- MCStartBase
  Amount = {1, 2}
  Limit = {0, 2}
  MaxLpSupply = 2
  MaxTime = 5
  MaxUint = 65535
SYMMETRY UserSymmetry
PROPERTIES GraceIsSevenDays
CHECK_DEADLOCK FALSE
