\* Core AMM in ERC20 mode: two traders, two NFTs worth of fractions.
SPECIFICATION Spec
CONSTANTS
  Users = {u1, u2}
  PAIR = PAIR
  NFTs = {n1, n2}
  MerkleIds = {}
  ZeroRoot = TRUE
  NativeBase = FALSE
  ONE = 3
  Day = 1
  Owners = {deployer}
  BaseEach = 5
  StartBase <- MCStartBase
  Amount = {1, 2, 4}
  Limit = {0, 2, 5}
  MaxLpSupply = 5
  MaxTime = 1
  MaxUint = 65535
SYMMETRY FullSymmetry
INVARIANTS LedgersAddUp PoolNeverDrained TypeOK
PROPERTIES SharesNotDiluted SwapsFollowCurve
CHECK_DEADLOCK FALSE
