\* Three NFTs, arrays of three ids and three calls deep, without a pool: wraps,
\* unwraps, close and withdraw in the callbacks of unwrap.  The owner of the
\* factory has NFTs and fractions too.
SPECIFICATION CallsSpec
CONSTANTS
  Users = {u1, u2}
  PAIR = PAIR
  NFTs = {n1, n2, n3}
  MerkleIds = {}
  ZeroRoot = TRUE
  NativeBase = FALSE
  ONE = 1
  Day = 1
  Owners = {u1}
  Trader = u2
  BaseEach = 0
  StartBase <- MCStartBase
  Amount = {1, 2, 3}
  Limit = {0}
  MaxLpSupply = 0
  MaxTime = 3
  MaxUint = 65535
  MaxDepth = 3
  MaxIds = 3
SYMMETRY NftSymmetry
INVARIANTS BackedInCalls
PROPERTIES CallsAreAtomic
CHECK_DEADLOCK FALSE
