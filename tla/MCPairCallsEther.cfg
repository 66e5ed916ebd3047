\* Ether as base token, where nftBuy and nftRemove call back too.  Three ether,
\* so that a buyer has enough left for a refund; nobody closes the pair.
SPECIFICATION CallsSpec
CONSTANTS
  Users = {u1, u2}
  PAIR = PAIR
  NFTs = {n1, n2}
  MerkleIds = {}
  ZeroRoot = TRUE
  NativeBase = TRUE
  ONE = 1
  Day = 1
  Owners = {deployer}
  Trader = u2
  BaseEach = 3
  StartBase <- MCStartBase
  Amount = {1, 2}
  Limit = {0, 2}
  MaxLpSupply = 1
  MaxTime = 1
  MaxUint = 65535
  MaxDepth = 2
  MaxIds = 2
SYMMETRY NftSymmetry
INVARIANTS BackedInCalls
PROPERTIES CallsAreAtomic
CHECK_DEADLOCK FALSE
