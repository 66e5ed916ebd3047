\* Two contracts, each of which may be the collection and the base token, one
\* address without code, and three pairs, so that a key is created, closed and
\* created again while another pair exists.
SPECIFICATION Spec
CONSTANTS
  WordLen = 2
  AddrLen = 3
  Addresses <- MCAddresses
  Contracts <- MCContracts
  ETH = 0
  MerkleRoots = {root}
  PairAddrs = {p1, p2, p3}
  NoPair = NoPair
  Answers <- MCAnswers
  Users = {alice, bob}
  Day = 2
INVARIANTS TypeOK ListedIffOpen NamesIdentify
PROPERTIES DelistedByItself GraceRunsOut
CHECK_DEADLOCK FALSE
