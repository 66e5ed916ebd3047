\* Four words, two of them addresses; blocks past the largest key, which is 7,
\* so that there are up to eight checkpoints; values past the largest, which is 1.
SPECIFICATION Spec
CONSTANTS
  Words = {0, 1, 5, 6}
  AddressLimit = 4
  WordBits = 4
  ValueBits = 1
  MaxBlock = 9
INVARIANTS ReadsAgree KeysIncrease LookupsAgree CastsAreExact
PROPERTIES RefinesDictionary PastIsFixed
CHECK_DEADLOCK FALSE
