\* Every word of 16 bits.
SPECIFICATION Spec
CONSTANTS
  MaxUint = 65535
  LogWidth = 4
INVARIANT SqrtIsFloor
CHECK_DEADLOCK FALSE
