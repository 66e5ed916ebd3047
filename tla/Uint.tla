------------------------------- MODULE Uint -------------------------------
(***************************************************************************)
(* The unsigned words of the contracts (uint256).  Solidity 0.8 reverts a  *)
(* call whose arithmetic leaves 0..MaxUint, except in unchecked blocks.    *)
(***************************************************************************)
EXTENDS Integers

CONSTANT MaxUint   \* type(uint256).max

ASSUME MaxUintAssumption == MaxUint \in Nat

FitsUnchecked(x) == TRUE   \* mutation: arithmetic without overflow checks

\* The result x of a checked addition or multiplication does not revert.
Fits(x) == x <= MaxUint

\* unchecked { ... }: the result wraps at the word size.
Unchecked(x) == x % (MaxUint + 1)
===========================================================================
