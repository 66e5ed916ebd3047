------------------------------ MODULE SafeCast ------------------------------
(***************************************************************************)
(* The checked casts of the vendored OpenZeppelin library, as its          *)
(* generator writes them (scripts/generate/templates/SafeCast.js).  For a  *)
(* cast X, XFits says that it does not revert.                             *)
(***************************************************************************)
EXTENDS Integers

CONSTANT WordBits   \* bits of uint256 and int256

ASSUME WordAssumption == WordBits \in Nat \ {0}

UintRange(bits) == 0..2^bits - 1                    \* the values of uintN
IntRange(bits)  == -(2^(bits - 1))..2^(bits - 1) - 1   \* the values of intN

\* Solidity's uintN(value) and intN(value): the low bits, without a check.
UintCut(bits, value) == value % 2^bits
IntCut(bits, value) ==
    LET low == value % 2^bits
    IN  IF low < 2^(bits - 1) THEN low ELSE low - 2^bits

\* toUintN(uint256)
ToUintFits(bits, value) == value <= 2^bits - 1
ToUint(bits, value)     == UintCut(bits, value)

ToIntFitsUnsigned(bits, value) == UintCut(bits, value) = value   \* mutation: uintN for intN

\* toIntN(int256)
ToIntFits(bits, value) == IntCut(bits, value) = value
ToInt(bits, value)     == IntCut(bits, value)

\* toInt256(uint256)
ToIntWordFits(value) == value <= 2^(WordBits - 1) - 1
ToIntWord(value)     == IntCut(WordBits, value)

\* toUint256(int256)
ToUintWordFits(value) == value >= 0
ToUintWord(value)     == UintCut(WordBits, value)
===========================================================================
