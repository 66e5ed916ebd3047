------------------------------- MODULE Namer -------------------------------
(***************************************************************************)
(* How create names a pair after its tokens (src/lib/SafeERC20Namer.sol):  *)
(* the answers of symbol() and name(), which tokens give as a string, as a *)
(* bytes32 or not at all, and the hexadecimal address in their place.      *)
(*                                                                         *)
(* Strings are sequences of bytes.  An answer is what staticcall returns.  *)
(***************************************************************************)
EXTENDS Naturals, Sequences

CONSTANTS
    WordLen,   \* bytes of an EVM word, 32
    AddrLen    \* bytes of an address, 20

ASSUME NamerAssumption == WordLen \in Nat \ {0} /\ AddrLen \in Nat \ {0, 1}

Answer(success, data) == [success |-> success, data |-> data]

---------------------------------------------------------------------------
(* Strings.toHexString *)

ShiftRight(value, bits) == value \div 2^bits

\* Math.log256, rounded down: the bytes of value but one.
Log256(value) == CHOOSE n \in 0..AddrLen :
                     /\ ShiftRight(value, 8 * n) > 0 \/ n = 0
                     /\ ShiftRight(value, 8 * (n + 1)) = 0

HexDigit(d) == IF d < 10 THEN 48 + d ELSE 87 + d   \* '0' is 48, 'a' is 97

\* "0x" and two digits per byte that is left when the leading zeros are not
\* counted; one byte at least.
ToHexString(value) ==
    LET digits == 2 * (Log256(value) + 1)
    IN  <<48, 120>> \o [i \in 1..digits |-> HexDigit(ShiftRight(value, 4 * (digits - i)) % 16)]

\* addressToName, addressToSymbol: all of the address, and its first two bytes.
AddressToName(token)   == ToHexString(token)
AddressToSymbol(token) == ToHexString(ShiftRight(token, 8 * (AddrLen - 2)))

---------------------------------------------------------------------------
(* callAndParseStringReturn *)

\* bytes32ToString: all zero bytes are dropped, not only the trailing ones.
Bytes32ToString(word) == SelectSeq(word, LAMBDA char : char # 0)

\* The number in the word of data that starts after byte `at`.
WordAt(data, at) ==
    LET prefix[i \in 0..WordLen] == IF i = 0 THEN 0 ELSE prefix[i - 1] * 256 + data[at + i]
    IN  prefix[WordLen]

\* abi.decode(data, (string)): the first word says where the length stands,
\* and the bytes follow it; it reverts if either is outside of data.
Decodes(data) ==
    LET at == WordAt(data, 0)
    IN  /\ at + WordLen <= Len(data)
        /\ at + WordLen + WordAt(data, at) <= Len(data)
Decoded(data) ==
    LET at == WordAt(data, 0)
    IN  SubSeq(data, at + WordLen + 1, at + WordLen + WordAt(data, at))

IsWord(answer)   == answer.success /\ Len(answer.data) = WordLen
IsString(answer) == answer.success /\ Len(answer.data) > 2 * WordLen

\* The call does not revert.
Parses(answer) == IsString(answer) => Decodes(answer.data)

Parsed(answer) ==
    CASE IsWord(answer)   -> Bytes32ToString(answer.data)
      [] IsString(answer) -> Decoded(answer.data)
      [] OTHER            -> <<>>

---------------------------------------------------------------------------
TokenSymbol(token, answer) ==
    IF Parsed(answer) = <<>> THEN AddressToSymbol(token) ELSE Parsed(answer)

TokenNameShort(token, answer) ==   \* mutation: the symbol's fallback in both
    IF Parsed(answer) = <<>> THEN AddressToSymbol(token) ELSE Parsed(answer)

TokenName(token, answer) ==
    IF Parsed(answer) = <<>> THEN AddressToName(token) ELSE Parsed(answer)
===========================================================================
