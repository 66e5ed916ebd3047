--------------------------- MODULE EnumerableSet ---------------------------
(***************************************************************************)
(* The enumerable sets of the vendored OpenZeppelin library, as its        *)
(* generator writes them (scripts/generate/templates/EnumerableSet.js): an *)
(* array of values and, for each value, its place in the array.            *)
(*                                                                         *)
(* A bytes32 is a number.  The operations on a typed set convert their     *)
(* argument and pass it to the operation on the set of bytes32 inside.     *)
(***************************************************************************)
EXTENDS Naturals, Sequences

CONSTANTS
    Words,         \* the bytes32 that are used
    AddressLimit   \* 2^160

ASSUME SetAssumption ==
    /\ Words \subseteq Nat /\ 0 \in Words
    /\ AddressLimit \in Nat \ {0}

\* The values of a Solidity type.
OfType(type) == IF type = "address" THEN {w \in Words : w < AddressLimit} ELSE Words

\* bytes32(uint256(uint160(value))) and address(uint160(uint256(word))); between
\* bytes32 and uint256 the bits stay as they are.
ToBytes32(type, value)  == IF type = "address" THEN value % AddressLimit ELSE value
FromBytes32(type, word) == IF type = "address" THEN word % AddressLimit ELSE word

---------------------------------------------------------------------------
(* struct Set.  indexes[w] is the place of w, counted from 1; 0 if absent. *)

EmptySet == [values |-> <<>>, indexes |-> [w \in Words |-> 0]]

InnerContains(set, word) == set.indexes[word] # 0

InnerAdd(set, word) ==
    IF InnerContains(set, word) THEN set
    ELSE [values  |-> Append(set.values, word),
          indexes |-> [set.indexes EXCEPT ![word] = Len(set.values) + 1]]

\* mutation: the index of the moved value is forgotten
InnerRemoveUnindexed(set, word) ==
    LET last == Len(set.values)
    IN  IF set.indexes[word] = 0 THEN set
        ELSE [values  |-> SubSeq([set.values EXCEPT ![set.indexes[word]] = set.values[last]],
                                 1, last - 1),
              indexes |-> [set.indexes EXCEPT ![word] = 0]]

\* The last value takes the place of the one that is removed (itself, perhaps).
InnerRemove(set, word) ==
    LET place     == set.indexes[word]
        last      == Len(set.values)
        lastValue == set.values[last]
    IN  IF place = 0 THEN set
        ELSE [values  |-> SubSeq([set.values EXCEPT ![place] = lastValue], 1, last - 1),
              indexes |-> [set.indexes EXCEPT ![lastValue] = place, ![word] = 0]]

InnerLength(set)    == Len(set.values)
InnerAt(set, index) == set.values[index + 1]
InnerValues(set)    == set.values

---------------------------------------------------------------------------
(* Bytes32Set, AddressSet, UintSet *)

Add(type, set, value)      == InnerAdd(set, ToBytes32(type, value))
Remove(type, set, value)   == InnerRemove(set, ToBytes32(type, value))
Contains(type, set, value) == InnerContains(set, ToBytes32(type, value))
Length(set)                == InnerLength(set)
At(type, set, index)       == FromBytes32(type, InnerAt(set, index))

\* The memory of the array is read as one of the other type, without a conversion.
Values(set) == InnerValues(set)
===========================================================================
