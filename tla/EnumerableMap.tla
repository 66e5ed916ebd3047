--------------------------- MODULE EnumerableMap ---------------------------
(***************************************************************************)
(* The enumerable maps of the vendored OpenZeppelin library, as its        *)
(* generator writes them (scripts/generate/templates/EnumerableMap.js): a  *)
(* set of keys and a mapping.  A key whose value is zero and a key that is *)
(* absent look alike in the mapping.                                       *)
(*                                                                         *)
(* The types of a map are a record with the fields key and value.          *)
(***************************************************************************)
EXTENDS EnumerableSet

EmptyMap == [keys |-> EmptySet, values |-> [w \in Words |-> 0]]

---------------------------------------------------------------------------
(* Bytes32ToBytes32Map *)

InnerSet(map, key, value) ==
    [keys |-> Add("bytes32", map.keys, key), values |-> [map.values EXCEPT ![key] = value]]

InnerUnsetKeyOnly(map, key) ==   \* mutation: the value is not deleted
    [keys |-> Remove("bytes32", map.keys, key), values |-> map.values]

InnerUnset(map, key) ==
    [keys |-> Remove("bytes32", map.keys, key), values |-> [map.values EXCEPT ![key] = 0]]

InnerSize(map) == Length(map.keys)

InnerHas(map, key) == Contains("bytes32", map.keys, key)

InnerEntry(map, index) ==
    LET key == At("bytes32", map.keys, index) IN <<key, map.values[key]>>

InnerTryGet(map, key) ==
    IF map.values[key] = 0 THEN <<InnerHas(map, key), 0>> ELSE <<TRUE, map.values[key]>>

\* get does not revert, with either message.
InnerGets(map, key) == map.values[key] # 0 \/ InnerHas(map, key)
InnerGet(map, key)  == map.values[key]

---------------------------------------------------------------------------
(* UintToUintMap, UintToAddressMap, AddressToUintMap, Bytes32ToUintMap *)

Set(types, map, key, value) ==
    InnerSet(map, ToBytes32(types.key, key), ToBytes32(types.value, value))
Unset(types, map, key) == InnerUnset(map, ToBytes32(types.key, key))
Has(types, map, key)   == InnerHas(map, ToBytes32(types.key, key))
Size(map)              == InnerSize(map)

Entry(types, map, index) ==
    LET entry == InnerEntry(map, index)
    IN  <<FromBytes32(types.key, entry[1]), FromBytes32(types.value, entry[2])>>

TryGet(types, map, key) ==
    LET got == InnerTryGet(map, ToBytes32(types.key, key))
    IN  <<got[1], FromBytes32(types.value, got[2])>>

Gets(types, map, key) == InnerGets(map, ToBytes32(types.key, key))
Get(types, map, key)  == FromBytes32(types.value, InnerGet(map, ToBytes32(types.key, key)))
===========================================================================
