--------------------------- MODULE OzMocksProofs ---------------------------
(***************************************************************************)
(* The enumerable structures and the checkpoints keep their order for any  *)
(* words and any numbers of calls: the array of a set and the places that  *)
(* are remembered for its values always belong together, so that sets and  *)
(* maps are dictionaries, and the keys of checkpoints increase, so that    *)
(* the binary searches find what they look for.  The casts are exact for   *)
(* any number of bits.                                                     *)
(***************************************************************************)
EXTENDS OzMocks, NatProofs

Store == [values : Seq(Words), indexes : [Words -> Nat]]

\* The place of a value is where the value is, and every value has a place.
PlacesMatch(s) ==
    /\ \A w \in Words : s.indexes[w] # 0 =>
          s.indexes[w] \in 1..Len(s.values) /\ s.values[s.indexes[w]] = w
    /\ \A i \in 1..Len(s.values) : s.indexes[s.values[i]] = i

StoreOK(s) == s \in Store /\ PlacesMatch(s)

Present(s) == {w \in Words : s.indexes[w] # 0}

---------------------------------------------------------------------------
\* A value of a type is the number that it is converted to and from.
LEMMA Conversion ==
  ASSUME NEW type, NEW v \in OfType(type)
  PROVE  v \in Words /\ ToBytes32(type, v) = v /\ FromBytes32(type, v) = v
  <1>1. v \in Words /\ v \in Nat /\ AddressLimit \in Nat \ {0}
    BY SetAssumption DEF OfType
  <1>2. CASE type = "address"
    <2>1. v < AddressLimit
      BY <1>2 DEF OfType
    <2>2. v % AddressLimit = v
      BY <1>1, <2>1, SMTT(30)
    <2> QED
      BY <1>1, <1>2, <2>2 DEF ToBytes32, FromBytes32
  <1>3. CASE type # "address"
    BY <1>1, <1>3 DEF ToBytes32, FromBytes32
  <1> QED
    BY <1>2, <1>3

\* Nothing is in a new set.
LEMMA EmptyOK == StoreOK(EmptySet) /\ Present(EmptySet) = {}
  <1>1. EmptySet \in Store
    BY DEF EmptySet, Store
  <1> QED
    BY <1>1 DEF StoreOK, PlacesMatch, Present, EmptySet

\* _add adds its argument to the values, and nothing else.
LEMMA AddOK ==
  ASSUME NEW s, StoreOK(s), NEW w \in Words
  PROVE  StoreOK(InnerAdd(s, w)) /\ Present(InnerAdd(s, w)) = Present(s) \cup {w}
  <1> DEFINE t == InnerAdd(s, w)
  <1>1. CASE s.indexes[w] # 0
    BY <1>1 DEF InnerAdd, InnerContains, Present
  <1>2. CASE s.indexes[w] = 0
    <2>1. /\ s.values \in Seq(Words) /\ s.indexes \in [Words -> Nat]
          /\ Len(s.values) \in Nat
      BY DEF StoreOK, Store
    <2>2. /\ t.values = Append(s.values, w)
          /\ t.indexes = [s.indexes EXCEPT ![w] = Len(s.values) + 1]
          /\ t = [values |-> t.values, indexes |-> t.indexes]
      BY <1>2 DEF InnerAdd, InnerContains
    <2>3. /\ t.values \in Seq(Words) /\ t.indexes \in [Words -> Nat]
          /\ Len(t.values) = Len(s.values) + 1
      BY <2>1, <2>2
    <2>4. t \in Store
      BY <2>2, <2>3 DEF Store
    <2>5. \A i \in 1..Len(t.values) :
             t.values[i] = IF i = Len(s.values) + 1 THEN w ELSE s.values[i]
      BY <2>1, <2>2
    <2>6. \A x \in Words :
             t.indexes[x] = IF x = w THEN Len(s.values) + 1 ELSE s.indexes[x]
      BY <2>1, <2>2
    <2>7. \A i \in 1..Len(s.values) : s.values[i] # w /\ s.values[i] \in Words
      BY <1>2, <2>1 DEF StoreOK, PlacesMatch
    <2>8. PlacesMatch(t)
      <3>1. ASSUME NEW x \in Words, t.indexes[x] # 0
            PROVE  t.indexes[x] \in 1..Len(t.values) /\ t.values[t.indexes[x]] = x
        <4>1. CASE x = w
          <5>1. t.indexes[x] = Len(s.values) + 1
            BY <2>6, <4>1
          <5>2. Len(s.values) + 1 \in 1..Len(t.values)
            BY <2>1, <2>3
          <5> HIDE DEF t
          <5> QED
            BY <2>5, <4>1, <5>1, <5>2
        <4>2. CASE x # w
          <5>1. t.indexes[x] = s.indexes[x]
            BY <2>6, <4>2
          <5>2. s.indexes[x] \in 1..Len(s.values) /\ s.values[s.indexes[x]] = x
            BY <3>1, <5>1 DEF StoreOK, PlacesMatch
          <5> HIDE DEF t
          <5>3. s.indexes[x] \in 1..Len(t.values) /\ s.indexes[x] # Len(s.values) + 1
            <6>1. PICK n \in Nat : n = Len(s.values) /\ Len(t.values) = n + 1
              BY <2>1, <2>3
            <6> QED
              BY <5>2, <6>1
          <5> QED
            BY <2>5, <5>1, <5>2, <5>3
        <4> QED
          BY <4>1, <4>2
      <3>2. ASSUME NEW i \in 1..Len(t.values) PROVE t.indexes[t.values[i]] = i
        <4>1. CASE i = Len(s.values) + 1
          <5>1. t.values[i] = w
            BY <2>5, <4>1
          <5> QED
            BY <2>6, <4>1, <5>1
        <4>2. CASE i # Len(s.values) + 1
          <5>1. i \in 1..Len(s.values)
            BY <2>1, <2>3, <4>2
          <5>2. t.values[i] = s.values[i] /\ s.indexes[s.values[i]] = i
            BY <2>5, <4>2, <5>1 DEF StoreOK, PlacesMatch
          <5> QED
            BY <2>6, <2>7, <5>1, <5>2
        <4> QED
          BY <4>1, <4>2
      <3> QED
        BY <3>1, <3>2 DEF PlacesMatch
    <2>9. Present(t) = Present(s) \cup {w}
      BY <2>1, <2>6 DEF Present
    <2> QED
      BY <2>4, <2>8, <2>9 DEF StoreOK
  <1> QED
    BY <1>1, <1>2

\* _remove takes its argument from the values, and nothing else.
LEMMA RemoveOK ==
  ASSUME NEW s, StoreOK(s), NEW w \in Words
  PROVE  StoreOK(InnerRemove(s, w)) /\ Present(InnerRemove(s, w)) = Present(s) \ {w}
  <1> DEFINE t == InnerRemove(s, w)
             place == s.indexes[w]
             last  == Len(s.values)
             moved == s.values[last]
  <1>1. CASE place = 0
    BY <1>1 DEF InnerRemove, Present
  <1>2. CASE place # 0
    <2>1. /\ s.values \in Seq(Words) /\ s.indexes \in [Words -> Nat] /\ last \in Nat
          /\ place \in 1..last /\ s.values[place] = w
          /\ \A i \in 1..last : s.values[i] \in Words /\ s.indexes[s.values[i]] = i
      BY <1>2 DEF StoreOK, Store, PlacesMatch
    <2>2. moved \in Words /\ s.indexes[moved] = last
      BY <2>1
    <2>3. /\ t.values = SubSeq([s.values EXCEPT ![place] = moved], 1, last - 1)
          /\ t.indexes = [s.indexes EXCEPT ![moved] = place, ![w] = 0]
          /\ t = [values |-> t.values, indexes |-> t.indexes]
      BY <1>2 DEF InnerRemove
    <2>4. [s.values EXCEPT ![place] = moved] \in Seq(Words)
          /\ Len([s.values EXCEPT ![place] = moved]) = last
      BY <2>1, <2>2
    <2>5. /\ t.values \in Seq(Words) /\ Len(t.values) = last - 1
          /\ \A i \in 1..last - 1 : t.values[i] = IF i = place THEN moved ELSE s.values[i]
      <3> DEFINE r == [s.values EXCEPT ![place] = moved]
      <3>1. \A i \in 1..last : r[i] = IF i = place THEN moved ELSE s.values[i]
        BY <2>1
      <3>2. r \in Seq(Words) /\ Len(r) = last /\ t.values = SubSeq(r, 1, last - 1) /\ last >= 1
        BY <2>1, <2>3, <2>4
      <3> HIDE DEF r, t, place, moved
      <3>3. /\ t.values \in Seq(Words) /\ Len(t.values) = last - 1
            /\ \A i \in 1..last - 1 : t.values[i] = r[i]
        BY <2>1, <3>2
      <3> QED
        BY <3>1, <3>3
    <2>6. /\ t.indexes \in [Words -> Nat]
          /\ \A x \in Words : t.indexes[x] = IF x = w THEN 0
                                             ELSE IF x = moved THEN place ELSE s.indexes[x]
      <3>1. t.indexes = [x \in Words |-> IF x = w THEN 0
                                        ELSE IF x = moved THEN place ELSE s.indexes[x]]
        BY <2>1, <2>2, <2>3
      <3>2. place \in Nat
        BY <2>1
      <3> HIDE DEF t, place, moved
      <3> QED
        BY <2>1, <3>1, <3>2
    <2>7. t \in Store
      BY <2>3, <2>5, <2>6 DEF Store
    <2>8. PlacesMatch(t)
      <3>1. ASSUME NEW x \in Words, t.indexes[x] # 0
            PROVE  t.indexes[x] \in 1..Len(t.values) /\ t.values[t.indexes[x]] = x
        <4>1. x # w
          BY <2>6, <3>1
        <4>2. CASE x = moved
          <5>1. t.indexes[x] = place /\ place # last
            BY <2>1, <2>2, <2>6, <4>1, <4>2
          <5>2. place \in 1..last - 1
            BY <2>1, <5>1
          <5>3. t.values[place] = moved
            BY <2>5, <5>2
          <5> HIDE DEF t, place, moved
          <5> QED
            BY <2>5, <4>2, <5>1, <5>2, <5>3
        <4>3. CASE x # moved
          <5>1. t.indexes[x] = s.indexes[x] /\ s.indexes[x] # 0
            BY <2>6, <3>1, <4>1, <4>3
          <5>2. s.indexes[x] \in 1..last /\ s.values[s.indexes[x]] = x
            BY <5>1 DEF StoreOK, PlacesMatch
          <5>3. s.indexes[x] # last /\ s.indexes[x] # place
            BY <2>1, <4>1, <4>3, <5>2
          <5> HIDE DEF t, place, moved
          <5>4. s.indexes[x] \in 1..last - 1
            BY <2>1, <5>2, <5>3
          <5> QED
            BY <2>5, <5>1, <5>2, <5>3, <5>4
        <4> QED
          BY <4>2, <4>3
      <3>2. ASSUME NEW i \in 1..Len(t.values) PROVE t.indexes[t.values[i]] = i
        <4>1. i \in 1..last - 1 /\ i \in 1..last /\ i # last
          BY <2>1, <2>5, SMTT(20)
        <4>2. CASE i = place
          <5>1. t.values[i] = moved /\ moved # w
            BY <2>1, <2>2, <2>5, <4>1, <4>2
          <5> QED
            BY <2>2, <2>6, <4>2, <5>1
        <4>3. CASE i # place
          <5>1. t.values[i] = s.values[i] /\ s.values[i] \in Words /\ s.indexes[s.values[i]] = i
            BY <2>1, <2>5, <4>1, <4>3
          <5>2. s.values[i] # w /\ s.values[i] # moved
            BY <2>2, <4>1, <4>3, <5>1
          <5> QED
            BY <2>6, <5>1, <5>2
        <4> QED
          BY <4>2, <4>3
      <3> QED
        BY <3>1, <3>2 DEF PlacesMatch
    <2>9. Present(t) = Present(s) \ {w}
      <3>1. place # 0 /\ s.indexes[moved] # 0
        BY <1>2, <2>1, <2>2
      <3>2. \A x \in Words : t.indexes[x] # 0 <=> x # w /\ s.indexes[x] # 0
        <4> HIDE DEF t, place, moved
        <4> QED
          BY <2>6, <3>1
      <3> QED
        BY <3>2 DEF Present
    <2> QED
      BY <2>7, <2>8, <2>9 DEF StoreOK
  <1> QED
    BY <1>1, <1>2

---------------------------------------------------------------------------
(* What at enumerates are the values that have a place. *)

LEMMA Enumerated ==
  ASSUME NEW s, StoreOK(s), NEW type, Present(s) \subseteq OfType(type)
  PROVE  {At(type, s, i) : i \in 0..Length(s) - 1} = Present(s)
  <1>1. s.values \in Seq(Words) /\ Length(s) = Len(s.values) /\ Len(s.values) \in Nat
    BY DEF StoreOK, Store, Length, InnerLength
  <1>2. ASSUME NEW i \in 0..Length(s) - 1
        PROVE  s.values[i + 1] \in Present(s) /\ At(type, s, i) = s.values[i + 1]
    <2>1. i + 1 \in 1..Len(s.values) /\ i + 1 # 0
      BY <1>1
    <2>2. s.values[i + 1] \in Words /\ s.indexes[s.values[i + 1]] = i + 1
      BY <1>1, <2>1 DEF StoreOK, PlacesMatch
    <2>3. s.values[i + 1] \in Present(s)
      BY <2>1, <2>2 DEF Present
    <2> QED
      BY <2>3, Conversion DEF At, InnerAt
  <1>3. ASSUME NEW w \in Present(s)
        PROVE  \E i \in 0..Length(s) - 1 : At(type, s, i) = w
    <2>1. s.indexes[w] \in 1..Len(s.values) /\ s.values[s.indexes[w]] = w
      BY DEF Present, StoreOK, PlacesMatch
    <2>2. /\ s.indexes[w] - 1 \in 0..Length(s) - 1
          /\ (s.indexes[w] - 1) + 1 = s.indexes[w]
      BY <1>1, <2>1
    <2> QED
      BY <1>2, <2>1, <2>2
  <1> QED
    BY <1>2, <1>3

---------------------------------------------------------------------------
(* The inductive invariant: both structures are in order, and hold only    *)
(* what fits their types.                                                  *)

StructsInv ==
    /\ StoreOK(set) /\ Present(set) \subseteq OfType(types.key)
    /\ map = [keys |-> map.keys, values |-> map.values]
    /\ StoreOK(map.keys) /\ Present(map.keys) \subseteq OfType(types.key)
    /\ map.values \in [Words -> Words]
    /\ \A w \in Words : map.values[w] \in OfType(types.value)
    /\ \A w \in Words \ Present(map.keys) : map.values[w] = 0

\* A freshly deployed contract satisfies the invariant.
LEMMA InitStructs == Init => StructsInv
  <1>1. ASSUME NEW type PROVE 0 \in OfType(type)
    BY SetAssumption DEF OfType
  <1>2. EmptyMap.keys = EmptySet /\ EmptyMap.values = [w \in Words |-> 0]
        /\ EmptyMap = [keys |-> EmptyMap.keys, values |-> EmptyMap.values]
    BY DEF EmptyMap
  <1> QED
    BY <1>1, <1>2, EmptyOK, SetAssumption DEF Init, StructsInv

\* The typed operations on the set and the map, for arguments of their types.
LEMMA TypedSet ==
  ASSUME NEW type, NEW s, NEW v \in OfType(type)
  PROVE  /\ Add(type, s, v) = InnerAdd(s, v) /\ Remove(type, s, v) = InnerRemove(s, v)
         /\ Contains(type, s, v) = (v \in Present(s))
  BY Conversion DEF Add, Remove, Contains, InnerContains, Present

LEMMA TypedMap ==
  ASSUME NEW k \in OfType(types.key), NEW v \in OfType(types.value)
  PROVE  /\ Set(types, map, k, v) = [keys   |-> InnerAdd(map.keys, k),
                                     values |-> [map.values EXCEPT ![k] = v]]
         /\ Unset(types, map, k) = [keys   |-> InnerRemove(map.keys, k),
                                    values |-> [map.values EXCEPT ![k] = 0]]
         /\ Has(types, map, k) = (k \in Present(map.keys))
         /\ Get(types, map, k) = FromBytes32(types.value, map.values[k])
  <1>1. k \in OfType("bytes32")
    BY Conversion DEF OfType
  <1> QED
    BY <1>1, Conversion, TypedSet
    DEF Set, Unset, Has, Get, InnerSet, InnerUnset, InnerHas, InnerGet

\* No call breaks the invariant.
LEMMA StepStructs == StructsInv /\ [Next]_vars => StructsInv'
  <1> SUFFICES ASSUME StructsInv, [Next]_vars PROVE StructsInv'
    OBVIOUS
  <1>1. ASSUME NEW v \in OfType(types.key), AddToSet(v) PROVE StructsInv'
    <2>1. set' = InnerAdd(set, v) /\ UNCHANGED <<types, map>> /\ v \in Words
      BY <1>1, TypedSet, Conversion DEF AddToSet
    <2> QED
      BY <2>1, AddOK DEF StructsInv
  <1>2. ASSUME NEW v \in OfType(types.key), RemoveFromSet(v) PROVE StructsInv'
    <2>1. set' = InnerRemove(set, v) /\ UNCHANGED <<types, map>> /\ v \in Words
      BY <1>2, TypedSet, Conversion DEF RemoveFromSet
    <2> QED
      BY <2>1, RemoveOK DEF StructsInv
  <1>3. ASSUME NEW k \in OfType(types.key), NEW v \in OfType(types.value), SetInMap(k, v)
        PROVE  StructsInv'
    <2>1. /\ map' = [keys |-> InnerAdd(map.keys, k), values |-> [map.values EXCEPT ![k] = v]]
          /\ UNCHANGED <<types, set>> /\ k \in Words /\ v \in Words
      BY <1>3, TypedMap, Conversion DEF SetInMap
    <2>2. map.keys' = InnerAdd(map.keys, k) /\ map.values' = [map.values EXCEPT ![k] = v]
      BY <2>1
    <2>3. \A w \in Words : map.values'[w] = IF w = k THEN v ELSE map.values[w]
      BY <2>2 DEF StructsInv
    <2>4. map.values' \in [Words -> Words]
          /\ \A w \in Words : map.values'[w] \in OfType(types.value)
      BY <2>1, <2>2, <2>3 DEF StructsInv
    <2>5. StoreOK(map.keys') /\ Present(map.keys') = Present(map.keys) \cup {k}
      BY <2>1, <2>2, AddOK DEF StructsInv
    <2>6. \A w \in Words \ Present(map.keys') : map.values'[w] = 0
      BY <2>3, <2>5 DEF StructsInv
    <2> QED
      BY <2>1, <2>4, <2>5, <2>6 DEF StructsInv
  <1>4. ASSUME NEW k \in OfType(types.key), RemoveFromMap(k) PROVE StructsInv'
    <2>1. 0 \in OfType(types.value) /\ 0 \in Words
      BY SetAssumption DEF OfType
    <2>2. /\ map' = [keys |-> InnerRemove(map.keys, k), values |-> [map.values EXCEPT ![k] = 0]]
          /\ UNCHANGED <<types, set>> /\ k \in Words
      BY <1>4, <2>1, TypedMap, Conversion DEF RemoveFromMap
    <2>3. map.keys' = InnerRemove(map.keys, k) /\ map.values' = [map.values EXCEPT ![k] = 0]
      BY <2>2
    <2>4. \A w \in Words : map.values'[w] = IF w = k THEN 0 ELSE map.values[w]
      BY <2>3 DEF StructsInv
    <2>5. map.values' \in [Words -> Words]
          /\ \A w \in Words : map.values'[w] \in OfType(types.value)
      BY <2>1, <2>3, <2>4 DEF StructsInv
    <2>6. StoreOK(map.keys') /\ Present(map.keys') = Present(map.keys) \ {k}
      BY <2>2, <2>3, RemoveOK DEF StructsInv
    <2>7. \A w \in Words \ Present(map.keys') : map.values'[w] = 0
      BY <2>4, <2>6 DEF StructsInv
    <2> QED
      BY <2>2, <2>5, <2>6, <2>7 DEF StructsInv
  <1>5. CASE UNCHANGED <<types, set, map>>
    BY <1>5 DEF StructsInv
  <1>6. \A value : Push(value) => UNCHANGED <<types, set, map>>
    BY DEF Push, PushAt, setVars
  <1>7. ASSUME Mine \/ (\E key, value : PushKey(key, value)) \/ (\E delta : PushOp(delta))
        PROVE  UNCHANGED <<types, set, map>>
    BY <1>6, <1>7 DEF Mine, PushKey, PushOp, PushAt, setVars
  <1>8. CASE UNCHANGED vars
    BY <1>5, <1>8 DEF vars, setVars
  <1> QED
    BY <1>1, <1>2, <1>3, <1>4, <1>5, <1>6, <1>7, <1>8 DEF Next

\* Arrays and places belong together in every reachable state.
THEOREM StructsInvariance == Spec => []StructsInv
  BY InitStructs, StepStructs, PTL DEF Spec

---------------------------------------------------------------------------
(* The refinement of Dictionary. *)

\* The entries, read from the structures without at and get.
PlainKeys == IF kind = "set" THEN Present(set) ELSE Present(map.keys)
PlainEntries == [k \in PlainKeys |-> IF kind = "set" THEN 1 ELSE map.values[k]]

LEMMA EntriesArePlain == StructsInv => Entries = PlainEntries /\ DOMAIN Entries = PlainKeys
  <1> SUFFICES ASSUME StructsInv PROVE Entries = PlainEntries
    BY DEF PlainEntries
  <1>1. \A i : Entry(types, map, i)[1] = At(types.key, map.keys, i)
    BY DEF Entry, InnerEntry, At, FromBytes32
  <1>2. EnumeratedKeys = PlainKeys
    <2>1. CASE kind = "set"
      BY <2>1, Enumerated DEF StructsInv, EnumeratedKeys, PlainKeys
    <2>2. CASE kind # "set"
      <3>1. {At(types.key, map.keys, i) : i \in 0..Length(map.keys) - 1} = Present(map.keys)
        BY Enumerated DEF StructsInv
      <3> QED
        BY <1>1, <2>2, <3>1 DEF EnumeratedKeys, PlainKeys, Size, InnerSize
    <2> QED
      BY <2>1, <2>2
  <1>3. ASSUME kind # "set", NEW k \in PlainKeys PROVE Get(types, map, k) = map.values[k]
    <2>1. k \in OfType(types.key) /\ k \in Words
      BY <1>3 DEF PlainKeys, StructsInv, Present
    <2>2. map.values[k] \in OfType(types.value)
      BY <2>1 DEF StructsInv
    <2> QED
      BY <2>1, <2>2, TypedMap, Conversion
  <1> QED
    BY <1>2, <1>3 DEF Entries, PlainEntries

LEMMA InitDictionary == Init => Dict!Init
  <1> SUFFICES ASSUME Init PROVE Dict!Init
    OBVIOUS
  <1>1. PlainKeys = {}
    BY EmptyOK DEF Init, PlainKeys, EmptyMap
  <1>2. PlainEntries = [k \in {} |-> 0]
    BY <1>1 DEF PlainEntries
  <1> QED
    BY <1>2, InitStructs, EntriesArePlain DEF Init, Dict!Init

\* Every call is one of the dictionary, or leaves it alone.
LEMMA StepDictionary == StructsInv /\ StructsInv' /\ [Next]_vars => [Dict!Next]_Dict!vars
  <1> SUFFICES ASSUME StructsInv, StructsInv', [Next]_vars PROVE [Dict!Next]_Dict!vars
    OBVIOUS
  <1> DEFINE K == PlainKeys  E == PlainEntries
  <1>0. Entries = E /\ Entries' = E' /\ DOMAIN E = K /\ DOMAIN E' = K'
    <2>1. (StructsInv => Entries = PlainEntries)'
      BY EntriesArePlain, PTL
    <2> QED
      BY <2>1, EntriesArePlain DEF PlainEntries
  <1>a. ASSUME NEW k \in Words, NEW v \in Words \cup {1}, result' = (k \notin K),
               K' = K \cup {k}, \A j \in K' : E'[j] = IF j = k THEN v ELSE E[j]
        PROVE  Dict!Next
    <2>1. E' = [j \in DOMAIN E \cup {k} |-> IF j = k THEN v ELSE E[j]]
      BY <1>0, <1>a DEF PlainEntries
    <2>2. Dict!Put(k, v)
      BY <1>0, <1>a, <2>1 DEF Dict!Put
    <2> QED
      BY <2>2 DEF Dict!Next
  <1>b. ASSUME NEW k \in Words, result' = (k \in K), K' = K \ {k}, \A j \in K' : E'[j] = E[j]
        PROVE  Dict!Next
    <2>1. E' = [j \in DOMAIN E \ {k} |-> E[j]]
      BY <1>0, <1>b DEF PlainEntries
    <2>2. Dict!Delete(k)
      BY <1>0, <1>b, <2>1 DEF Dict!Delete
    <2> QED
      BY <2>2 DEF Dict!Next
  <1>1. ASSUME NEW v \in OfType(types.key), AddToSet(v) PROVE Dict!Next
    <2>1. /\ set' = InnerAdd(set, v) /\ UNCHANGED kind /\ kind = "set" /\ v \in Words
          /\ result' = (v \notin Present(set))
      BY <1>1, TypedSet, Conversion DEF AddToSet
    <2>2. K' = K \cup {v} /\ K = Present(set)
      BY <2>1, AddOK DEF StructsInv, PlainKeys
    <2>3. \A j \in K' : E'[j] = IF j = v THEN 1 ELSE E[j]
      BY <2>1, <2>2 DEF PlainEntries
    <2> QED
      BY <1>a, <2>1, <2>2, <2>3
  <1>2. ASSUME NEW v \in OfType(types.key), RemoveFromSet(v) PROVE Dict!Next
    <2>1. /\ set' = InnerRemove(set, v) /\ UNCHANGED kind /\ kind = "set" /\ v \in Words
          /\ result' = (v \in Present(set))
      BY <1>2, TypedSet, Conversion DEF RemoveFromSet
    <2>2. K' = K \ {v} /\ K = Present(set)
      BY <2>1, RemoveOK DEF StructsInv, PlainKeys
    <2>3. \A j \in K' : E'[j] = E[j]
      BY <2>1, <2>2 DEF PlainEntries
    <2> QED
      BY <1>b, <2>1, <2>2, <2>3
  <1>3. ASSUME NEW k \in OfType(types.key), NEW v \in OfType(types.value), SetInMap(k, v)
        PROVE  Dict!Next
    <2>1. /\ map' = [keys |-> InnerAdd(map.keys, k), values |-> [map.values EXCEPT ![k] = v]]
          /\ UNCHANGED kind /\ kind = "map" /\ k \in Words /\ v \in Words
          /\ result' = (k \notin Present(map.keys))
      BY <1>3, TypedMap, Conversion DEF SetInMap
    <2>2. map.keys' = InnerAdd(map.keys, k) /\ map.values' = [map.values EXCEPT ![k] = v]
      BY <2>1
    <2>3. K' = K \cup {k} /\ K = Present(map.keys)
      BY <2>1, <2>2, AddOK DEF StructsInv, PlainKeys
    <2>4. K \subseteq Words
      BY <2>3 DEF Present
    <2>5. \A j \in K' : E'[j] = IF j = k THEN v ELSE E[j]
      BY <2>1, <2>2, <2>3, <2>4 DEF PlainEntries, StructsInv
    <2> QED
      BY <1>a, <2>1, <2>3, <2>5
  <1>4. ASSUME NEW k \in OfType(types.key), RemoveFromMap(k) PROVE Dict!Next
    <2>1. 0 \in OfType(types.value)
      BY SetAssumption DEF OfType
    <2>2. /\ map' = [keys |-> InnerRemove(map.keys, k), values |-> [map.values EXCEPT ![k] = 0]]
          /\ UNCHANGED kind /\ kind = "map" /\ k \in Words
          /\ result' = (k \in Present(map.keys))
      BY <1>4, <2>1, TypedMap, Conversion DEF RemoveFromMap
    <2>3. map.keys' = InnerRemove(map.keys, k) /\ map.values' = [map.values EXCEPT ![k] = 0]
      BY <2>2
    <2>4. K' = K \ {k} /\ K = Present(map.keys)
      BY <2>2, <2>3, RemoveOK DEF StructsInv, PlainKeys
    <2>5. K \subseteq Words
      BY <2>4 DEF Present
    <2>6. \A j \in K' : E'[j] = E[j]
      BY <2>2, <2>3, <2>4, <2>5 DEF PlainEntries, StructsInv
    <2> QED
      BY <1>b, <2>2, <2>4, <2>6
  <1>5. CASE UNCHANGED <<kind, types, setVars>>
    BY <1>5, <1>0 DEF setVars, PlainEntries, PlainKeys, Dict!vars
  <1>6. \A value : Push(value) => UNCHANGED <<kind, types, setVars>>
    BY DEF Push, PushAt
  <1>7. ASSUME Mine \/ (\E key, value : PushKey(key, value)) \/ (\E delta : PushOp(delta))
        PROVE  UNCHANGED <<kind, types, setVars>>
    BY <1>6, <1>7 DEF Mine, PushKey, PushOp, PushAt
  <1>8. CASE UNCHANGED vars
    BY <1>5, <1>8 DEF vars
  <1> QED
    BY <1>1, <1>2, <1>3, <1>4, <1>5, <1>6, <1>7, <1>8 DEF Next

\* The enumerable sets and maps are dictionaries.
THEOREM StructsImplementDictionary == Spec => RefinesDictionary
  BY StructsInvariance, InitDictionary, StepDictionary, PTL
  DEF Spec, RefinesDictionary, Dict!Spec

---------------------------------------------------------------------------
(* The other ways to read a set or a map. *)

\* length counts the values, and values lists them.
LEMMA Counted ==
  ASSUME NEW s, StoreOK(s)
  PROVE  /\ Length(s) = Cardinality(Present(s))
         /\ {Values(s)[i] : i \in 1..Length(s)} = Present(s)
  <1> DEFINE n == Len(s.values)
             f == [i \in 1..n |-> s.values[i]]
  <1>1. n \in Nat /\ Length(s) = n /\ Values(s) = s.values
    BY DEF StoreOK, Store, Length, InnerLength, Values, InnerValues
  <1>2. \A i \in 1..n : s.values[i] \in Present(s) /\ s.indexes[s.values[i]] = i
    <2> TAKE i \in 1..n
    <2>1. s.values[i] \in Words /\ s.indexes[s.values[i]] = i /\ i # 0
      BY <1>1 DEF StoreOK, Store, PlacesMatch
    <2> QED
      BY <2>1 DEF Present
  <1>3. \A w \in Present(s) : s.indexes[w] \in 1..n /\ s.values[s.indexes[w]] = w
    BY DEF Present, StoreOK, PlacesMatch
  <1>4. f \in Bijection(1..n, Present(s))
    <2>1. f \in [1..n -> Present(s)]
      BY <1>2
    <2>2. \A i, j \in 1..n : f[i] = f[j] => i = j
      BY <1>2
    <2>3. \A w \in Present(s) : \E i \in 1..n : f[i] = w
      BY <1>3
    <2> HIDE DEF f, n
    <2> QED
      BY <2>1, <2>2, <2>3 DEF Bijection, Injection, Surjection, IsInjective
  <1>5. Cardinality(Present(s)) = n
    BY <1>1, <1>4, FS_CountingElements DEF ExistsBijection
  <1>6. {s.values[i] : i \in 1..n} = Present(s)
    BY <1>2, <1>3
  <1> QED
    BY <1>1, <1>5, <1>6

\* tryGet and get look at the value first, and are right all the same.
LEMMA TypedReads ==
  ASSUME StructsInv, kind = "map", NEW k \in OfType(types.key)
  PROVE  /\ Has(types, map, k) = (k \in Present(map.keys))
         /\ Gets(types, map, k) <=> k \in Present(map.keys)
         /\ TryGet(types, map, k) = IF k \in Present(map.keys) THEN <<TRUE, Entries[k]>>
                                    ELSE <<FALSE, 0>>
  <1>1. k \in Words /\ ToBytes32(types.key, k) = k /\ k \in OfType("bytes32")
    BY Conversion DEF OfType
  <1>2. InnerHas(map, k) = (k \in Present(map.keys))
    BY <1>1, TypedSet DEF InnerHas
  <1>3. k \notin Present(map.keys) => map.values[k] = 0
    BY <1>1 DEF StructsInv
  <1>4. /\ FromBytes32(types.value, map.values[k]) = map.values[k]
        /\ FromBytes32(types.value, 0) = 0
    <2>1. map.values[k] \in OfType(types.value)
      BY <1>1 DEF StructsInv
    <2>2. 0 \in OfType(types.value)
      BY SetAssumption DEF OfType
    <2> QED
      BY <2>1, <2>2, Conversion
  <1>5. k \in Present(map.keys) => Entries[k] = map.values[k]
    BY EntriesArePlain DEF PlainEntries, PlainKeys
  <1>6. TryGet(types, map, k) = <<InnerTryGet(map, k)[1],
                                  FromBytes32(types.value, InnerTryGet(map, k)[2])>>
    BY <1>1 DEF TryGet
  <1>7. TryGet(types, map, k) = IF k \in Present(map.keys) THEN <<TRUE, Entries[k]>>
                                ELSE <<FALSE, 0>>
    <2>1. CASE k \in Present(map.keys)
      <3>1. (k \in Present(map.keys)) = TRUE
        BY <2>1
      <3>2. InnerTryGet(map, k) = <<TRUE, map.values[k]>>
        <4>1. CASE map.values[k] = 0
          <5>1. InnerTryGet(map, k) = <<InnerHas(map, k), 0>>
            BY <4>1 DEF InnerTryGet
          <5>2. InnerHas(map, k) = TRUE
            BY <1>2, <3>1, Zenon
          <5> QED
            BY <4>1, <5>1, <5>2, Zenon
        <4>2. CASE map.values[k] # 0
          BY <4>2 DEF InnerTryGet
        <4> QED
          BY <4>1, <4>2
      <3>3. TryGet(types, map, k) = <<TRUE, map.values[k]>>
        BY <1>4, <1>6, <3>2
      <3> QED
        BY <1>5, <2>1, <3>3
    <2>2. CASE k \notin Present(map.keys)
      <3>1. (k \in Present(map.keys)) = FALSE
        BY <2>2
      <3>2. InnerTryGet(map, k) = <<InnerHas(map, k), 0>>
        BY <1>3, <2>2 DEF InnerTryGet
      <3>3. InnerTryGet(map, k) = <<FALSE, 0>>
        BY <1>2, <3>1, <3>2, Zenon
      <3>4. TryGet(types, map, k) = <<FALSE, 0>>
        BY <1>4, <1>6, <3>3
      <3> QED
        BY <2>2, <3>4
    <2> QED
      BY <2>1, <2>2
  <1>8. Gets(types, map, k) <=> k \in Present(map.keys)
    <2>1. Gets(types, map, k) <=> map.values[k] # 0 \/ InnerHas(map, k)
      BY <1>1 DEF Gets, InnerGets
    <2> QED
      BY <1>2, <1>3, <2>1
  <1>9. Has(types, map, k) = (k \in Present(map.keys))
    BY <1>1, <1>2 DEF Has
  <1> QED
    BY <1>7, <1>8, <1>9

\* at reads the value that get reads.
LEMMA EntriesPaired ==
  ASSUME StructsInv, kind = "map", NEW i \in 0..Size(map) - 1
  PROVE  Entry(types, map, i)[2] = Entries[Entry(types, map, i)[1]]
  <1> DEFINE word == map.keys.values[i + 1]
  <1>1. word \in Present(map.keys)
    <2>1. map.keys.values \in Seq(Words) /\ Size(map) = Len(map.keys.values)
      BY DEF StructsInv, StoreOK, Store, Size, InnerSize, Length, InnerLength
    <2>2. i + 1 \in 1..Len(map.keys.values) /\ i + 1 # 0
      BY <2>1
    <2>3. word \in Words /\ map.keys.indexes[word] = i + 1
      BY <2>1, <2>2 DEF StructsInv, StoreOK, PlacesMatch
    <2> QED
      BY <2>2, <2>3 DEF Present
  <1>2. word \in OfType(types.key) /\ word \in Words /\ map.values[word] \in OfType(types.value)
    BY <1>1 DEF StructsInv, Present
  <1>3. At("bytes32", map.keys, i) = word
    BY DEF At, InnerAt, FromBytes32
  <1>4. Entry(types, map, i) = <<word, map.values[word]>>
    BY <1>2, <1>3, Conversion DEF Entry, InnerEntry
  <1>5. Entries[word] = map.values[word]
    BY <1>1, EntriesArePlain DEF PlainEntries, PlainKeys
  <1> QED
    BY <1>4, <1>5

\* contains, length, values, tryGet and get show the entries that at shows.
THEOREM ReadsAgreeHolds == Spec => []ReadsAgree
  <1>1. StructsInv => ReadsAgree
    <2> SUFFICES ASSUME StructsInv PROVE ReadsAgree
      OBVIOUS
    <2>1. EnumeratedKeys = PlainKeys
      BY EntriesArePlain DEF Entries, PlainEntries
    <2>2. ASSUME kind = "set"
          PROVE  /\ \A v \in OfType(types.key) : Contains(types.key, set, v) <=> v \in EnumeratedKeys
                 /\ Length(set) = Cardinality(EnumeratedKeys)
                 /\ {Values(set)[i] : i \in 1..Length(set)} = EnumeratedKeys
      BY <2>1, <2>2, Counted, TypedSet DEF StructsInv, PlainKeys
    <2>3. ASSUME kind = "map"
          PROVE  Size(map) = Cardinality(EnumeratedKeys) /\ EnumeratedKeys = Present(map.keys)
      BY <2>1, <2>3, Counted DEF StructsInv, PlainKeys, Size, InnerSize
    <2> QED
      BY <2>2, <2>3, TypedReads, EntriesPaired DEF ReadsAgree
  <1> QED
    BY <1>1, StructsInvariance, PTL

---------------------------------------------------------------------------
(* Casts. *)

\* The remainder that the low bits of a word are.
LEMMA LowBits ==
  ASSUME NEW p \in Nat \ {0}, NEW v \in Int
  PROVE  /\ v % p \in 0..p - 1
         /\ v \in 0..p - 1 => v % p = v
         /\ v \in -p..-1 => v % p = v + p
  <1>1. v % p \in 0..p - 1
    OBVIOUS
  <1>2. ASSUME v \in 0..p - 1 PROVE v % p = v
    BY <1>2, SMTT(30)
  <1>3. ASSUME v \in -p..-1 PROVE v % p = v + p
    BY <1>3, SMTT(30)
  <1> QED
    BY <1>1, <1>2, <1>3

\* A cast succeeds exactly for the values of its type, and returns its argument.
LEMMA UintCast ==
  ASSUME NEW n \in Nat, NEW v \in Int
  PROVE  /\ v \in 0..2^n - 1 => UintCut(n, v) = v
         /\ UintCut(n, v) \in UintRange(n)
  <1>1. PICK p \in Nat \ {0} : p = 2^n
    BY PowerPositive
  <1> QED
    BY <1>1, LowBits DEF UintCut, UintRange

LEMMA IntCast ==
  ASSUME NEW n \in Nat \ {0}, NEW v \in Int
  PROVE  IntCut(n, v) = v <=> v \in IntRange(n)
  <1>1. PICK h \in Nat \ {0} : h = 2^(n - 1)
    BY PowerPositive, n - 1 \in Nat
  <1>2. 2^n = 2 * h
    BY <1>1, PowerNext, n - 1 \in Nat, (n - 1) + 1 = n
  <1>3. PICK p \in Nat \ {0} : p = 2 * h
    OBVIOUS
  <1>4. PICK low \in 0..p - 1 : low = v % p
    BY LowBits
  <1>5. IntCut(n, v) = IF low < h THEN low ELSE low - p
    BY <1>1, <1>2, <1>3, <1>4 DEF IntCut
  <1>6. IntRange(n) = -h..h - 1
    BY <1>1 DEF IntRange
  <1>7. /\ v \in 0..p - 1 => low = v
        /\ v \in -p..-1 => low = v + p
    BY <1>4, LowBits
  <1> QED
    BY <1>3, <1>5, <1>6, <1>7

\* The checked casts revert for exactly the values outside of their type, and
\* never change a value (SafeCast).
THEOREM CastsAreExactHolds == Spec => []CastsAreExact
  <1>1. CastsAreExact
    <2>1. ASSUME NEW n \in 1..WordBits, arg \in UintRange(WordBits)
          PROVE  /\ ToUintFits(n, arg) <=> arg \in UintRange(n)
                 /\ ToUintFits(n, arg) => ToUint(n, arg) = arg
      <3>1. arg \in Nat /\ n \in Nat /\ 2^n \in Nat
        BY <2>1, WordAssumption, PowerPositive DEF UintRange
      <3> QED
        BY <3>1, UintCast DEF ToUintFits, ToUint, UintRange
    <2>2. ASSUME NEW n \in 1..WordBits, arg \in IntRange(WordBits)
          PROVE  /\ ToIntFits(n, arg) <=> arg \in IntRange(n)
                 /\ ToIntFits(n, arg) => ToInt(n, arg) = arg
      <3>1. arg \in Int /\ n \in Nat \ {0}
        BY <2>2, WordAssumption DEF IntRange
      <3> QED
        BY <3>1, IntCast DEF ToIntFits, ToInt
    <2>3. ASSUME arg \in UintRange(WordBits)
          PROVE  /\ ToIntWordFits(arg) <=> arg \in IntRange(WordBits)
                 /\ ToIntWordFits(arg) => ToIntWord(arg) = arg
      <3>1. arg \in Nat
        BY <2>3 DEF UintRange
      <3>2. 2^(WordBits - 1) \in Nat
        BY WordAssumption, PowerPositive, WordBits - 1 \in Nat
      <3>3. ToIntWordFits(arg) <=> arg \in IntRange(WordBits)
        BY <3>1, <3>2 DEF ToIntWordFits, IntRange
      <3> QED
        BY <3>1, <3>3, IntCast, WordAssumption DEF ToIntWord
    <2>4. ASSUME arg \in IntRange(WordBits)
          PROVE  /\ ToUintWordFits(arg) <=> arg \in UintRange(WordBits)
                 /\ ToUintWordFits(arg) => ToUintWord(arg) = arg
      <3>1. WordBits \in Nat /\ WordBits - 1 \in Nat /\ (WordBits - 1) + 1 = WordBits
        BY WordAssumption
      <3>2. 2^WordBits = 2 * 2^(WordBits - 1) /\ 2^(WordBits - 1) \in Nat
        BY <3>1, PowerNext
      <3>3. arg \in Int /\ arg < 2^WordBits
        BY <2>4, <3>2 DEF IntRange
      <3>4. ToUintWordFits(arg) <=> arg \in UintRange(WordBits)
        BY <3>2, <3>3 DEF ToUintWordFits, UintRange
      <3>5. arg \in UintRange(WordBits) => ToUintWord(arg) = arg
        BY <3>1, <3>3, UintCast DEF ToUintWord, UintRange
      <3> QED
        BY <3>4, <3>5
    <2> QED
      BY <2>1, <2>2, <2>3, <2>4 DEF CastsAreExact
  <1> QED
    BY <1>1, PTL

---------------------------------------------------------------------------
(* Binary searches. *)

\* Position r divides l..h - 1: those before it are in right, and it is not,
\* unless it is the end.
Divides(right, l, h, r) ==
    /\ r \in l..h
    /\ \A i \in l..r - 1 : i \in right
    /\ r < h => r \notin right

DownClosed(right) == \A i \in right : \A j \in 0..i : j \in right

LEMMA DividerExists ==
  ASSUME NEW right \in SUBSET Nat, NEW l \in Nat, NEW h \in Nat, l <= h
  PROVE  \E r \in l..h : Divides(right, l, h, r)
  <1> DEFINE T == {r \in Nat : r >= l /\ (r >= h \/ r \notin right)}
  <1>1. h \in T
    OBVIOUS
  <1>2. PICK r \in T : \A k \in T : r <= k
    BY <1>1, LeastNumber, T \in SUBSET Nat
  <1>3. \A i \in l..r - 1 : i \in right
    <2> TAKE i \in l..r - 1
    <2>1. i \in Nat /\ i >= l /\ ~ (r <= i)
      BY <1>2
    <2> QED
      BY <1>2, <2>1
  <1> QED
    BY <1>1, <1>2, <1>3 DEF Divides

LEMMA DividerUnique ==
  ASSUME NEW right, NEW l \in Nat, NEW h \in Nat,
         NEW r, Divides(right, l, h, r), NEW s, Divides(right, l, h, s)
  PROVE  r = s
  BY DEF Divides

\* What is right of a divider in a part is so in the whole.
LEMMA DividerOfPart ==
  ASSUME NEW right \in SUBSET Nat, DownClosed(right),
         NEW l \in Nat, NEW h \in Nat, NEW m \in l..h - 1, NEW r
  PROVE  /\ m \in right /\ Divides(right, m + 1, h, r) => Divides(right, l, h, r)
         /\ m \notin right /\ Divides(right, l, m, r) => Divides(right, l, h, r)
  <1>1. ASSUME m \in right, Divides(right, m + 1, h, r) PROVE Divides(right, l, h, r)
    <2>1. \A i \in l..m : i \in right
      BY <1>1 DEF DownClosed
    <2> QED
      BY <1>1, <2>1 DEF Divides
  <1>2. ASSUME m \notin right, Divides(right, l, m, r) PROVE Divides(right, l, h, r)
    BY <1>2 DEF Divides
  <1> QED
    BY <1>1, <1>2

\* The position that a search from l to h ends at.
Divider(right, l, h) ==
    IF l >= h THEN h ELSE CHOOSE r \in l..h : Divides(right, l, h, r)

LEMMA DividerDivides ==
  ASSUME NEW right \in SUBSET Nat, NEW l \in Nat, NEW h \in Nat, l <= h
  PROVE  Divides(right, l, h, Divider(right, l, h))
  <1>1. CASE l >= h
    BY <1>1 DEF Divider, Divides
  <1>2. CASE ~ (l >= h)
    <2>1. Divider(right, l, h) = CHOOSE r \in l..h : Divides(right, l, h, r)
      BY <1>2 DEF Divider
    <2> QED
      BY <2>1, DividerExists, Zenon
  <1> QED
    BY <1>1, <1>2

\* The function that halves the interval has these values.
LEMMA DividerHalves ==
  ASSUME NEW right \in SUBSET Nat, DownClosed(right), NEW l \in Nat, NEW h \in Nat, l < h
  PROVE  LET mid == Average(l, h)
         IN  Divider(right, l, h) = IF mid \in right THEN Divider(right, mid + 1, h)
                                                     ELSE Divider(right, l, mid)
  <1>1. PICK mid \in l..h - 1 : mid = Average(l, h)
    BY DEF Average
  <1>2. Divides(right, l, h, Divider(right, l, h))
    BY DividerDivides
  <1>3. Divides(right, mid + 1, h, Divider(right, mid + 1, h))
    BY DividerDivides
  <1>4. Divides(right, l, mid, Divider(right, l, mid))
    BY DividerDivides
  <1>5. CASE mid \in right
    <2>1. Divides(right, l, h, Divider(right, mid + 1, h))
      BY <1>3, <1>5, DividerOfPart
    <2> QED
      BY <1>1, <1>2, <1>5, <2>1, DividerUnique
  <1>6. CASE mid \notin right
    <2>1. Divides(right, l, h, Divider(right, l, mid))
      BY <1>4, <1>6, DividerOfPart
    <2> QED
      BY <1>1, <1>2, <1>6, <2>1, DividerUnique
  <1> QED
    BY <1>5, <1>6

\* One step of a search, which f continues.
Halve(right, f, l, h) ==
    IF l >= h THEN h
    ELSE IF Average(l, h) \in right THEN f[<<Average(l, h) + 1, h>>]
                                    ELSE f[<<l, Average(l, h)>>]

\* A function that halves the interval exists, and finds the divider.
LEMMA SearchExists ==
  ASSUME NEW n \in Nat, NEW right \in SUBSET Nat, DownClosed(right)
  PROVE  \E f : f = [part \in (0..n) \X (0..n) |-> Halve(right, f, part[1], part[2])]
  <1> DEFINE D == [part \in (0..n) \X (0..n) |-> Divider(right, part[1], part[2])]
  <1>1. ASSUME NEW l \in 0..n, NEW h \in 0..n
        PROVE  D[<<l, h>>] = Halve(right, D, l, h)
    <2>1. CASE l >= h
      BY <2>1 DEF Divider, Halve
    <2>2. CASE l < h
      <3>1. Average(l, h) \in 0..n /\ Average(l, h) + 1 \in 0..n
        BY <2>2 DEF Average
      <3>2. /\ D[<<l, h>>] = Divider(right, l, h)
            /\ D[<<Average(l, h) + 1, h>>] = Divider(right, Average(l, h) + 1, h)
            /\ D[<<l, Average(l, h)>>] = Divider(right, l, Average(l, h))
        BY <3>1
      <3> QED
        BY <2>2, <3>2, DividerHalves DEF Halve
    <2> QED
      BY <2>1, <2>2
  <1>2. D = [part \in (0..n) \X (0..n) |-> Halve(right, D, part[1], part[2])]
    BY <1>1
  <1> QED
    BY <1>2

LEMMA SearchDivides ==
  ASSUME NEW n \in Nat, NEW right \in SUBSET Nat, DownClosed(right),
         NEW f, f = [part \in (0..n) \X (0..n) |-> Halve(right, f, part[1], part[2])],
         NEW low \in 0..n, NEW high \in low..n
  PROVE  Divides(right, low, high, f[<<low, high>>])
  <1> DEFINE S == {d \in Nat : \A l, h \in 0..n : h - l = d => Divides(right, l, h, f[<<l, h>>])}
  <1>1. ASSUME NEW d \in Nat, 0..d - 1 \subseteq S PROVE d \in S
    <2> SUFFICES ASSUME NEW l \in 0..n, NEW h \in 0..n, h - l = d
                 PROVE  Divides(right, l, h, f[<<l, h>>])
      OBVIOUS
    <2>1. CASE l = h
      <3>1. f[<<l, h>>] = h
        BY <2>1 DEF Halve
      <3> QED
        BY <2>1, <3>1 DEF Divides
    <2>2. CASE l < h
      <3>1. PICK mid \in l..h - 1 : mid = Average(l, h)
        BY <2>2 DEF Average
      <3>2. f[<<l, h>>] = IF mid \in right THEN f[<<mid + 1, h>>] ELSE f[<<l, mid>>]
        BY <2>2, <3>1 DEF Halve
      <3>3. CASE mid \in right
        <4>1. h - (mid + 1) \in 0..d - 1 /\ mid + 1 \in 0..n
          BY <2>2
        <4>2. Divides(right, mid + 1, h, f[<<mid + 1, h>>])
          BY <1>1, <4>1
        <4> QED
          BY <2>2, <3>2, <3>3, <4>2, DividerOfPart
      <3>4. CASE mid \notin right
        <4>1. mid - l \in 0..d - 1 /\ mid \in 0..n
          BY <2>2
        <4>2. Divides(right, l, mid, f[<<l, mid>>])
          BY <1>1, <4>1
        <4> QED
          BY <2>2, <3>2, <3>4, <4>2, DividerOfPart
      <3> QED
        BY <3>3, <3>4
    <2> QED
      BY <2>1, <2>2
  <1> HIDE DEF S
  <1>2. S = Nat
    BY <1>1, StrongInduction, S \in SUBSET Nat DEF S
  <1>3. high - low \in S /\ low \in 0..n /\ high \in 0..n
    BY <1>2
  <1>4. \A l, h \in 0..n : h - l = high - low => Divides(right, l, h, f[<<l, h>>])
    BY <1>3, Zenon DEF S
  <1> QED
    BY <1>3, <1>4

---------------------------------------------------------------------------
(* The searches among checkpoints in the order of their keys. *)

NatCheckpoint == [key : Nat, value : Nat]

\* The keys of self increase.
Ordered(self) ==
    /\ self \in Seq(NatCheckpoint)
    /\ \A i, j \in 1..Len(self) : i < j => self[i].key < self[j].key

\* The positions of the keys that do not exceed key, and of those below it.
UpTo(self, key)  == {i \in 0..Len(self) - 1 : Access(self, i).key <= key}
Below(self, key) == {i \in 0..Len(self) - 1 : Access(self, i).key < key}

LEMMA KeysNat ==
  ASSUME NEW self, Ordered(self)
  PROVE  /\ Len(self) \in Nat /\ DOMAIN self = 1..Len(self)
         /\ \A i \in 1..Len(self) : self[i].key \in Nat
         /\ \A i \in 0..Len(self) - 1 : Access(self, i).key \in Nat
  <1>1. Len(self) \in Nat /\ DOMAIN self = 1..Len(self)
    BY DEF Ordered
  <1>2. ASSUME NEW i \in 1..Len(self) PROVE self[i].key \in Nat
    <2>1. self[i] \in NatCheckpoint
      BY DEF Ordered
    <2> QED
      BY <2>1 DEF NatCheckpoint
  <1> QED
    BY <1>1, <1>2 DEF Access

LEMMA KeysClosed ==
  ASSUME NEW self, Ordered(self), NEW key \in Nat
  PROVE  /\ UpTo(self, key) \in SUBSET Nat /\ DownClosed(UpTo(self, key))
         /\ Below(self, key) \in SUBSET Nat /\ DownClosed(Below(self, key))
  <1>1. Len(self) \in Nat /\ \A i \in 0..Len(self) - 1 : Access(self, i).key \in Nat
    BY KeysNat
  <1>2. ASSUME NEW i \in 0..Len(self) - 1, NEW j \in 0..i
        PROVE  j \in 0..Len(self) - 1 /\ Access(self, j).key <= Access(self, i).key
    <2>1. j \in 0..Len(self) - 1 /\ j + 1 \in 1..Len(self) /\ i + 1 \in 1..Len(self)
      BY <1>1
    <2>2. j = i \/ j + 1 < i + 1
      BY <1>1
    <2>3. Access(self, j).key = Access(self, i).key \/ Access(self, j).key < Access(self, i).key
      BY <2>1, <2>2 DEF Ordered, Access
    <2> QED
      BY <1>1, <2>1, <2>3
  <1>3. DownClosed(UpTo(self, key))
    <2> SUFFICES ASSUME NEW i \in UpTo(self, key), NEW j \in 0..i
                 PROVE  j \in UpTo(self, key)
      BY DEF DownClosed
    <2>1. i \in 0..Len(self) - 1 /\ Access(self, i).key <= key
      BY DEF UpTo
    <2> QED
      BY <1>1, <1>2, <2>1 DEF UpTo
  <1>4. DownClosed(Below(self, key))
    <2> SUFFICES ASSUME NEW i \in Below(self, key), NEW j \in 0..i
                 PROVE  j \in Below(self, key)
      BY DEF DownClosed
    <2>1. i \in 0..Len(self) - 1 /\ Access(self, i).key < key
      BY DEF Below
    <2> QED
      BY <1>1, <1>2, <2>1 DEF Below
  <1> QED
    BY <1>1, <1>3, <1>4 DEF UpTo, Below

\* _upperBinaryLookup divides the keys up to key from the larger ones.
LEMMA UpperSearch ==
  ASSUME NEW self, Ordered(self), NEW key \in Nat,
         NEW low \in 0..Len(self), NEW high \in low..Len(self)
  PROVE  Divides(UpTo(self, key), low, high, UpperBinaryLookup(self, key, low, high))
  <1> DEFINE right == UpTo(self, key)
             Next1(f, l, h) ==
               LET mid == Average(l, h)
               IN  IF l >= h THEN h
                   ELSE IF Access(self, mid).key > key THEN f[<<l, mid>>]
                                                       ELSE f[<<mid + 1, h>>]
             search[part \in Parts(self)] == Next1(search, part[1], part[2])
  <1>1. Len(self) \in Nat /\ \A i \in 0..Len(self) - 1 : Access(self, i).key \in Nat
    BY KeysNat
  <1>2. UpperBinaryLookup(self, key, low, high) = search[<<low, high>>]
    BY DEF UpperBinaryLookup
  <1>3. ASSUME NEW f, NEW l \in 0..Len(self), NEW h \in 0..Len(self)
        PROVE  Next1(f, l, h) = Halve(right, f, l, h)
    <2>1. CASE l >= h
      BY <2>1 DEF Halve
    <2>2. CASE l < h
      <3>1. Average(l, h) \in 0..Len(self) - 1
        BY <1>1, <2>2 DEF Average
      <3>2. Average(l, h) \in right <=> ~ (Access(self, Average(l, h)).key > key)
        BY <1>1, <3>1 DEF UpTo
      <3> QED
        BY <2>2, <3>2 DEF Halve
    <2> QED
      BY <1>1, <2>1, <2>2
  <1>4. ASSUME NEW f
        PROVE  [part \in Parts(self) |-> Next1(f, part[1], part[2])]
               = [part \in (0..Len(self)) \X (0..Len(self)) |-> Halve(right, f, part[1], part[2])]
    <2> HIDE DEF Next1, right
    <2> QED
      BY <1>3 DEF Parts
  <1> HIDE DEF Next1, right
  <1>5. right \in SUBSET Nat /\ DownClosed(right)
    BY KeysClosed DEF right
  <1>6. \E f : f = [part \in Parts(self) |-> Next1(f, part[1], part[2])]
    <2>1. PICK f : f = [part \in (0..Len(self)) \X (0..Len(self)) |->
                           Halve(right, f, part[1], part[2])]
      BY <1>1, <1>5, SearchExists
    <2>2. f = [part \in Parts(self) |-> Next1(f, part[1], part[2])]
      BY <1>4, <2>1
    <2> QED
      BY <2>2, Zenon
  <1>7. search = [part \in Parts(self) |-> Next1(search, part[1], part[2])]
    BY <1>6, Zenon
  <1> HIDE DEF search
  <1>8. search = [part \in (0..Len(self)) \X (0..Len(self)) |->
                     Halve(right, search, part[1], part[2])]
    BY <1>4, <1>7, Zenon
  <1>9. Divides(right, low, high, search[<<low, high>>])
    BY <1>1, <1>5, <1>8, SearchDivides
  <1> QED
    BY <1>2, <1>9 DEF right

\* _lowerBinaryLookup divides the keys below key from the others.
LEMMA LowerSearch ==
  ASSUME NEW self, Ordered(self), NEW key \in Nat,
         NEW low \in 0..Len(self), NEW high \in low..Len(self)
  PROVE  Divides(Below(self, key), low, high, LowerBinaryLookup(self, key, low, high))
  <1> DEFINE right == Below(self, key)
             Next1(f, l, h) ==
               LET mid == Average(l, h)
               IN  IF l >= h THEN h
                   ELSE IF Access(self, mid).key < key THEN f[<<mid + 1, h>>]
                                                       ELSE f[<<l, mid>>]
             search[part \in Parts(self)] == Next1(search, part[1], part[2])
  <1>1. Len(self) \in Nat /\ \A i \in 0..Len(self) - 1 : Access(self, i).key \in Nat
    BY KeysNat
  <1>2. LowerBinaryLookup(self, key, low, high) = search[<<low, high>>]
    BY DEF LowerBinaryLookup
  <1>3. ASSUME NEW f, NEW l \in 0..Len(self), NEW h \in 0..Len(self)
        PROVE  Next1(f, l, h) = Halve(right, f, l, h)
    <2>1. CASE l >= h
      BY <2>1 DEF Halve
    <2>2. CASE l < h
      <3>1. Average(l, h) \in 0..Len(self) - 1
        BY <1>1, <2>2 DEF Average
      <3>2. Average(l, h) \in right <=> (Access(self, Average(l, h)).key < key)
        BY <1>1, <3>1 DEF Below
      <3> QED
        BY <2>2, <3>2 DEF Halve
    <2> QED
      BY <1>1, <2>1, <2>2
  <1>4. ASSUME NEW f
        PROVE  [part \in Parts(self) |-> Next1(f, part[1], part[2])]
               = [part \in (0..Len(self)) \X (0..Len(self)) |-> Halve(right, f, part[1], part[2])]
    <2> HIDE DEF Next1, right
    <2> QED
      BY <1>3 DEF Parts
  <1> HIDE DEF Next1, right
  <1>5. right \in SUBSET Nat /\ DownClosed(right)
    BY KeysClosed DEF right
  <1>6. \E f : f = [part \in Parts(self) |-> Next1(f, part[1], part[2])]
    <2>1. PICK f : f = [part \in (0..Len(self)) \X (0..Len(self)) |->
                           Halve(right, f, part[1], part[2])]
      BY <1>1, <1>5, SearchExists
    <2>2. f = [part \in Parts(self) |-> Next1(f, part[1], part[2])]
      BY <1>4, <2>1
    <2> QED
      BY <2>2, Zenon
  <1>7. search = [part \in Parts(self) |-> Next1(search, part[1], part[2])]
    BY <1>6, Zenon
  <1> HIDE DEF search
  <1>8. search = [part \in (0..Len(self)) \X (0..Len(self)) |->
                     Halve(right, search, part[1], part[2])]
    BY <1>4, <1>7, Zenon
  <1>9. Divides(right, low, high, search[<<low, high>>])
    BY <1>1, <1>5, <1>8, SearchDivides
  <1> QED
    BY <1>2, <1>9 DEF right

\* A divider of the whole array counts the positions to its left.
LEMMA DividerOfAll ==
  ASSUME NEW n \in Nat, NEW right \in SUBSET Nat, DownClosed(right),
         NEW pos, Divides(right, 0, n, pos)
  PROVE  pos \in 0..n /\ \A i \in 0..n - 1 : i \in right <=> i < pos
  <1>1. pos \in 0..n
    BY DEF Divides
  <1>2. ASSUME NEW i \in 0..n - 1, i \in right PROVE i < pos
    <2> SUFFICES ASSUME pos <= i PROVE FALSE
      BY <1>1
    <2>1. pos \in right
      BY <1>1, <1>2 DEF DownClosed
    <2> QED
      BY <1>1, <2>1 DEF Divides
  <1>3. ASSUME NEW i \in 0..n - 1, i < pos PROVE i \in right
    BY <1>1, <1>3 DEF Divides
  <1> QED
    BY <1>1, <1>2, <1>3

\* The value before the divider is that of the largest key up to key.
LEMMA UpperValue ==
  ASSUME Ordered(checkpoints), NEW key \in Nat,
         NEW pos, Divides(UpTo(checkpoints, key), 0, Len(checkpoints), pos)
  PROVE  ValueBefore(checkpoints, pos) = AtTop(0..key)
  <1> DEFINE n == Len(checkpoints)
             best == {i \in DOMAIN checkpoints :
                        /\ checkpoints[i].key \in 0..key
                        /\ \A j \in DOMAIN checkpoints :
                             checkpoints[j].key \in 0..key => checkpoints[j].key <= checkpoints[i].key}
  <1>1. /\ n \in Nat /\ DOMAIN checkpoints = 1..n
        /\ \A i \in 1..n : checkpoints[i].key \in Nat
    BY KeysNat
  <1>2. pos \in 0..n /\ \A i \in 0..n - 1 : i \in UpTo(checkpoints, key) <=> i < pos
    BY <1>1, KeysClosed, DividerOfAll
  <1>3. ASSUME NEW i \in 1..n PROVE checkpoints[i].key \in 0..key <=> i <= pos
    <2>1. i - 1 \in 0..n - 1 /\ (i - 1) + 1 = i
      BY <1>1
    <2>2. i - 1 \in UpTo(checkpoints, key) <=> checkpoints[i].key <= key
      BY <2>1 DEF UpTo, Access
    <2> QED
      BY <1>1, <1>2, <2>1, <2>2
  <1>4. ASSUME NEW i \in 1..n, NEW j \in 1..n, i < j
        PROVE  checkpoints[i].key < checkpoints[j].key
    BY <1>4 DEF Ordered
  <1>5. AtTop(0..key) = IF best = {} THEN 0 ELSE checkpoints[CHOOSE i \in best : TRUE].value
    BY DEF AtTop
  <1>6. CASE pos = 0
    <2>1. best = {}
      BY <1>1, <1>3, <1>6
    <2> QED
      BY <1>5, <1>6, <2>1 DEF ValueBefore
  <1>7. CASE pos # 0
    <2>1. pos \in 1..n
      BY <1>2, <1>7
    <2>2. ASSUME NEW j \in 1..n, checkpoints[j].key \in 0..key
          PROVE  checkpoints[j].key <= checkpoints[pos].key
      <3>1. j = pos \/ j < pos
        BY <1>1, <1>3, <2>1, <2>2
      <3> QED
        BY <1>1, <1>4, <2>1, <3>1
    <2>3. pos \in best
      BY <1>1, <1>2, <1>3, <2>1, <2>2
    <2>4. ASSUME NEW i \in best PROVE i = pos
      <3>1. i \in 1..n /\ i <= pos /\ checkpoints[pos].key <= checkpoints[i].key
        BY <1>1, <1>2, <1>3, <2>1
      <3> QED
        BY <1>1, <1>4, <2>1, <3>1
    <2> HIDE DEF best
    <2>5. best # {} /\ (CHOOSE i \in best : TRUE) = pos
      BY <2>3, <2>4
    <2>6. Access(checkpoints, pos - 1) = checkpoints[pos]
      BY <2>1, (pos - 1) + 1 = pos DEF Access
    <2> QED
      BY <1>5, <1>7, <2>5, <2>6 DEF ValueBefore
  <1> QED
    BY <1>6, <1>7

\* The search that looks among the last sqrt(len) checkpoints first.
LEMMA RecentSearch ==
  ASSUME NEW self, Ordered(self), NEW key \in Nat
  PROVE  LET part == Recent(self, key)
         IN  Divides(UpTo(self, key), 0, Len(self), UpperBinaryLookup(self, key, part[1], part[2]))
  <1> DEFINE n == Len(self)
             root == Root(n)
             mid == n - root
  <1>1. n \in Nat /\ UpTo(self, key) \in SUBSET Nat /\ DownClosed(UpTo(self, key))
    BY KeysNat, KeysClosed
  <1>2. CASE n <= 5
    <2>1. Recent(self, key) = <<0, n>>
      BY <1>2 DEF Recent
    <2> QED
      BY <1>1, <2>1, UpperSearch
  <1>3. CASE n > 5
    <2>1. root \in 0..n /\ n < (root + 1) * (root + 1)
      BY <1>1, RootExists, Zenon DEF Root
    <2>2. root # 0
      BY <1>1, <1>3, <2>1
    <2>3. mid \in 0..n - 1
      BY <1>1, <2>1, <2>2
    <2>4. Recent(self, key) = IF key < Access(self, mid).key THEN <<0, mid>> ELSE <<mid + 1, n>>
      BY <1>1, <1>3 DEF Recent
    <2> HIDE DEF mid, root
    <2>5. mid \in UpTo(self, key) <=> ~ (key < Access(self, mid).key)
      BY <2>3, KeysNat DEF UpTo
    <2>6. CASE mid \in UpTo(self, key)
      <3>1. Recent(self, key) = <<mid + 1, n>>
        BY <2>4, <2>5, <2>6
      <3>2. Divides(UpTo(self, key), mid + 1, n, UpperBinaryLookup(self, key, mid + 1, n))
        BY <1>1, <2>3, UpperSearch
      <3> QED
        BY <1>1, <2>3, <2>6, <3>1, <3>2, DividerOfPart
    <2>7. CASE mid \notin UpTo(self, key)
      <3>1. Recent(self, key) = <<0, mid>>
        BY <2>4, <2>5, <2>7
      <3>2. Divides(UpTo(self, key), 0, mid, UpperBinaryLookup(self, key, 0, mid))
        BY <1>1, <2>3, UpperSearch
      <3> QED
        BY <1>1, <2>3, <2>7, <3>1, <3>2, DividerOfPart
    <2> QED
      BY <2>6, <2>7
  <1> QED
    BY <1>1, <1>2, <1>3

\* The value at the divider is that of the first key that is not below key.
LEMMA LowerValue ==
  ASSUME Ordered(checkpoints), NEW key \in Nat
  PROVE  LowerLookup(checkpoints, key) =
           LET above == {i \in DOMAIN checkpoints : checkpoints[i].key >= key}
           IN  IF above = {} THEN 0
               ELSE checkpoints[CHOOSE i \in above : \A j \in above : i <= j].value
  <1> DEFINE n == Len(checkpoints)
             pos == LowerBinaryLookup(checkpoints, key, 0, n)
             above == {i \in DOMAIN checkpoints : checkpoints[i].key >= key}
  <1>1. /\ n \in Nat /\ DOMAIN checkpoints = 1..n
        /\ \A i \in 1..n : checkpoints[i].key \in Nat
    BY KeysNat
  <1>2. pos \in 0..n /\ \A i \in 0..n - 1 : i \in Below(checkpoints, key) <=> i < pos
    BY <1>1, KeysClosed, LowerSearch, DividerOfAll
  <1> HIDE DEF pos
  <1>3. ASSUME NEW i \in 1..n PROVE checkpoints[i].key >= key <=> i > pos
    <2>1. i - 1 \in 0..n - 1 /\ (i - 1) + 1 = i
      BY <1>1
    <2>2. i - 1 \in Below(checkpoints, key) <=> checkpoints[i].key < key
      BY <2>1 DEF Below, Access
    <2> QED
      BY <1>1, <1>2, <2>1, <2>2
  <1>4. LowerLookup(checkpoints, key) = IF pos = n THEN 0 ELSE checkpoints[pos + 1].value
    BY DEF LowerLookup, Access, pos
  <1>5. above = pos + 1..n
    BY <1>1, <1>2, <1>3
  <1>6. CASE pos = n
    <2>1. above = {}
      BY <1>2, <1>5, <1>6
    <2> QED
      BY <1>4, <1>6, <2>1
  <1>7. CASE pos # n
    <2> HIDE DEF above
    <2>1. pos + 1 \in above /\ above # {}
      BY <1>2, <1>5, <1>7
    <2>2. (CHOOSE i \in above : \A j \in above : i <= j) = pos + 1
      BY <1>2, <1>5, <2>1
    <2> QED
      BY <1>4, <1>7, <2>1, <2>2 DEF above
  <1> QED
    BY <1>6, <1>7

---------------------------------------------------------------------------
(* The order of the checkpoints. *)

CkptInv ==
    /\ checkpoints \in Seq(NatCheckpoint)
    /\ block \in Nat
    /\ KeysIncrease

\* _insert adds a key that is not below the last one, at the end.
LEMMA PushOrdered ==
  ASSUME CkptInv, NEW key \in Nat, NEW value \in Nat, PushAt(key, value)
  PROVE  CkptInv'
  <1> DEFINE n == Len(checkpoints)
             ckpt == [key |-> key, value |-> value]
  <1>1. /\ n \in Nat /\ ckpt \in NatCheckpoint /\ block' \in Nat
        /\ DOMAIN checkpoints = 1..n
        /\ \A i \in 1..n : checkpoints[i] \in NatCheckpoint
    <2>1. checkpoints \in Seq(NatCheckpoint)
      BY DEF CkptInv
    <2>2. n \in Nat /\ DOMAIN checkpoints = 1..n
      BY <2>1
    <2>3. \A i \in 1..n : checkpoints[i] \in NatCheckpoint
      BY <2>1, <2>2
    <2>4. block' \in Nat
      BY DEF CkptInv, PushAt
    <2>5. ckpt \in NatCheckpoint
      BY DEF NatCheckpoint
    <2> QED
      BY <2>2, <2>3, <2>4, <2>5
  <1>2. \A i, j \in 1..n : i < j => checkpoints[i].key < checkpoints[j].key
    BY <1>1 DEF CkptInv, KeysIncrease
  <1>3. CASE checkpoints # <<>> /\ checkpoints[n].key = key
    <2>1. checkpoints' = [checkpoints EXCEPT ![n] = ckpt]
      BY <1>1, <1>3 DEF PushAt, Insert, Access, CkptInv
    <2>2. checkpoints' \in Seq(NatCheckpoint) /\ DOMAIN checkpoints' = 1..n
      <3>1. n \in 1..n /\ checkpoints \in Seq(NatCheckpoint)
        BY <1>1, <1>3 DEF CkptInv
      <3> HIDE DEF ckpt, n
      <3>2. DOMAIN checkpoints' = 1..n
        BY <1>1, <2>1
      <3>3. checkpoints' \in [1..n -> NatCheckpoint]
        BY <1>1, <2>1, <3>1, <3>2
      <3> QED
        BY <1>1, <3>2, <3>3
    <2>3. \A i \in 1..n : checkpoints'[i].key = checkpoints[i].key
      BY <1>1, <1>3, <2>1 DEF CkptInv
    <2>4. KeysIncrease'
      BY <1>2, <2>2, <2>3 DEF KeysIncrease
    <2> QED
      BY <1>1, <2>2, <2>4 DEF CkptInv
  <1>4. CASE ~ (checkpoints # <<>> /\ checkpoints[n].key = key)
    <2>1. checkpoints' = Append(checkpoints, ckpt)
      <3>1. n - 1 + 1 = n
        BY <1>1
      <3> QED
        BY <1>4, <3>1 DEF PushAt, Insert, Access
    <2>2. /\ checkpoints' \in Seq(NatCheckpoint) /\ DOMAIN checkpoints' = 1..n + 1
          /\ checkpoints'[n + 1] = ckpt
          /\ \A i \in 1..n : checkpoints'[i] = checkpoints[i]
      BY <1>1, <2>1 DEF CkptInv
    <2>3. ASSUME NEW i \in 1..n PROVE checkpoints[i].key \in Nat /\ checkpoints[i].key < key
      <3>1. n \in 1..n /\ checkpoints # <<>> /\ n - 1 + 1 = n
        BY <1>1, <2>3 DEF CkptInv
      <3>2. checkpoints[n].key \in Nat /\ checkpoints[i].key \in Nat
        BY <1>1, <3>1 DEF NatCheckpoint
      <3>3. checkpoints[n].key <= key /\ checkpoints[n].key # key
        BY <1>4, <3>1 DEF PushAt, Inserts, Access
      <3>4. i = n \/ checkpoints[i].key < checkpoints[n].key
        <4> HIDE DEF n
        <4>1. i = n \/ i < n
          BY <1>1, <2>3
        <4> QED
          BY <1>2, <2>3, <3>1, <4>1
      <3> QED
        BY <3>2, <3>3, <3>4
    <2>4. ASSUME NEW i \in 1..n + 1, NEW j \in 1..n + 1, i < j
          PROVE  checkpoints'[i].key < checkpoints'[j].key
      <3>1. i \in 1..n /\ (j \in 1..n \/ j = n + 1)
        BY <1>1, <2>4
      <3>2. CASE j \in 1..n
        BY <1>2, <2>2, <2>4, <3>1, <3>2
      <3>3. CASE j = n + 1
        BY <2>2, <2>3, <3>1, <3>3
      <3> QED
        BY <3>1, <3>2, <3>3
    <2> QED
      BY <1>1, <2>2, <2>4 DEF CkptInv, KeysIncrease
  <1> QED
    BY <1>3, <1>4

\* latest returns a number.
LEMMA LatestNat ==
  ASSUME CkptInv
  PROVE  Latest(checkpoints) \in Nat
  <1>1. CASE Len(checkpoints) = 0
    BY <1>1 DEF Latest, Count, ValueBefore
  <1>2. CASE Len(checkpoints) # 0
    <2>1. checkpoints \in Seq(NatCheckpoint) /\ Len(checkpoints) \in 1..Len(checkpoints)
      BY <1>2 DEF CkptInv
    <2>2. checkpoints[Len(checkpoints)] \in NatCheckpoint
          /\ Len(checkpoints) - 1 + 1 = Len(checkpoints)
      BY <2>1
    <2> QED
      BY <1>2, <2>2 DEF Latest, Count, ValueBefore, Access, NatCheckpoint
  <1> QED
    BY <1>1, <1>2

\* No call disturbs the order.
LEMMA StepCheckpoints == CkptInv /\ [Next]_vars => CkptInv'
  <1> SUFFICES ASSUME CkptInv, [Next]_vars PROVE CkptInv'
    OBVIOUS
  <1>1. 2^KeyBits \in Int /\ 2^ValueBits \in Int
    BY WordAssumption, CheckpointsAssumption, Z3 DEF KeyBits
  <1>2. ASSUME NEW value \in Nat, Push(value) PROVE CkptInv'
    <2>1. ToUint(KeyBits, block) \in Nat /\ ToUint(ValueBits, value) \in Nat
      <3>1. /\ block \in Nat /\ block <= 2^KeyBits - 1
            /\ value \in Nat /\ value <= 2^ValueBits - 1
        BY <1>2 DEF CkptInv, Push, ToUintFits
      <3>2. 2^KeyBits > 0 /\ 2^ValueBits > 0
        BY <1>1, <3>1
      <3> QED
        BY <1>1, <3>1, <3>2 DEF ToUint, UintCut
    <2> QED
      BY <1>2, <2>1, PushOrdered DEF Push
  <1>3. ASSUME NEW delta \in 0..2^ValueBits, PushOp(delta) PROVE CkptInv'
    <2>1. Latest(checkpoints) \in Nat
      BY LatestNat
    <2>2. delta \in Nat
      BY <1>1
    <2>3. PICK value \in Nat : Push(value)
      BY <1>3, <2>1, <2>2 DEF PushOp
    <2> QED
      BY <1>2, <2>3
  <1>4. ASSUME NEW key \in UintRange(KeyBits), NEW value \in UintRange(ValueBits),
               PushKey(key, value)
        PROVE  CkptInv'
    <2>1. key \in Nat /\ value \in Nat
      BY <1>1 DEF UintRange
    <2> QED
      BY <1>4, <2>1, PushOrdered DEF PushKey
  <1>5. CASE Mine
    BY <1>5 DEF Mine, CkptInv, KeysIncrease
  <1>6. CASE UNCHANGED ckptVars
    BY <1>6 DEF ckptVars, CkptInv, KeysIncrease
  <1>7. ASSUME \E v : AddToSet(v) \/ RemoveFromSet(v) \/ RemoveFromMap(v) \/ \E k : SetInMap(k, v)
        PROVE  UNCHANGED ckptVars
    BY <1>7 DEF AddToSet, RemoveFromSet, RemoveFromMap, SetInMap
  <1>8. CASE UNCHANGED vars
    BY <1>6, <1>8 DEF vars
  <1>9. \A value \in 0..2^ValueBits : value \in Nat
    BY <1>1
  <1> QED
    BY <1>2, <1>3, <1>4, <1>5, <1>6, <1>7, <1>8, <1>9 DEF Next

LEMMA CkptInvariance == Spec => []CkptInv
  <1>1. Init => CkptInv
    BY DEF Init, CkptInv, KeysIncrease
  <1> QED
    BY <1>1, StepCheckpoints, PTL DEF Spec

\* The checkpoints are in the order of their keys, one for each key.
THEOREM KeysIncreaseHolds == Spec => []KeysIncrease
  <1>1. CkptInv => KeysIncrease
    BY DEF CkptInv
  <1> QED
    BY <1>1, CkptInvariance, PTL

---------------------------------------------------------------------------
(* What the lookups answer. *)

\* The invariant says so.
LEMMA InvOrdered == CkptInv => Ordered(checkpoints)
  <1>1. checkpoints \in Seq(NatCheckpoint) => DOMAIN checkpoints = 1..Len(checkpoints)
    OBVIOUS
  <1> QED
    BY <1>1 DEF CkptInv, KeysIncrease, Ordered

\* A block number that is read is its own key.
LEMMA KeyOfBlock ==
  ASSUME NEW b \in Nat, ToUintFits(KeyBits, b)
  PROVE  ToUint(KeyBits, b) = b
  <1>1. KeyBits \in Nat /\ 2^KeyBits \in Nat
    BY WordAssumption, CheckpointsAssumption, PowerPositive DEF KeyBits
  <1> QED
    BY <1>1, UintCast DEF ToUintFits, ToUint

\* A search finds what reading all checkpoints would find.
LEMMA InvLookups == CkptInv => LookupsAgree
  <1> SUFFICES ASSUME CkptInv PROVE LookupsAgree
    OBVIOUS
  <1>1. Ordered(checkpoints) /\ Len(checkpoints) \in Nat
    BY InvOrdered, KeysNat
  <1>2. ASSUME NEW key \in Nat PROVE UpperLookup(checkpoints, key) = AtTop(0..key)
    BY <1>1, UpperSearch, UpperValue DEF UpperLookup
  <1>3. ASSUME NEW key \in Nat, LatestCheckpoint(checkpoints)[2] <= key
        PROVE  Latest(checkpoints) = AtTop(0..key)
    <2> DEFINE n == Len(checkpoints)
    <2>1. Divides(UpTo(checkpoints, key), 0, n, n)
      <3>1. CASE n = 0
        BY <3>1 DEF Divides
      <3>2. CASE n # 0
        <4>1. n - 1 \in 0..n - 1
          BY <1>1, <3>2
        <4>2. LatestCheckpoint(checkpoints)[2] = Access(checkpoints, n - 1).key
          BY <1>1, <3>2 DEF LatestCheckpoint
        <4>3. n - 1 \in UpTo(checkpoints, key)
          BY <1>3, <4>1, <4>2 DEF UpTo
        <4>4. \A i \in 0..n - 1 : i \in UpTo(checkpoints, key)
          BY <1>1, <4>3, KeysClosed DEF DownClosed
        <4> QED
          BY <1>1, <4>4 DEF Divides
      <3> QED
        BY <3>1, <3>2
    <2> QED
      BY <1>1, <2>1, UpperValue DEF Latest, Count
  <1>4. ASSUME NEW key \in Nat
        PROVE  GetAtProbablyRecentBlock(checkpoints, key) = GetAtBlock(checkpoints, key)
    <2>1. PICK k \in Nat : k = ToUint(KeyBits, key)
      <3>1. KeyBits \in Nat
        BY WordAssumption, CheckpointsAssumption DEF KeyBits
      <3>2. 2^KeyBits \in Nat /\ UintCut(KeyBits, key) \in UintRange(KeyBits)
        BY <3>1, PowerPositive, UintCast
      <3> QED
        BY <3>2 DEF ToUint, UintRange
    <2>2. UpperBinaryLookup(checkpoints, k, Recent(checkpoints, k)[1], Recent(checkpoints, k)[2])
          = UpperBinaryLookup(checkpoints, k, 0, Len(checkpoints))
      <3>1. Divides(UpTo(checkpoints, k), 0, Len(checkpoints),
                    UpperBinaryLookup(checkpoints, k, 0, Len(checkpoints)))
        BY <1>1, UpperSearch
      <3> QED
        BY <1>1, <3>1, RecentSearch, DividerUnique
    <2> QED
      BY <2>1, <2>2 DEF GetAtProbablyRecentBlock, GetAtBlock, UpperLookup
  <1>5. \A key \in UintRange(KeyBits) : key \in Nat
    <2>1. KeyBits \in Nat
      BY WordAssumption, CheckpointsAssumption DEF KeyBits
    <2>2. 2^KeyBits \in Nat
      BY <2>1, PowerPositive
    <2> QED
      BY <2>2 DEF UintRange
  <1> QED
    BY <1>1, <1>2, <1>3, <1>4, <1>5, LowerValue DEF LookupsAgree

\* A push at a later key does not move the divider for an earlier one.
LEMMA PushKeepsPast ==
  ASSUME NEW self, Ordered(self), NEW key \in Nat, NEW value \in Nat, Inserts(self, key),
         Ordered(Insert(self, key, value)), NEW past \in Nat, past < key
  PROVE  UpperLookup(Insert(self, key, value), past) = UpperLookup(self, past)
  <1> DEFINE n == Len(self)
             new == Insert(self, key, value)
             pos == UpperBinaryLookup(self, past, 0, n)
             newPos == UpperBinaryLookup(new, past, 0, Len(new))
             ckpt == [key |-> key, value |-> value]
  <1>1. /\ n \in Nat /\ Len(new) \in Nat /\ DOMAIN self = 1..n
        /\ self \in Seq(NatCheckpoint) /\ \A i \in 1..n : self[i].key \in Nat
    BY KeysNat DEF Ordered
  <1>2. pos \in 0..n /\ \A i \in 0..n - 1 : i \in UpTo(self, past) <=> i < pos
    <2>1. Divides(UpTo(self, past), 0, n, pos)
      BY <1>1, UpperSearch
    <2> HIDE DEF pos
    <2> QED
      BY <1>1, <2>1, KeysClosed, DividerOfAll
  <1>3. Divides(UpTo(new, past), 0, Len(new), newPos)
    BY <1>1, UpperSearch
  <1>4. SUFFICES /\ pos \in 0..Len(new) /\ \A i \in 1..pos : new[i] = self[i]
                 /\ pos < Len(new) => new[pos + 1].key > past
    <2>1. \A i \in 0..pos - 1 : i \in UpTo(new, past)
      <3> TAKE i \in 0..pos - 1
      <3>1. i + 1 \in 1..pos /\ i \in 0..n - 1 /\ i \in 0..Len(new) - 1
        BY <1>1, <1>2, <1>4
      <3>2. self[i + 1].key <= past
        BY <1>2, <3>1 DEF UpTo, Access
      <3> QED
        BY <1>4, <3>1, <3>2 DEF UpTo, Access
    <2>2. pos < Len(new) => pos \notin UpTo(new, past)
      <3> SUFFICES ASSUME pos < Len(new), pos \in UpTo(new, past) PROVE FALSE
        OBVIOUS
      <3>1. new[pos + 1].key <= past /\ new[pos + 1].key > past
        BY <1>4 DEF UpTo, Access
      <3>2. new[pos + 1].key \in Nat
        BY <1>1, <1>2, KeysNat
      <3> QED
        BY <3>1, <3>2
    <2>3. Divides(UpTo(new, past), 0, Len(new), pos)
      BY <1>4, <2>1, <2>2 DEF Divides
    <2>4. newPos = pos
      BY <1>1, <1>3, <2>3, DividerUnique
    <2>5. ValueBefore(new, pos) = ValueBefore(self, pos)
      <3>1. CASE pos = 0
        BY <3>1 DEF ValueBefore
      <3>2. CASE pos # 0
        <4>1. pos \in 1..pos /\ (pos - 1) + 1 = pos
          BY <1>2, <3>2
        <4>2. Access(new, pos - 1) = Access(self, pos - 1)
          BY <1>4, <4>1 DEF Access
        <4> QED
          BY <3>2, <4>2 DEF ValueBefore
      <3> QED
        BY <3>1, <3>2
    <2> QED
      BY <2>4, <2>5 DEF UpperLookup
  <1>5. CASE self # <<>> /\ Access(self, n - 1).key = key
    <2>1. new = [self EXCEPT ![n] = ckpt] /\ n \in 1..n /\ self[n].key = key
      <3>1. n # 0 /\ (n - 1) + 1 = n
        BY <1>1, <1>5
      <3> QED
        BY <1>1, <1>5, <3>1 DEF Insert, Access
    <2>2. Len(new) = n /\ new[n].key = key /\ \A i \in 1..n : i # n => new[i] = self[i]
      <3>1. ckpt.key = key
        OBVIOUS
      <3>2. DOMAIN new = 1..n
        BY <1>1, <2>1
      <3>3. new[n] = ckpt /\ \A i \in 1..n : i # n => new[i] = self[i]
        BY <1>1, <2>1
      <3>4. new \in Seq(NatCheckpoint) /\ Len(new) \in Nat
        BY <1>1 DEF Ordered
      <3> HIDE DEF new, ckpt, n
      <3>5. Len(new) = n
        BY <1>1, <3>2, <3>4
      <3> QED
        BY <3>1, <3>3, <3>5
    <2>3. pos # n
      <3>1. n - 1 \in 0..n - 1 /\ n - 1 \notin UpTo(self, past)
        BY <1>1, <2>1 DEF UpTo, Access
      <3> QED
        BY <1>2, <3>1
    <2>4. \A i \in 1..pos : i \in 1..n /\ i # n
      BY <1>1, <1>2, <2>3
    <2>5. pos + 1 = n \/ (pos + 1 \in 1..n /\ pos + 1 # n /\ self[pos + 1].key > past)
      <3>1. pos \in 0..n - 1 /\ pos + 1 \in 1..n
        BY <1>1, <1>2, <2>3
      <3>2. ~ (self[pos + 1].key <= past)
        BY <1>2, <3>1 DEF UpTo, Access
      <3> QED
        BY <1>1, <3>1, <3>2
    <2> HIDE DEF new, pos, n
    <2> QED
      BY <1>1, <1>2, <2>2, <2>3, <2>4, <2>5
  <1>6. CASE ~ (self # <<>> /\ Access(self, n - 1).key = key)
    <2>1. new = Append(self, ckpt)
      BY <1>6 DEF Insert
    <2>2. Len(new) = n + 1 /\ new[n + 1].key = key /\ \A i \in 1..n : new[i] = self[i]
      BY <1>1, <2>1
    <2>3. pos = n \/ (pos + 1 \in 1..n /\ self[pos + 1].key > past)
      <3> SUFFICES ASSUME pos # n PROVE pos + 1 \in 1..n /\ self[pos + 1].key > past
        OBVIOUS
      <3>1. pos \in 0..n - 1 /\ pos + 1 \in 1..n
        BY <1>1, <1>2
      <3>2. ~ (self[pos + 1].key <= past)
        BY <1>2, <3>1 DEF UpTo, Access
      <3> QED
        BY <1>1, <3>1, <3>2
    <2> HIDE DEF new, pos, n
    <2> QED
      BY <1>1, <1>2, <2>2, <2>3
  <1> QED
    BY <1>5, <1>6

\* Binary searches find what reading all checkpoints would find, for every key
\* and any number of checkpoints, also when they start from the last sqrt(len).
THEOREM LookupsAgreeHolds == Spec => []LookupsAgree
  BY CkptInvariance, InvLookups, PTL

\* No call changes what the lookups answer for a block that is past.
LEMMA PastStep == CkptInv /\ CkptInv' /\ [Next]_vars =>
    [ kind = "history" =>
      \A b \in 0..MaxBlock :
          Mined(block, b) => GetAtBlock(checkpoints, b)' = GetAtBlock(checkpoints, b) ]_vars
  <1> SUFFICES ASSUME CkptInv, CkptInv', Next, kind = "history",
                      NEW b \in 0..MaxBlock, Mined(block, b)
               PROVE  GetAtBlock(checkpoints', b) = GetAtBlock(checkpoints, b)
    BY DEF GetAtBlock
  <1>1. /\ b \in Nat /\ b < block /\ ToUintFits(KeyBits, b)
        /\ ToUint(KeyBits, b) = b
    <2>1. b \in Nat /\ b < block /\ ToUintFits(KeyBits, b)
      BY DEF Mined
    <2> QED
      BY <2>1, KeyOfBlock
  <1>2. ASSUME NEW value \in Int, Push(value)
        PROVE  GetAtBlock(checkpoints', b) = GetAtBlock(checkpoints, b)
    <2>1. block \in Nat /\ ToUint(KeyBits, block) = block
      BY <1>2, KeyOfBlock DEF CkptInv, Push
    <2>2. PICK cut \in Nat : cut = ToUint(ValueBits, value)
      <3>1. ValueBits \in Nat
        BY WordAssumption, CheckpointsAssumption
      <3>2. UintCut(ValueBits, value) \in UintRange(ValueBits) /\ 2^ValueBits \in Nat
        BY <3>1, UintCast, PowerPositive
      <3> QED
        BY <3>2 DEF ToUint, UintRange
    <2>3. Inserts(checkpoints, block) /\ checkpoints' = Insert(checkpoints, block, cut)
      BY <1>2, <2>1, <2>2 DEF Push, PushAt
    <2>4. Ordered(checkpoints) /\ Ordered(checkpoints')
      <3>1. checkpoints' \in Seq(NatCheckpoint) => DOMAIN checkpoints' = 1..Len(checkpoints')
        OBVIOUS
      <3> QED
        BY <3>1, InvOrdered DEF CkptInv, KeysIncrease, Ordered
    <2>5. UpperLookup(checkpoints', b) = UpperLookup(checkpoints, b)
      BY <1>1, <2>1, <2>3, <2>4, PushKeepsPast
    <2> QED
      BY <1>1, <2>5 DEF GetAtBlock
  <1>3. ASSUME NEW delta \in 0..2^ValueBits, PushOp(delta)
        PROVE  GetAtBlock(checkpoints', b) = GetAtBlock(checkpoints, b)
    <2>1. delta \in Int
      <3>1. 2^ValueBits \in Nat
        BY WordAssumption, CheckpointsAssumption, PowerPositive
      <3> QED
        BY <3>1
    <2>2. Latest(checkpoints) \in Int
      BY LatestNat
    <2> QED
      BY <1>2, <1>3, <2>1, <2>2 DEF PushOp
  <1>4. ASSUME checkpoints' = checkpoints
        PROVE  GetAtBlock(checkpoints', b) = GetAtBlock(checkpoints, b)
    BY <1>4
  <1>5. ASSUME \E v : AddToSet(v) \/ RemoveFromSet(v) \/ RemoveFromMap(v) \/ \E k : SetInMap(k, v)
        PROVE  checkpoints' = checkpoints
    BY <1>5 DEF AddToSet, RemoveFromSet, RemoveFromMap, SetInMap, ckptVars
  <1>6. Mine => checkpoints' = checkpoints
    BY DEF Mine
  <1>7. ~ \E key, value : PushKey(key, value)
    BY DEF PushKey
  <1>8. \A value \in 0..2^ValueBits : value \in Int
    <2>1. 2^ValueBits \in Nat
      BY WordAssumption, CheckpointsAssumption, PowerPositive
    <2> QED
      BY <2>1
  <1> QED
    BY <1>2, <1>3, <1>4, <1>5, <1>6, <1>7, <1>8 DEF Next

\* Whatever is pushed, and in whatever block: what getAtBlock once answered for
\* a past block, it answers for ever.
THEOREM PastIsFixedHolds == Spec => PastIsFixed
  BY CkptInvariance, PastStep, PTL DEF Spec, PastIsFixed
===========================================================================
