------------------------------ MODULE OzMocks ------------------------------
(***************************************************************************)
(* The contracts with which the vendored OpenZeppelin library tests the    *)
(* structures it generates (scripts/generate/templates/*Mock.js): each has *)
(* one structure and a function for every operation on it.  kind says      *)
(* which of them is deployed.                                              *)
(***************************************************************************)
EXTENDS EnumerableMap, Checkpoints, FiniteSets

CONSTANT MaxBlock   \* bound of the model: blocks that are mined

VARIABLES
    kind,          \* of the contract that is deployed
    types,         \* of the keys and values of a map; key: of a set's values
    set,
    map,
    result,        \* of the last OperationResult event
    checkpoints,
    block,         \* block.number
    arg            \* of the call of a cast

setVars  == <<set, map, result>>
ckptVars == <<checkpoints, block>>
vars == <<kind, types, arg, setVars, ckptVars>>

SetTypes == [key : {"bytes32", "address", "uint256"}, value : {"none"}]
MapTypes == {[key |-> "uint256", value |-> "address"], [key |-> "address", value |-> "uint256"],
             [key |-> "bytes32", value |-> "bytes32"], [key |-> "uint256", value |-> "uint256"],
             [key |-> "bytes32", value |-> "uint256"]}

---------------------------------------------------------------------------
(* Enumerable...SetMock *)

AddToSet(v) ==
    /\ kind = "set"
    /\ set' = Add(types.key, set, v)
    /\ result' = ~ Contains(types.key, set, v)
    /\ UNCHANGED <<kind, types, map, arg, ckptVars>>

RemoveFromSet(v) ==
    /\ kind = "set"
    /\ set' = Remove(types.key, set, v)
    /\ result' = Contains(types.key, set, v)
    /\ UNCHANGED <<kind, types, map, arg, ckptVars>>

(* ...Map...Mock *)

SetInMap(k, v) ==
    /\ kind = "map"
    /\ map' = Set(types, map, k, v)
    /\ result' = ~ Has(types, map, k)
    /\ UNCHANGED <<kind, types, set, arg, ckptVars>>

RemoveFromMap(k) ==
    /\ kind = "map"
    /\ map' = Unset(types, map, k)
    /\ result' = Has(types, map, k)
    /\ UNCHANGED <<kind, types, set, arg, ckptVars>>

(* CheckpointsMock, and push with an operation, which Votes adds to it. *)

PushAt(key, value) ==
    /\ Inserts(checkpoints, key)
    /\ checkpoints' = Insert(checkpoints, key, value)
    /\ UNCHANGED <<kind, types, arg, setVars, block>>

Push(value) ==
    /\ kind = "history"
    /\ ToUintFits(KeyBits, block) /\ ToUintFits(ValueBits, value)
    /\ PushAt(ToUint(KeyBits, block), ToUint(ValueBits, value))

PushOp(delta) ==
    \/ Push(Latest(checkpoints) + delta)
    \/ Latest(checkpoints) >= delta /\ Push(Latest(checkpoints) - delta)

Mine ==
    /\ kind = "history" /\ block < MaxBlock
    /\ block' = block + 1
    /\ UNCHANGED <<kind, types, arg, setVars, checkpoints>>

(* Checkpoints...Mock *)

PushKey(key, value) ==
    /\ kind = "trace"
    /\ PushAt(key, value)

---------------------------------------------------------------------------
Init ==
    /\ \/ kind = "set" /\ types \in SetTypes /\ arg = 0
       \/ kind = "map" /\ types \in MapTypes /\ arg = 0
       \/ kind \in {"history", "trace"} /\ types \in SetTypes /\ types.key = "uint256" /\ arg = 0
       \/ /\ kind = "cast" /\ types \in SetTypes /\ types.key = "uint256"
          /\ arg \in UintRange(WordBits) \cup IntRange(WordBits)
    /\ set = EmptySet /\ map = EmptyMap /\ result = FALSE
    /\ checkpoints = <<>> /\ block = 0

Next ==
    \/ \E v \in OfType(types.key) : AddToSet(v) \/ RemoveFromSet(v) \/ RemoveFromMap(v)
    \/ \E k \in OfType(types.key), v \in OfType(types.value) : SetInMap(k, v)
    \/ \E value \in 0..2^ValueBits : Push(value) \/ PushOp(value)
    \/ \E key \in UintRange(KeyBits), value \in UintRange(ValueBits) : PushKey(key, value)
    \/ Mine

Spec == Init /\ [][Next]_vars

---------------------------------------------------------------------------
(* Properties.                                                             *)

\* The entries that at enumerates.
EnumeratedKeys ==
    IF kind = "set" THEN {At(types.key, set, i) : i \in 0..Length(set) - 1}
    ELSE {Entry(types, map, i)[1] : i \in 0..Size(map) - 1}
Entries == [k \in EnumeratedKeys |-> IF kind = "set" THEN 1 ELSE Get(types, map, k)]

Dict == INSTANCE Dictionary WITH
    KeySet <- Words, ValueSet <- Words \cup {1}, dict <- Entries, answer <- result

\* Through any number of insertions and removals, each of which may move the
\* last entry into a gap, what at enumerates is a dictionary, and add, set and
\* remove say truly whether they changed its keys.
RefinesDictionary == Dict!Spec

\* Every way to read a structure shows the same entries: none is enumerated
\* twice, and a value that is zero or was removed deceives neither tryGet nor get
\* (EnumerableSet.contains, length, values; EnumerableMap.tryGet, get, at).
ReadsAgree ==
    /\ kind = "set" =>
          /\ \A v \in OfType(types.key) : Contains(types.key, set, v) <=> v \in EnumeratedKeys
          /\ Length(set) = Cardinality(EnumeratedKeys)
          /\ {Values(set)[i] : i \in 1..Length(set)} = EnumeratedKeys
    /\ kind = "map" =>
          /\ \A k \in OfType(types.key) :
                /\ Has(types, map, k) <=> k \in EnumeratedKeys
                /\ Gets(types, map, k) <=> k \in EnumeratedKeys
                /\ TryGet(types, map, k) = IF k \in EnumeratedKeys THEN <<TRUE, Entries[k]>>
                                           ELSE <<FALSE, 0>>
          /\ Size(map) = Cardinality(EnumeratedKeys)
          /\ \A i \in 0..Size(map) - 1 :
                Entry(types, map, i)[2] = Entries[Entry(types, map, i)[1]]

\* The checkpoints are in the order of their keys, one for each key.
KeysIncrease ==
    \A i, j \in DOMAIN checkpoints : i < j => checkpoints[i].key < checkpoints[j].key

\* The value of the checkpoint of a key in keys that no other one exceeds.
AtTop(keys) ==
    LET best == {i \in DOMAIN checkpoints :
                     /\ checkpoints[i].key \in keys
                     /\ \A j \in DOMAIN checkpoints :
                           checkpoints[j].key \in keys => checkpoints[j].key <= checkpoints[i].key}
    IN  IF best = {} THEN 0 ELSE checkpoints[CHOOSE i \in best : TRUE].value

\* A binary search finds what reading all checkpoints would find, for every key
\* and every number of checkpoints, and so does the search that first looks among
\* the last sqrt(len) of them (upperLookup, lowerLookup, getAtBlock, latest,
\* getAtProbablyRecentBlock).
LookupsAgree ==
    \A key \in UintRange(KeyBits) :
        /\ UpperLookup(checkpoints, key) = AtTop(0..key)
        /\ LowerLookup(checkpoints, key) =
              LET above == {i \in DOMAIN checkpoints : checkpoints[i].key >= key}
              IN  IF above = {} THEN 0
                  ELSE checkpoints[CHOOSE i \in above : \A j \in above : i <= j].value
        /\ LatestCheckpoint(checkpoints)[2] <= key => Latest(checkpoints) = AtTop(0..key)
        /\ Mined(block, key) =>
              GetAtProbablyRecentBlock(checkpoints, key) = GetAtBlock(checkpoints, key)

\* What was once read for a block is never read otherwise: a value pushed later,
\* in whatever block, does not change the past (getAtBlock, push).
PastIsFixed ==
    [][ kind = "history" =>
        \A b \in 0..MaxBlock :
            Mined(block, b) => GetAtBlock(checkpoints, b)' = GetAtBlock(checkpoints, b) ]_vars

\* A cast succeeds exactly for the values of its type, and returns its argument.
CastsAreExact ==
    kind = "cast" =>
        /\ \A n \in 1..WordBits :
              /\ arg \in UintRange(WordBits) =>
                    /\ ToUintFits(n, arg) <=> arg \in UintRange(n)
                    /\ ToUintFits(n, arg) => ToUint(n, arg) = arg
              /\ arg \in IntRange(WordBits) =>
                    /\ ToIntFits(n, arg) <=> arg \in IntRange(n)
                    /\ ToIntFits(n, arg) => ToInt(n, arg) = arg
        /\ arg \in UintRange(WordBits) =>
              /\ ToIntWordFits(arg) <=> arg \in IntRange(WordBits)
              /\ ToIntWordFits(arg) => ToIntWord(arg) = arg
        /\ arg \in IntRange(WordBits) =>
              /\ ToUintWordFits(arg) <=> arg \in UintRange(WordBits)
              /\ ToUintWordFits(arg) => ToUintWord(arg) = arg
===========================================================================
