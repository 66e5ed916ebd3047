---------------------------- MODULE Checkpoints ----------------------------
(***************************************************************************)
(* The checkpoints of the vendored OpenZeppelin library, as its generator  *)
(* writes them (scripts/generate/templates/Checkpoints.js): values under   *)
(* keys that never decrease, and binary searches for a past value.  The    *)
(* keys of a History are block numbers, those of a Trace are the caller's. *)
(*                                                                         *)
(* Positions count from 0, as in the code.                                 *)
(***************************************************************************)
EXTENDS SafeCast, Sequences

CONSTANT ValueBits   \* bits of a value: 224, or 160 in Trace160

ASSUME CheckpointsAssumption == ValueBits \in 1..WordBits - 1

\* Bits of a key: what the value leaves of a word.
KeyBits == WordBits - ValueBits

Checkpoint == [key : UintRange(KeyBits), value : UintRange(ValueBits)]

\* _unsafeAccess, with a position inside the array.
Access(self, pos) == self[pos + 1]

\* Math.average and Math.sqrt
Average(a, b) == (a + b) \div 2
Root(n)       == CHOOSE r \in 0..n : r * r <= n /\ n < (r + 1) * (r + 1)

---------------------------------------------------------------------------
(* The searches. *)

\* The parts of an array, from a position to the one after the last.
Parts(self) == (0..Len(self)) \X (0..Len(self))

UpperBinaryLookup(self, key, low, high) ==
    LET search[part \in Parts(self)] ==
            LET l   == part[1]
                h   == part[2]
                mid == Average(l, h)
            IN  IF l >= h THEN h
                ELSE IF Access(self, mid).key > key THEN search[<<l, mid>>]
                                                    ELSE search[<<mid + 1, h>>]
    IN  search[<<low, high>>]

LowerBinaryLookup(self, key, low, high) ==
    LET search[part \in Parts(self)] ==
            LET l   == part[1]
                h   == part[2]
                mid == Average(l, h)
            IN  IF l >= h THEN h
                ELSE IF Access(self, mid).key < key THEN search[<<mid + 1, h>>]
                                                    ELSE search[<<l, mid>>]
    IN  search[<<low, high>>]

\* The value before position pos, zero at the beginning.
ValueBefore(self, pos) == IF pos = 0 THEN 0 ELSE Access(self, pos - 1).value

LowerLookup(self, key) ==
    LET pos == LowerBinaryLookup(self, key, 0, Len(self))
    IN  IF pos = Len(self) THEN 0 ELSE Access(self, pos).value

UpperLookupOfLower(self, key) ==   \* mutation: the other search
    ValueBefore(self, LowerBinaryLookup(self, key, 0, Len(self)))

UpperLookup(self, key) == ValueBefore(self, UpperBinaryLookup(self, key, 0, Len(self)))

Count(self) == Len(self)

Latest(self) == ValueBefore(self, Count(self))

LatestCheckpoint(self) ==
    IF self = <<>> THEN <<FALSE, 0, 0>>
    ELSE LET last == Access(self, Len(self) - 1) IN <<TRUE, last.key, last.value>>

---------------------------------------------------------------------------
(* History: block is block.number. *)

MinedUpToNow(block, blockNumber) ==   \* mutation: the current block may be read
    blockNumber <= block /\ ToUintFits(KeyBits, blockNumber)

\* The reads at blockNumber do not revert.
Mined(block, blockNumber) == blockNumber < block /\ ToUintFits(KeyBits, blockNumber)

GetAtBlock(self, blockNumber) == UpperLookup(self, ToUint(KeyBits, blockNumber))

\* Where to search for key: among the last sqrt(len) checkpoints or before them.
Recent(self, key) ==
    LET mid == Len(self) - Root(Len(self))
    IN  IF Len(self) <= 5 THEN <<0, Len(self)>>
        ELSE IF key < Access(self, mid).key THEN <<0, mid>> ELSE <<mid + 1, Len(self)>>

GetAtProbablyRecentBlock(self, blockNumber) ==
    LET key  == ToUint(KeyBits, blockNumber)
        part == Recent(self, key)
    IN  ValueBefore(self, UpperBinaryLookup(self, key, part[1], part[2]))

---------------------------------------------------------------------------
InsertsAlways(self, key) == TRUE   \* mutation: no "Checkpoint: invalid key"

\* "Checkpoint: invalid key"
Inserts(self, key) == self # <<>> => Access(self, Len(self) - 1).key <= key

\* _insert: a new checkpoint, or a new value for the last one.
Insert(self, key, value) ==
    LET ckpt == [key |-> key, value |-> value]
    IN  IF self # <<>> /\ Access(self, Len(self) - 1).key = key
        THEN [self EXCEPT ![Len(self)] = ckpt]
        ELSE Append(self, ckpt)
===========================================================================
