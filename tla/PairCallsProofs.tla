------------------------- MODULE PairCallsProofs --------------------------
(***************************************************************************)
(* A pair whose callers are called back, for any number of users, NFTs and *)
(* nested calls: its invariants hold at every moment at which foreign code *)
(* runs, and it implements a pair whose operations are atomic, because     *)
(* each step of PairCalls is one of Pair when the fractions that are       *)
(* burned for NFTs on their way are counted as if they were not burned.    *)
(***************************************************************************)
EXTENDS PairCalls, PairProofs, SequenceTheorems

\* The invariant of Pair, and a second Backed that counts what is burned and
\* not sent: Backed alone is not preserved when the next NFT is sent.
CallsInv == IInv /\ stack \in Seq(Frame) /\ BackedInCalls

\* What is shown of every step.
CallsStep == GoodStep /\ stack' \in Seq(Frame) /\ BackedInCalls'

---------------------------------------------------------------------------
(* The stack, and the NFTs that the calls on it are owed.                  *)

\* A token id array, and what is left when its first id is done.
LEMMA ArrayFacts ==
  ASSUME NEW ids \in Arrays
  PROVE  /\ ids \in Seq(NFTs) /\ Len(ids) \in Nat /\ Len(ids) <= MaxIds
         /\ ids # <<>> => /\ Len(ids) > 0
                          /\ Head(ids) \in NFTs
                          /\ Tail(ids) \in Arrays /\ Len(Tail(ids)) = Len(ids) - 1
         /\ ids = <<>> => Len(ids) = 0
  <1>1. PICK n \in 0..MaxIds : ids \in [1..n -> NFTs]
    BY DEF Arrays
  <1>2. n \in Nat /\ n <= MaxIds
    BY CallsAssumption
  <1>3. ids \in Seq(NFTs) /\ Len(ids) = n
    BY <1>1, <1>2, SeqDef, LenProperties
  <1>4. ASSUME ids # <<>>
        PROVE  /\ n > 0 /\ Head(ids) \in NFTs
               /\ Tail(ids) \in Arrays /\ Len(Tail(ids)) = n - 1
    <2>1. n > 0 /\ Head(ids) \in NFTs
      BY <1>3, <1>4, EmptySeq, HeadTailProperties
    <2>2. Tail(ids) \in Seq(NFTs) /\ Len(Tail(ids)) = n - 1
      BY <1>3, <1>4, HeadTailProperties
    <2>3. Tail(ids) \in [1..(n - 1) -> NFTs]
      BY <2>2, LenProperties
    <2>4. n - 1 \in 0..MaxIds
      BY <1>2, <2>1, CallsAssumption
    <2> QED
      BY <2>1, <2>2, <2>3, <2>4 DEF Arrays
  <1> QED
    BY <1>2, <1>3, <1>4, EmptySeq

\* What an array costs.
LEMMA ArrayFractionsNat ==
  ASSUME NEW ids \in Arrays
  PROVE  ArrayFractions(ids) \in Nat
  BY ArrayFacts, PairAssumption, ProductNat DEF ArrayFractions

\* A stack with a top.
LEMMA StackFacts ==
  ASSUME stack \in Seq(Frame)
  PROVE  /\ Len(stack) \in Nat
         /\ stack # <<>> =>
              /\ Len(stack) > 0
              /\ Top \in Frame /\ Top.ids \in Arrays \ {<<>>} /\ Top.caller \in Users
              /\ Below \in Seq(Frame) /\ Len(Below) = Len(stack) - 1
              /\ \A i \in 1..Len(Below) : Below[i] = stack[i]
  <1>1. Len(stack) \in Nat
    OBVIOUS
  <1>2. ASSUME stack # <<>>
        PROVE  /\ Len(stack) > 0
               /\ Top \in Frame /\ Top.ids \in Arrays \ {<<>>} /\ Top.caller \in Users
               /\ Below \in Seq(Frame) /\ Len(Below) = Len(stack) - 1
               /\ \A i \in 1..Len(Below) : Below[i] = stack[i]
    <2>1. Len(stack) > 0
      BY <1>2, EmptySeq
    <2>2. Top \in Frame
      BY <2>1, ElementOfSeq DEF Top
    <2>3. Top.ids \in Arrays \ {<<>>} /\ Top.caller \in Users
      BY <2>2 DEF Frame
    <2>4. /\ Below \in Seq(Frame) /\ Len(Below) = Len(stack) - 1
          /\ \A i \in 1..Len(Below) : Below[i] = stack[i]
      <3>1. PICK n \in Nat : n = Len(stack) - 1 /\ Below = SubSeq(stack, 1, n)
        BY <1>1, <2>1 DEF Below
      <3>2. \A i \in 1..n : stack[i] \in Frame
        BY <3>1, ElementOfSeq
      <3>3. /\ SubSeq(stack, 1, n) \in Seq(Frame)
            /\ Len(SubSeq(stack, 1, n)) = IF 1 <= n THEN n - 1 + 1 ELSE 0
            /\ \A i \in 1..n - 1 + 1 : SubSeq(stack, 1, n)[i] = stack[1 + i - 1]
        BY <3>2, SubSeqProperties
      <3>4. Len(SubSeq(stack, 1, n)) = n
        BY <3>3
      <3>5. \A i \in 1..n : SubSeq(stack, 1, n)[i] = stack[i]
        BY <3>3
      <3> QED
        BY <3>1, <3>3, <3>4, <3>5
    <2> QED
      BY <2>1, <2>2, <2>3, <2>4
  <1> QED
    BY <1>1, <1>2

\* What an interrupted call leaves on the stack.
LEMMA InterruptFacts ==
  ASSUME NEW rest \in Seq(Frame), NEW u \in Users, NEW ids \in Arrays,
         NEW stage \in Stages, Interrupt(rest, u, ids, stage)
  PROVE  /\ stack' \in Seq(Frame)
         /\ ids = <<>> => stack' = rest
         /\ ids # <<>> => /\ Len(stack') = Len(rest) + 1
                          /\ \A i \in 1..Len(rest) : stack'[i] = rest[i]
                          /\ stack'[Len(rest) + 1].ids = ids
                          /\ stack'[Len(rest) + 1].stage = stage
                          /\ stack'[Len(rest) + 1].caller = u
  <1>1. ids = <<>> => stack' = rest
    BY DEF Interrupt
  <1>2. ASSUME ids # <<>>
        PROVE  /\ stack' \in Seq(Frame)
               /\ Len(stack') = Len(rest) + 1
               /\ \A i \in 1..Len(rest) : stack'[i] = rest[i]
               /\ stack'[Len(rest) + 1].ids = ids
               /\ stack'[Len(rest) + 1].stage = stage
               /\ stack'[Len(rest) + 1].caller = u
    <2> DEFINE f == [caller |-> u, ids |-> ids, stage |-> stage]
    <2>1. f \in Frame /\ f.ids = ids /\ f.stage = stage /\ f.caller = u
      BY <1>2 DEF Frame
    <2>2. stack' = Append(rest, f)
      BY <1>2 DEF Interrupt
    <2> HIDE DEF f
    <2>3. /\ Append(rest, f) \in Seq(Frame)
          /\ Len(Append(rest, f)) = Len(rest) + 1
          /\ \A i \in 1..Len(rest) : Append(rest, f)[i] = rest[i]
          /\ Append(rest, f)[Len(rest) + 1] = f
      BY <2>1, AppendProperties
    <2> QED
      BY <2>1, <2>2, <2>3
  <1> QED
    BY <1>1, <1>2

\* Finitely many transfers are owed.
LEMMA DebtsFinite ==
  ASSUME stack \in Seq(Frame)
  PROVE  IsFiniteSet(Debts) /\ Cardinality(Debts) \in Nat
  <1>1. IsFiniteSet(1..Len(stack)) /\ IsFiniteSet(1..MaxIds)
    BY FS_Interval, CallsAssumption
  <1>2. IsFiniteSet((1..Len(stack)) \X (1..MaxIds))
    <2> DEFINE calls == 1..Len(stack)
               places == 1..MaxIds
    <2> HIDE DEF calls, places
    <2> QED
      BY <1>1, FS_Product DEF calls, places
  <1>3. Debts \subseteq (1..Len(stack)) \X (1..MaxIds)
    BY DEF Debts
  <1> QED
    BY <1>2, <1>3, FS_Subset, FS_CardinalityType

\* A call interrupted before its unwrap is owed nothing.
LEMMA NothingOwedBefore ==
  ASSUME stack \in Seq(Frame), NEW u \in Users, NEW ids \in Arrays,
         NEW stage \in Stages \ {"sending"}, Interrupt(stack, u, ids, stage)
  PROVE  Debts' = Debts
  <1>1. /\ Len(stack) \in Nat
        /\ ids = <<>> => stack' = stack
        /\ ids # <<>> => /\ Len(stack') = Len(stack) + 1
                         /\ \A i \in 1..Len(stack) : stack'[i] = stack[i]
                         /\ stack'[Len(stack) + 1].stage = stage
    BY InterruptFacts, StackFacts
  <1>2. CASE ids = <<>>
    BY <1>1, <1>2 DEF Debts
  <1>3. CASE ids # <<>>
    <2>1. PICK k \in Nat : k = Len(stack)
      BY <1>1
    <2>2. /\ Len(stack') = k + 1 /\ stack'[k + 1].stage # "sending"
          /\ \A i \in 1..k : stack'[i] = stack[i]
      BY <1>1, <1>3, <2>1
    <2> QED
      BY <2>1, <2>2, SMTT(20) DEF Debts
  <1> QED
    BY <1>2, <1>3

\* Sets that have nothing in common are counted one after the other.
LEMMA CountTogether ==
  ASSUME NEW S, IsFiniteSet(S), NEW T, IsFiniteSet(T), S \cap T = {}
  PROVE  /\ Cardinality(S) \in Nat /\ Cardinality(T) \in Nat
         /\ Cardinality(S \cup T) = Cardinality(S) + Cardinality(T)
  <1>1. Cardinality(S \cup T) = Cardinality(S) + Cardinality(T) - Cardinality(S \cap T)
    BY FS_Union
  <1>2. Cardinality(S \cap T) = 0
    BY FS_EmptySet
  <1> QED
    BY <1>1, <1>2, FS_CardinalityType

\* unwrap, when it starts: all transfers but the first are owed.
LEMMA OwedAtStart ==
  ASSUME stack \in Seq(Frame), NEW rest \in Seq(Frame),
         NEW u \in Users, NEW ids \in Arrays \ {<<>>},
         Interrupt(rest, u, Tail(ids), "sending"),
         \/ rest = stack
         \/ stack # <<>> /\ rest = Below /\ Top.stage # "sending"
  PROVE  /\ stack' \in Seq(Frame)
         /\ Cardinality(Debts') = Cardinality(Debts) + Len(ids) - 1
         /\ \A a \in Accounts :
                Cardinality(DebtsTo(a)') = IF a = u
                    THEN Cardinality(DebtsTo(a)) + Len(ids) - 1
                    ELSE Cardinality(DebtsTo(a))
  <1> DEFINE left   == Tail(ids)
             k      == Len(rest) + 1
             places == 1..Len(left)
             new    == {k} \X places
  <1>1. /\ left \in Arrays /\ "sending" \in Stages
        /\ Len(left) = Len(ids) - 1 /\ Len(ids) \in Nat
        /\ Len(left) \in Nat /\ Len(left) <= MaxIds /\ MaxIds \in Nat
        /\ left = <<>> => Len(left) = 0
    BY ArrayFacts, CallsAssumption DEF Stages
  <1>2. /\ stack' \in Seq(Frame)
        /\ left = <<>> => stack' = rest
        /\ left # <<>> => /\ Len(stack') = k
                          /\ \A i \in 1..Len(rest) : stack'[i] = rest[i]
                          /\ stack'[k].ids = left
                          /\ stack'[k].stage = "sending"
                          /\ stack'[k].caller = u
    BY <1>1, InterruptFacts
  <1>3. Len(rest) \in Nat /\ Len(stack) \in Nat
    OBVIOUS
  <1>4. Debts = {d \in (1..Len(rest)) \X (1..MaxIds) :
                    rest[d[1]].stage = "sending" /\ d[2] <= Len(rest[d[1]].ids)}
    <2>1. CASE rest = stack
      BY <2>1 DEF Debts
    <2>2. CASE stack # <<>> /\ rest = Below /\ Top.stage # "sending"
      <3>1. /\ Len(rest) = Len(stack) - 1
            /\ \A i \in 1..Len(rest) : rest[i] = stack[i]
        BY <2>2, StackFacts
      <3>2. stack[Len(stack)].stage # "sending"
        BY <2>2 DEF Top
      <3> QED
        BY <1>3, <3>1, <3>2, SMTT(20) DEF Debts
    <2> QED
      BY <2>1, <2>2
  <1>5. Debts' = Debts \cup new /\ Debts \cap new = {}
    <2>1. CASE left = <<>>
      BY <1>2, <1>3, <1>4, <2>1 DEF Debts
    <2>2. CASE left # <<>>
      <3>1. /\ Len(stack') = Len(rest) + 1 /\ stack'[k].stage = "sending"
            /\ Len(stack'[k].ids) = Len(left)
        <4> HIDE DEF left, k
        <4>1. Len(stack') = k /\ stack'[k].stage = "sending" /\ stack'[k].ids = left
          BY <1>2, <2>2
        <4> QED
          BY <4>1 DEF k
      <3>2. \A i \in 1..Len(rest) : stack'[i] = rest[i]
        BY <1>2, <2>2
      <3>3. PICK m \in Nat : m = Len(left) /\ m <= MaxIds
        BY <1>1
      <3>4. ASSUME NEW i \in 1..(Len(rest) + 1), NEW n \in 1..MaxIds
            PROVE  /\ <<i, n>> \in Debts' <=> <<i, n>> \in Debts \cup new
                   /\ ~ (<<i, n>> \in Debts /\ <<i, n>> \in new)
        <4>1. CASE i = k
          <5>1. <<i, n>> \in Debts' <=> n <= m
            BY <3>1, <3>3, <4>1 DEF Debts
          <5>2. <<i, n>> \notin Debts
            BY <1>3, <1>4, <4>1
          <5>3. <<i, n>> \in new <=> n <= m
            BY <1>1, <3>3, <4>1
          <5> QED
            BY <5>1, <5>2, <5>3
        <4>2. CASE i # k
          <5>1. i \in 1..Len(rest) /\ stack'[i] = rest[i] /\ <<i, n>> \notin new
            BY <1>3, <3>2, <4>2
          <5>2. <<i, n>> \in Debts' <=> <<i, n>> \in Debts
            BY <1>3, <1>4, <3>1, <5>1 DEF Debts
          <5> QED
            BY <5>1, <5>2
        <4> QED
          BY <4>1, <4>2
      <3> DEFINE all == (1..(Len(rest) + 1)) \X (1..MaxIds)
      <3>5. Debts' \subseteq all
        BY <3>1 DEF Debts
      <3>6. Debts \subseteq all
        BY <1>3, <1>4
      <3>7. new \subseteq all
        <4>1. places \subseteq 1..MaxIds /\ k \in 1..(Len(rest) + 1)
          BY <1>1, <1>3, <3>3
        <4> HIDE DEF places, k
        <4> QED
          BY <4>1
      <3> HIDE DEF new
      <3> QED
        BY <3>4, <3>5, <3>6, <3>7
    <2> QED
      BY <2>1, <2>2
  <1>6. IsFiniteSet(places) /\ Cardinality(places) = Len(ids) - 1
    <2>1. PICK m \in Nat : m = Len(left) /\ m = Len(ids) - 1
      BY <1>1
    <2>2. IsFiniteSet(1..m) /\ Cardinality(1..m) = m
      <3>1. PICK a \in Int, b \in Int : a = 1 /\ b = m
        OBVIOUS
      <3>2. IsFiniteSet(a..b) /\ Cardinality(a..b) = IF a > b THEN 0 ELSE b - a + 1
        BY FS_Interval
      <3> QED
        BY <3>1, <3>2
    <2> QED
      BY <2>1, <2>2
  <1>7. IsFiniteSet(new) /\ Cardinality(new) = Cardinality(places)
    <2>1. IsFiniteSet({k}) /\ Cardinality({k}) = 1
      BY FS_Singleton
    <2>2. Cardinality(places) \in Nat
      BY <1>6, FS_CardinalityType
    <2> DEFINE call == {k}
    <2> HIDE DEF places, call
    <2>3. /\ IsFiniteSet(call \X places)
          /\ Cardinality(call \X places) = Cardinality(call) * Cardinality(places)
      BY <1>6, <2>1, FS_Product DEF call
    <2> QED
      BY <2>1, <2>2, <2>3 DEF call
  <1>8. Cardinality(Debts \cup new) = Cardinality(Debts) + Cardinality(new)
    BY <1>5, <1>7, DebtsFinite, CountTogether
  <1>9. /\ IsFiniteSet(Debts) /\ Cardinality(Debts) \in Nat /\ Len(ids) \in Nat
    BY <1>1, DebtsFinite
  <1>10. ASSUME NEW a \in Accounts
         PROVE  /\ DebtsTo(a)' = IF a = u THEN DebtsTo(a) \cup new ELSE DebtsTo(a)
                /\ DebtsTo(a) \cap new = {}
    <2>1. \A d \in Debts : stack'[d[1]].caller = stack[d[1]].caller
      <3>1. \A i \in 1..Len(rest) : rest[i] = stack[i]
        BY StackFacts
      <3>2. \A i \in 1..Len(rest) : stack'[i] = rest[i]
        BY <1>2
      <3> QED
        BY <1>4, <3>1, <3>2
    <2>2. \A d \in new : stack'[d[1]].caller = u
      <3>1. left = <<>> => new = {}
        BY <1>1
      <3>2. \A d \in new : d[1] = k
        OBVIOUS
      <3> HIDE DEF new, left, k
      <3> QED
        BY <1>2, <3>1, <3>2
    <2> HIDE DEF new
    <2> QED
      BY <1>5, <2>1, <2>2 DEF DebtsTo
  <1>11. ASSUME NEW a \in Accounts
         PROVE  /\ Cardinality(DebtsTo(a)) \in Nat
                /\ Cardinality(DebtsTo(a) \cup new) = Cardinality(DebtsTo(a)) + Cardinality(new)
    <2>1. IsFiniteSet(DebtsTo(a))
      BY <1>9, FS_Subset DEF DebtsTo
    <2> QED
      BY <1>7, <1>10, <2>1, CountTogether
  <1> HIDE DEF new, places, left
  <1>12. ASSUME NEW a \in Accounts
         PROVE  Cardinality(DebtsTo(a)') = IF a = u
                    THEN Cardinality(DebtsTo(a)) + Len(ids) - 1
                    ELSE Cardinality(DebtsTo(a))
    BY <1>6, <1>7, <1>9, <1>10, <1>11
  <1> QED
    BY <1>2, <1>5, <1>6, <1>7, <1>8, <1>9, <1>12

\* unwrap, in its loop: one transfer less is owed.
LEMMA OwedInLoop ==
  ASSUME stack \in Seq(Frame), stack # <<>>, Top.stage = "sending",
         Interrupt(Below, Top.caller, Tail(Top.ids), "sending")
  PROVE  /\ stack' \in Seq(Frame)
         /\ Cardinality(Debts') = Cardinality(Debts) - 1
         /\ Cardinality(Debts) > 0
         /\ Cardinality(DebtsTo(Top.caller)) \in Nat \ {0}
         /\ \A a \in Accounts :
                Cardinality(DebtsTo(a)') = IF a = Top.caller
                    THEN Cardinality(DebtsTo(a)) - 1 ELSE Cardinality(DebtsTo(a))
  <1> DEFINE left == Tail(Top.ids)
             k    == Len(stack)
             paid == <<k, Len(Top.ids)>>
  <1>1. /\ k \in Nat /\ k > 0 /\ Len(Below) = k - 1
        /\ Top.ids \in Arrays /\ Top.caller \in Users
        /\ Below \in Seq(Frame)
        /\ \A i \in 1..Len(Below) : Below[i] = stack[i]
        /\ stack[k].stage = "sending" /\ stack[k].ids = Top.ids
        /\ left \in Arrays /\ "sending" \in Stages
        /\ Len(left) = Len(Top.ids) - 1 /\ Len(Top.ids) \in Nat
        /\ Len(Top.ids) > 0 /\ Len(Top.ids) <= MaxIds /\ MaxIds \in Nat
        /\ left = <<>> => Len(left) = 0
    <2>1. Top.ids \in Arrays \ {<<>>} /\ stack[k].ids = Top.ids
      BY StackFacts DEF Top
    <2>2. /\ left \in Arrays /\ Len(left) = Len(Top.ids) - 1 /\ Len(Top.ids) \in Nat
          /\ Len(Top.ids) > 0 /\ Len(Top.ids) <= MaxIds
      BY <2>1, ArrayFacts
    <2>3. left = <<>> => Len(left) = 0
      BY <2>2, ArrayFacts
    <2> QED
      BY <2>1, <2>2, <2>3, StackFacts, CallsAssumption DEF Top, Stages
  <1>2. /\ stack' \in Seq(Frame)
        /\ left = <<>> => stack' = Below
        /\ left # <<>> => /\ Len(stack') = Len(Below) + 1
                          /\ \A i \in 1..Len(Below) : stack'[i] = Below[i]
                          /\ stack'[Len(Below) + 1].ids = left
                          /\ stack'[Len(Below) + 1].stage = "sending"
                          /\ stack'[Len(Below) + 1].caller = Top.caller
    <2>1. PICK u \in Users : u = Top.caller
      BY <1>1
    <2>2. Interrupt(Below, u, left, "sending")
      BY <2>1
    <2> HIDE DEF left
    <2> QED
      BY <1>1, <2>1, <2>2, InterruptFacts
  <1>3. /\ left # <<>> => /\ Len(stack') = k
                          /\ \A i \in 1..(k - 1) : stack'[i] = stack[i]
                          /\ stack'[k].ids = left
                          /\ stack'[k].stage = "sending"
                          /\ stack'[k].caller = Top.caller
        /\ left = <<>> => /\ Len(stack') = k - 1
                          /\ \A i \in 1..(k - 1) : stack'[i] = stack[i]
    <2>1. Len(Below) + 1 = k
      BY <1>1
    <2> HIDE DEF left
    <2> QED
      BY <1>1, <1>2, <2>1
  <1>4. paid \in Debts
    <2>1. paid \in (1..Len(stack)) \X (1..MaxIds) /\ paid[1] = k /\ paid[2] = Len(Top.ids)
      BY <1>1
    <2>2. stack[k].stage = "sending" /\ Len(Top.ids) <= Len(stack[k].ids)
      BY <1>1
    <2> HIDE DEF k, left, paid
    <2> QED
      BY <2>1, <2>2 DEF Debts
  <1>5. Debts' = Debts \ {paid}
    <2>1. CASE left = <<>>
      <3>1. Len(stack') = k - 1 /\ \A i \in 1..(k - 1) : stack'[i] = stack[i]
        BY <1>3, <2>1
      <3>2. Len(Top.ids) = 1
        BY <1>1, <2>1
      <3>3. ASSUME NEW i \in 1..k, NEW n \in 1..MaxIds
            PROVE  <<i, n>> \in Debts' <=> <<i, n>> \in Debts \ {paid}
        <4>1. CASE i = k
          <5>1. <<i, n>> \notin Debts'
            BY <1>1, <3>1, <4>1 DEF Debts
          <5>2. <<i, n>> \in Debts <=> n = 1
            <6>1. stack[i].stage = "sending" /\ Len(stack[i].ids) = 1 /\ i \in 1..Len(stack)
              BY <1>1, <3>2, <4>1
            <6>2. <<i, n>> \in Debts <=> n <= 1
              BY <6>1 DEF Debts
            <6> QED
              BY <6>2
          <5>3. <<i, n>> = paid <=> n = 1
            BY <3>2, <4>1
          <5> QED
            BY <5>1, <5>2, <5>3
        <4>2. CASE i # k
          <5>1. i \in 1..(k - 1) /\ stack'[i] = stack[i]
            BY <1>1, <3>1, <4>2
          <5> QED
            BY <1>1, <3>1, <4>2, <5>1 DEF Debts
        <4> QED
          BY <4>1, <4>2
      <3> QED
        <4>1. Debts \subseteq (1..k) \X (1..MaxIds)
          BY DEF Debts
        <4>2. Debts' \subseteq (1..k) \X (1..MaxIds)
          <5>1. Len(stack') = k - 1 /\ k \in Nat
            BY <1>1, <3>1
          <5> HIDE DEF k
          <5> QED
            BY <5>1 DEF Debts
        <4> QED
          BY <3>3, <4>1, <4>2
    <2>2. CASE left # <<>>
      <3>1. /\ stack'[k].stage = "sending" /\ Len(stack') = k
            /\ Len(stack'[k].ids) = Len(left)
        <4> HIDE DEF left, k
        <4>1. Len(stack') = k /\ stack'[k].stage = "sending" /\ stack'[k].ids = left
          BY <1>3, <2>2
        <4> QED
          BY <4>1
      <3>2. ASSUME NEW i \in 1..k, NEW n \in 1..MaxIds
            PROVE  <<i, n>> \in Debts' <=> <<i, n>> \in Debts \ {paid}
        <4>1. CASE i = k
          <5>1. PICK m \in Nat : Len(left) = m /\ Len(Top.ids) = m + 1
            <6>1. Len(Top.ids) \in Nat /\ Len(Top.ids) > 0 /\ Len(left) = Len(Top.ids) - 1
              BY <1>1
            <6> HIDE DEF left
            <6>2. Len(left) \in Nat /\ Len(Top.ids) = Len(left) + 1
              BY <6>1
            <6> QED
              BY <6>2
          <5>2. <<i, n>> \in Debts' <=> n <= m
            BY <3>1, <4>1, <5>1 DEF Debts
          <5>3. <<i, n>> \in Debts <=> n <= m + 1
            BY <1>1, <4>1, <5>1 DEF Debts
          <5>4. <<i, n>> = paid <=> n = m + 1
            BY <4>1, <5>1
          <5> QED
            BY <5>1, <5>2, <5>3, <5>4
        <4>2. CASE i # k
          <5>1. stack'[i] = stack[i]
            BY <1>1, <1>3, <2>2, <4>2
          <5> QED
            BY <1>1, <3>1, <4>2, <5>1 DEF Debts
        <4> QED
          BY <4>1, <4>2
      <3> QED
        BY <3>1, <3>2 DEF Debts
    <2> QED
      BY <2>1, <2>2
  <1>6. IsFiniteSet(Debts) /\ Cardinality(Debts) \in Nat
    BY DebtsFinite
  <1>7. Cardinality(Debts \ {paid}) = Cardinality(Debts) - 1
        /\ IsFiniteSet(Debts \ {paid})
    <2> HIDE DEF paid
    <2> QED
      BY <1>4, <1>6, FS_RemoveElement
  <1>8. Cardinality(Debts \ {paid}) \in Nat
    BY <1>7, FS_CardinalityType
  <1>9. paid \in DebtsTo(Top.caller)
    BY <1>4 DEF DebtsTo, Top
  <1>10. ASSUME NEW a \in Accounts
         PROVE  DebtsTo(a)' = IF a = Top.caller THEN DebtsTo(a) \ {paid} ELSE DebtsTo(a)
    <2>1. \A d \in Debts' : stack'[d[1]].caller = stack[d[1]].caller
      <3>1. \A i \in 1..Len(stack') : stack'[i].caller = stack[i].caller
        <4> HIDE DEF left
        <4>1. CASE left = <<>>
          BY <1>1, <1>3, <4>1
        <4>2. CASE left # <<>>
          <5>1. Len(stack') = k /\ stack'[k].caller = stack[k].caller
            BY <1>3, <4>2 DEF Top
          <5>2. \A i \in 1..(k - 1) : stack'[i].caller = stack[i].caller
            BY <1>3, <4>2
          <5> QED
            BY <1>1, <5>1, <5>2
        <4> QED
          BY <4>1, <4>2
      <3> QED
        BY <3>1 DEF Debts
    <2> HIDE DEF paid
    <2> QED
      BY <1>5, <1>9, <2>1 DEF DebtsTo
  <1>11. ASSUME NEW a \in Accounts
         PROVE  /\ IsFiniteSet(DebtsTo(a)) /\ Cardinality(DebtsTo(a)) \in Nat
                /\ paid \in DebtsTo(a) =>
                     /\ Cardinality(DebtsTo(a) \ {paid}) = Cardinality(DebtsTo(a)) - 1
                     /\ Cardinality(DebtsTo(a) \ {paid}) \in Nat
    <2> HIDE DEF paid
    <2>1. IsFiniteSet(DebtsTo(a)) /\ Cardinality(DebtsTo(a)) \in Nat
      BY <1>6, FS_Subset, FS_CardinalityType DEF DebtsTo
    <2>2. ASSUME paid \in DebtsTo(a)
          PROVE  /\ IsFiniteSet(DebtsTo(a) \ {paid})
                 /\ Cardinality(DebtsTo(a) \ {paid}) = Cardinality(DebtsTo(a)) - 1
      BY <2>1, <2>2, FS_RemoveElement
    <2> QED
      BY <2>1, <2>2, FS_CardinalityType
  <1>12. Top.caller \in Accounts
    BY <1>1, AccountsFinite
  <1> HIDE DEF paid
  <1>13. ASSUME NEW a \in Accounts
         PROVE  Cardinality(DebtsTo(a)') = IF a = Top.caller
                    THEN Cardinality(DebtsTo(a)) - 1 ELSE Cardinality(DebtsTo(a))
    BY <1>9, <1>10, <1>11
  <1>14. Cardinality(DebtsTo(Top.caller)) \in Nat \ {0}
    <2>1. PICK c \in Nat : c = Cardinality(DebtsTo(Top.caller)) /\ c - 1 \in Nat
      <3>1. /\ Cardinality(DebtsTo(Top.caller)) \in Nat
            /\ Cardinality(DebtsTo(Top.caller) \ {paid}) \in Nat
            /\ Cardinality(DebtsTo(Top.caller) \ {paid})
                   = Cardinality(DebtsTo(Top.caller)) - 1
        BY <1>9, <1>11, <1>12
      <3> QED
        BY <3>1
    <2> QED
      BY <2>1
  <1> QED
    BY <1>2, <1>5, <1>6, <1>7, <1>8, <1>13, <1>14

---------------------------------------------------------------------------
(* The backing, and what is owed.                                          *)

\* A call that nothing interrupts leaves what is owed alone.
LEMMA BackedAfterWrap ==
  ASSUME CallsInv, NEW u \in Users, NEW ids \in SUBSET NFTs, WrapNfts(u, ids),
         UNCHANGED stack
  PROVE  BackedInCalls'
  <1> USE DEF CallsInv, IInv
  <1>1. /\ totalSupply' = totalSupply + Fractions(ids)
        /\ Held' = Held \cup ids /\ Held \cap ids = {}
        /\ closeTimestamp = 0
    BY WrapFacts
  <1>2. Debts' = Debts
    BY DEF Debts
  <1>3. PICK h \in Nat, n \in Nat :
          /\ h = Cardinality(Held) /\ n = Cardinality(ids)
          /\ IsFiniteSet(Held) /\ IsFiniteSet(ids)
    BY FractionsNat DEF Held
  <1>4. Cardinality(Held') = h + n
    <2>1. Cardinality(Held \cup ids)
             = Cardinality(Held) + Cardinality(ids) - Cardinality(Held \cap ids)
      BY <1>3, FS_Union
    <2>2. Cardinality(Held \cap ids) = 0
      BY <1>1, FS_EmptySet
    <2> QED
      BY <1>1, <1>3, <2>1, <2>2
  <1>5. PICK o \in Nat : o = ONE * Cardinality(Debts)
    BY DebtsFinite, PairAssumption, ProductNat
  <1>6. totalSupply + o <= ONE * h
    BY <1>1, <1>3, <1>5 DEF BackedInCalls
  <1>7. totalSupply' = totalSupply + ONE * n /\ ONE * n \in Nat /\ ONE * h \in Nat
    BY <1>1, <1>3, PairAssumption, ProductNat DEF Fractions
  <1>8. totalSupply' + o <= ONE * h + ONE * n
    BY <1>5, <1>6, <1>7, SMTT(20) DEF TypesNat
  <1>9. ONE * h + ONE * n = ONE * (h + n)
    BY UnitsAdd
  <1> QED
    BY <1>2, <1>4, <1>5, <1>8, <1>9 DEF BackedInCalls

\* Everything else adds to what is held, or nothing.
LEMMA BackedAfterOther ==
  ASSUME CallsInv, Debts' = Debts, Held \subseteq Held', UNCHANGED totalSupply,
         closeTimestamp' = closeTimestamp \/ closeTimestamp = 0,
         now' >= now, now' \in Nat
  PROVE  BackedInCalls'
  <1> USE DEF CallsInv, IInv
  <1>1. PICK h \in Nat, h1 \in Nat :
          h = Cardinality(Held) /\ h1 = Cardinality(Held') /\ h <= h1
    <2>1. Held' \in SUBSET NFTs /\ Held \in SUBSET NFTs
      BY DEF Held
    <2>2. IsFiniteSet(Held') /\ Cardinality(Held') \in Nat /\ Cardinality(Held) \in Nat
      BY <2>1, FractionsNat
    <2> QED
      BY <2>2, FS_Subset
  <1>2. PICK o \in Nat : o = ONE * Cardinality(Debts)
    BY DebtsFinite, PairAssumption, ProductNat
  <1>3. ONE * h <= ONE * h1 /\ ONE * h \in Nat /\ ONE * h1 \in Nat
    BY <1>1, ProductMono, ProductNat, PairAssumption
  <1>4. totalSupply + o <= ONE * h => totalSupply' + o <= ONE * h1
    BY <1>3 DEF TypesNat
  <1>5. (closeTimestamp' = 0 \/ now' < closeTimestamp')
            => closeTimestamp = 0 \/ now < closeTimestamp
    BY DEF TypesNat
  <1> QED
    BY <1>1, <1>2, <1>4, <1>5 DEF BackedInCalls

\* What is shown of each NFT that is sent: ONE less is in circulation or owed.
Sending(id, to) ==
  /\ id \in NFTs /\ to \in Users /\ ownerOf[id] = PAIR
  /\ ownerOf' = [ownerOf EXCEPT ![id] = to]
  /\ UNCHANGED <<lpToken, baseOf, lifecycle>>
  /\ balanceOf' \in [Accounts -> Nat] /\ Total(balanceOf') = totalSupply'
  /\ balanceOf'[PAIR] = balanceOf[PAIR] /\ totalSupply' \in 0..MaxUint
  /\ stack' \in Seq(Frame)
  /\ totalSupply' + ONE * Cardinality(Debts') + ONE
         = totalSupply + ONE * Cardinality(Debts)

\* It keeps what is left backed.
LEMMA BackedAfterSending ==
  ASSUME CallsInv, NEW id, NEW to, Sending(id, to)
  PROVE  CallsStep
  <1> USE DEF CallsInv, IInv, Sending
  <1>1. Held' = Held \ {id} /\ id \in Held /\ ownerOf' \in [NFTs -> Accounts]
    BY AccountsFinite DEF Held, TypesNat
  <1>2. PICK r \in Nat : r = Cardinality(Held') /\ Cardinality(Held) = r + 1
    <2>1. IsFiniteSet(Held) /\ Cardinality(Held) \in Nat
      BY FractionsNat DEF Held
    <2>2. IsFiniteSet(Held \ {id}) /\ Cardinality(Held \ {id}) = Cardinality(Held) - 1
      BY <1>1, <2>1, FS_RemoveElement
    <2>3. Cardinality(Held \ {id}) \in Nat
      BY <2>2, FS_CardinalityType
    <2> QED
      BY <1>1, <2>1, <2>2, <2>3
  <1>3. PICK o \in Nat, o1 \in Nat :
          /\ o = ONE * Cardinality(Debts)
          /\ o1 = ONE * Cardinality(Debts')
    <2>1. Cardinality(Debts) \in Nat
      BY DebtsFinite
    <2>2. Cardinality(Debts') \in Nat
      <3>1. IsFiniteSet(1..Len(stack')) /\ IsFiniteSet(1..MaxIds)
        BY FS_Interval, CallsAssumption
      <3>2. IsFiniteSet((1..Len(stack')) \X (1..MaxIds))
        <4> DEFINE calls == 1..Len(stack')
                   places == 1..MaxIds
        <4> HIDE DEF calls, places
        <4> QED
          BY <3>1, FS_Product DEF calls, places
      <3>3. Debts' \subseteq (1..Len(stack')) \X (1..MaxIds)
        BY DEF Debts
      <3> QED
        BY <3>2, <3>3, FS_Subset, FS_CardinalityType
    <2> QED
      BY <2>1, <2>2, PairAssumption, ProductNat
  <1>4. ONE * (r + 1) = ONE * r + ONE
    BY PairAssumption
  <1>5. ONE * r \in Nat /\ ONE \in Nat
    BY PairAssumption, ProductNat
  <1>6. totalSupply + o <= ONE * (r + 1) => totalSupply' + o1 <= ONE * r
    BY <1>3, <1>4, <1>5, SMTT(20) DEF TypesNat
  <1>7. totalSupply + o <= ONE * (r + 1) => totalSupply' <= ONE * r
    BY <1>3, <1>5, <1>6, SMTT(20) DEF TypesNat
  <1>8. closeTimestamp' = closeTimestamp /\ now' = now
    BY DEF lifecycle
  <1>9. BackedInCalls' /\ Backed'
    BY <1>2, <1>3, <1>6, <1>7, <1>8 DEF BackedInCalls, Backed
  <1>10. PoolStep
    BY AccountsFinite, PoolNat, PoolGift
    DEF FractionalTokenReserves, BaseReserves, lpToken
  <1>11. TypesNat' /\ LedgersAddUp' /\ ListedWhileOpen'
    BY <1>1 DEF TypesNat, LedgersAddUp, ListedWhileOpen, lifecycle, lpToken
  <1> QED
    BY <1>9, <1>10, <1>11 DEF CallsStep, GoodStep, PoolStep

---------------------------------------------------------------------------
(* The steps.                                                              *)

\* unwrap, from its burn to its first callback: all is paid for, one NFT is sent.
LEMMA StartFacts ==
  ASSUME CallsInv, NEW rest \in Seq(Frame),
         NEW u \in Users, NEW ids \in Arrays \ {<<>>},
         SendOne(rest, u, ids, TRUE),
         \/ rest = stack
         \/ stack # <<>> /\ rest = Below /\ Top.stage # "sending"
  PROVE  /\ Sending(Head(ids), u)
         /\ Interrupt(rest, u, Tail(ids), "sending")
         /\ ArrayFractions(ids) <= balanceOf[u]
         /\ balanceOf' = [balanceOf EXCEPT ![u] = balanceOf[u] - ArrayFractions(ids)]
  <1> USE DEF CallsInv, IInv
  <1>1. PICK amount \in Nat : amount = ArrayFractions(ids)
    BY ArrayFractionsNat
  <1>2. /\ CanDebit(balanceOf, u, amount)
        /\ balanceOf' = Burned(balanceOf, u, amount)
        /\ totalSupply' = SupplyBurned(totalSupply, amount)
        /\ Head(ids) \in NFTs /\ ownerOf[Head(ids)] = PAIR
        /\ ownerOf' = [ownerOf EXCEPT ![Head(ids)] = u]
        /\ Interrupt(rest, u, Tail(ids), "sending")
        /\ UNCHANGED <<lpToken, baseOf, lifecycle>>
    BY <1>1, ArrayFacts DEF SendOne, PaysAhead, Pays
  <1>3. /\ balanceOf' \in [Accounts -> Nat]
        /\ balanceOf' = [balanceOf EXCEPT ![u] = balanceOf[u] - amount]
        /\ Total(balanceOf') = totalSupply - amount
        /\ amount <= totalSupply
    <2>1. /\ balanceOf \in [Accounts -> Nat] /\ Total(balanceOf) = totalSupply
          /\ u \in Accounts /\ IsFiniteSet(Accounts)
      BY AccountsFinite DEF TypesNat, LedgersAddUp
    <2> QED
      BY <1>2, <2>1, BurnedTotal
  <1>4. totalSupply' = totalSupply - amount /\ totalSupply' \in 0..MaxUint
    <2>1. totalSupply - amount \in Nat /\ totalSupply - amount <= MaxUint
      BY <1>3, MaxUintAssumption DEF TypesNat
    <2>2. Unchecked(totalSupply - amount) = totalSupply - amount
      BY <2>1, UncheckedFits
    <2> QED
      BY <1>2, <2>1, <2>2, MaxUintAssumption DEF SupplyBurned
  <1>5. balanceOf'[PAIR] = balanceOf[PAIR]
    BY <1>3, AccountsFinite DEF TypesNat
  <1>6. /\ stack' \in Seq(Frame)
        /\ Cardinality(Debts') = Cardinality(Debts) + Len(ids) - 1
    BY <1>2, OwedAtStart
  <1>7. totalSupply' + ONE * Cardinality(Debts') + ONE
            = totalSupply + ONE * Cardinality(Debts)
    <2>1. PICK d \in Nat, n \in Nat :
            d = Cardinality(Debts) /\ n = Len(ids) /\ n > 0
      BY DebtsFinite, ArrayFacts
    <2>2. PICK m \in Nat : n = m + 1
      <3>1. n - 1 \in Nat /\ n = (n - 1) + 1
        BY <2>1
      <3> QED
        BY <3>1
    <2>3. /\ ONE * (d + m) = ONE * d + ONE * m
          /\ ONE * (m + 1) = ONE * m + ONE * 1
      BY UnitsAdd
    <2>4. ONE * 1 = ONE /\ ONE * d \in Nat /\ ONE * m \in Nat
      BY PairAssumption, ProductNat
    <2>5. amount = ONE * m + ONE /\ Cardinality(Debts') = d + m
      BY <1>1, <1>6, <2>1, <2>2, <2>3, <2>4 DEF ArrayFractions
    <2>6. totalSupply \in Nat /\ ONE \in Nat
      BY PairAssumption DEF TypesNat
    <2>7. PICK p \in Nat, q \in Nat : p = ONE * d /\ q = ONE * m
      BY <2>4
    <2>8. ONE * Cardinality(Debts') = p + q /\ ONE * Cardinality(Debts) = p
      BY <2>1, <2>3, <2>5, <2>7
    <2>9. totalSupply' = totalSupply - (q + ONE)
      BY <1>4, <2>5, <2>7
    <2> QED
      BY <2>6, <2>7, <2>8, <2>9
  <1> QED
    BY <1>1, <1>2, <1>3, <1>4, <1>5, <1>6, <1>7 DEF CanDebit, Sending

LEMMA StartStep ==
  ASSUME CallsInv, NEW rest \in Seq(Frame),
         NEW u \in Users, NEW ids \in Arrays \ {<<>>},
         SendOne(rest, u, ids, TRUE),
         \/ rest = stack
         \/ stack # <<>> /\ rest = Below /\ Top.stage # "sending"
  PROVE  CallsStep
  BY StartFacts, BackedAfterSending

\* unwrap, from the return of a callback to the next: one NFT is sent.
LEMMA LoopFacts ==
  ASSUME CallsInv, stack # <<>>, Top.stage = "sending",
         SendOne(Below, Top.caller, Top.ids, FALSE)
  PROVE  /\ Sending(Head(Top.ids), Top.caller)
         /\ Interrupt(Below, Top.caller, Tail(Top.ids), "sending")
         /\ UNCHANGED tokens
  <1> USE DEF CallsInv, IInv
  <1>1. /\ stack # <<>> /\ Top.stage = "sending"
        /\ Head(Top.ids) \in NFTs /\ Top.caller \in Users
    BY StackFacts, ArrayFacts
  <1>2. /\ UNCHANGED <<tokens, lpToken, baseOf, lifecycle>>
        /\ ownerOf[Head(Top.ids)] = PAIR
        /\ ownerOf' = [ownerOf EXCEPT ![Head(Top.ids)] = Top.caller]
        /\ Interrupt(Below, Top.caller, Tail(Top.ids), "sending")
    BY DEF SendOne, PaysAhead
  <1>3. /\ stack' \in Seq(Frame)
        /\ Cardinality(Debts') = Cardinality(Debts) - 1
        /\ Cardinality(Debts) > 0
    BY <1>1, <1>2, OwedInLoop
  <1>4. totalSupply' + ONE * Cardinality(Debts') + ONE
            = totalSupply + ONE * Cardinality(Debts)
    <2>1. PICK d \in Nat : Cardinality(Debts') = d /\ Cardinality(Debts) = d + 1
      BY <1>3, DebtsFinite
    <2>2. ONE * (d + 1) = ONE * d + ONE * 1
      BY UnitsAdd
    <2>3. ONE * 1 = ONE /\ ONE * d \in Nat
      BY PairAssumption, ProductNat
    <2> QED
      BY <1>2, <2>1, <2>2, <2>3, PairAssumption DEF tokens, TypesNat
  <1>5. /\ balanceOf' \in [Accounts -> Nat] /\ Total(balanceOf') = totalSupply'
        /\ balanceOf'[PAIR] = balanceOf[PAIR] /\ totalSupply' \in 0..MaxUint
    BY <1>2 DEF tokens, TypesNat, LedgersAddUp
  <1> QED
    BY <1>1, <1>2, <1>3, <1>4, <1>5 DEF Sending

LEMMA LoopStep ==
  ASSUME CallsInv, SendNext
  PROVE  CallsStep
  <1>1. /\ stack # <<>> /\ Top.stage = "sending"
        /\ SendOne(Below, Top.caller, Top.ids, FALSE)
    BY DEF SendNext
  <1> QED
    BY <1>1, LoopFacts, BackedAfterSending

\* nftBuy and nftRemove, up to their unwrap, are a buy and a remove.
LEMMA TradeFirstStep ==
  ASSUME CallsInv, NEW u \in Users, NEW ids \in Arrays,
         \/ \E maxInput \in Limit : NftBuyCall(u, ids, maxInput)
         \/ \E lp \in Amount, minBase \in Limit : NftRemoveCall(u, lp, minBase, ids)
  PROVE  CallsStep
  <1> USE DEF CallsInv
  <1>1. PICK amount \in Nat : amount = ArrayFractions(ids)
    BY ArrayFractionsNat
  <1>2. PICK stage \in Stages \ {"sending"} :
          /\ Interrupt(stack, u, ids, stage)
          /\ \/ \E maxInput \in Nat : Buy(u, amount, maxInput, EtherFor(maxInput))
             \/ \E lp, minBase \in Nat : Remove(u, lp, minBase, amount)
    BY <1>1, BoundsAssumption DEF NftBuyCall, NftRemoveCall, Stages
  <1>3. GoodStep
    BY <1>2, BuyStep, RemoveStep
  <1>4. UNCHANGED <<totalSupply, ownerOf, lifecycle>>
    BY <1>2 DEF Buy, Remove
  <1>5. Debts' = Debts
    BY <1>2, NothingOwedBefore
  <1>6. BackedInCalls'
    BY <1>4, <1>5, BackedAfterOther DEF Held, lifecycle, IInv, TypesNat
  <1>7. stack' \in Seq(Frame)
    BY <1>2, InterruptFacts
  <1> QED
    BY <1>3, <1>6, <1>7 DEF CallsStep

\* The operations that nothing interrupts are those of Pair.
LEMMA PlainCallsStep ==
  ASSUME CallsInv, NEW u \in Users, PlainStep(u)
  PROVE  CallsStep
  <1> USE DEF CallsInv
  <1>1. UNCHANGED stack
    BY DEF PlainStep
  <1>2. Debts' = Debts
    BY <1>1 DEF Debts
  <1>3. GoodStep
    <2>1. CASE AmmStep(u) \/ ExitStep(u) \/ OutsideStep(u)
      BY <2>1, NextStep DEF Next
    <2>2. CASE EnterStep(u)
      BY <2>2, BoundsAssumption, WrapStep, NftAddStep, NftSellStep DEF EnterStep
    <2> QED
      BY <2>1, <2>2 DEF PlainStep
  <1>4. BackedInCalls'
    <2>1. CASE EnterStep(u)
      <3>1. PICK ids \in SUBSET NFTs : WrapNfts(u, ids)
        BY <2>1 DEF EnterStep, Wrap, NftAdd, NftSell
      <3> QED
        BY <1>1, <3>1, BackedAfterWrap
    <2>2. CASE AmmStep(u)
      <3>1. UNCHANGED <<totalSupply, ownerOf, lifecycle>>
        BY <2>2 DEF AmmStep, Add, Remove, Buy, Sell
      <3> QED
        BY <1>2, <3>1, BackedAfterOther DEF Held, lifecycle, IInv, TypesNat
    <2>3. CASE Close(u)
      <3>1. UNCHANGED <<totalSupply, ownerOf, now>> /\ closeTimestamp = 0
        BY <2>3 DEF Close, DestroyAccepts, tokens, IInv, ListedWhileOpen
      <3> QED
        BY <1>2, <3>1, BackedAfterOther DEF Held, IInv, TypesNat
    <2>4. ASSUME NEW id \in NFTs, Withdraw(u, id) PROVE BackedInCalls'
      BY <2>4 DEF Withdraw, GraceOver, lifecycle, BackedInCalls, IInv, TypesNat
    <2>5. CASE OutsideStep(u)
      <3>1. UNCHANGED <<totalSupply, closeTimestamp, now>> /\ Held \subseteq Held'
        BY <2>5, AccountsFinite
        DEF OutsideStep, FracTransfer, LpTransfer, BaseTransfer, NftTransfer,
            TransferOwnership, tokens, lifecycle, Held, IInv, TypesNat
      <3> QED
        BY <1>2, <3>1, BackedAfterOther DEF IInv, TypesNat
    <2> QED
      BY <2>1, <2>2, <2>3, <2>4, <2>5 DEF PlainStep, ExitStep
  <1> QED
    BY <1>1, <1>3, <1>4 DEF CallsStep

\* Time.
LEMMA TickBetweenStep ==
  ASSUME CallsInv, TickBetween
  PROVE  CallsStep
  <1> USE DEF CallsInv, TickBetween
  <1>1. GoodStep
    BY TickStep
  <1>2. Debts' = Debts
    BY DEF Debts
  <1>3. BackedInCalls'
    BY <1>2, BackedAfterOther DEF Tick, tokens, Held, IInv, TypesNat
  <1> QED
    BY <1>1, <1>3 DEF CallsStep

\* Every step of the system with callbacks.
LEMMA CallsNextStep ==
  ASSUME CallsInv, CallsNext
  PROVE  CallsStep
  <1>1. ASSUME NEW u \in Users, InterruptedStep(u) PROVE CallsStep
    <2>1. ASSUME NEW ids \in Arrays, UnwrapCall(u, ids)
          PROVE  CallsStep
      BY <2>1, StartStep DEF UnwrapCall, CallsInv
    <2> QED
      BY <1>1, <2>1, TradeFirstStep DEF InterruptedStep
  <1>2. CASE Resume
    <2>1. SendOne(Below, Top.caller, Top.ids, TRUE)
      BY <1>2 DEF Resume
    <2>2. /\ stack # <<>> /\ Top.stage # "sending"
          /\ Below \in Seq(Frame) /\ Top.ids \in Arrays \ {<<>>} /\ Top.caller \in Users
      BY <1>2, StackFacts DEF Resume, CallsInv
    <2> QED
      BY <2>1, <2>2, StartStep
  <1> QED
    BY <1>1, <1>2, PlainCallsStep, LoopStep, TickBetweenStep DEF CallsNext

LEMMA CallsInitInv == CallsInit => CallsInv
  <1> SUFFICES ASSUME CallsInit PROVE CallsInv
    OBVIOUS
  <1>1. IInv
    BY InitIInv DEF CallsInit
  <1>2. stack \in Seq(Frame)
    BY EmptySeq DEF CallsInit
  <1>3. Debts = {}
    BY EmptySeq DEF CallsInit, Debts
  <1>4. ONE * Cardinality(Debts) = 0
    <2>1. Cardinality(Debts) = 0
      BY <1>3, FS_EmptySet
    <2> QED
      BY <2>1, PairAssumption
  <1>5. BackedInCalls
    BY <1>1, <1>4 DEF IInv, Backed, BackedInCalls, TypesNat
  <1> QED
    BY <1>1, <1>2, <1>5 DEF CallsInv

\* Nested calls that change nothing.
LEMMA CallsStutter ==
  ASSUME CallsInv, UNCHANGED callVars
  PROVE  CallsInv' /\ UNCHANGED vars
  <1>1. UNCHANGED vars /\ UNCHANGED stack
    BY DEF callVars
  <1>2. IInv'
    BY <1>1, StutterStep DEF CallsInv
  <1>3. BackedInCalls'
    BY <1>1 DEF CallsInv, BackedInCalls, Debts, Held, vars, tokens, lifecycle
  <1> QED
    BY <1>1, <1>2, <1>3 DEF CallsInv

---------------------------------------------------------------------------
(* The theorems.                                                           *)

\* The invariant holds whenever foreign code runs, however calls are nested.
THEOREM CallsInvariance == CallsSpec => []CallsInv
  <1>1. CallsInv /\ [CallsNext]_callVars => CallsInv'
    BY CallsNextStep, CallsStutter DEF CallsStep, GoodStep, CallsInv
  <1> QED
    BY <1>1, CallsInitInv, PTL DEF CallsSpec

\* No call interrupted in unwrap loses its NFTs to what its callback does.
THEOREM BackedInCallsHolds == CallsSpec => []BackedInCalls
  <1>1. CallsInv => BackedInCalls
    BY DEF CallsInv
  <1> QED
    BY <1>1, CallsInvariance, PTL

\* The books, the pool and the ether are in order in every callback.
THEOREM OrderInCalls ==
  CallsSpec => [](LedgersAddUp /\ PoolNeverDrained /\ NoOrphanedEther)
  <1>1. CallsInv => LedgersAddUp /\ PoolNeverDrained /\ NoOrphanedEther
    BY DEF CallsInv, IInv
  <1> QED
    BY <1>1, CallsInvariance, PTL

\* Nested calls trade on the curve and never dilute those who stay.
THEOREM FairInCalls == CallsSpec => SharesNotDiluted /\ SwapsFollowCurve
  <1>1. CallsInv /\ [CallsNext]_callVars => [KeepsShares]_vars /\ [OnCurve]_vars
    BY CallsNextStep, CallsStutter DEF CallsStep, GoodStep, PoolStep
  <1> QED
    BY <1>1, CallsInvariance, PTL DEF CallsSpec, SharesNotDiluted, SwapsFollowCurve

---------------------------------------------------------------------------
(* The refinement of Pair. *)

\* What each account is owed, and all of them.
Owed    == [a \in Accounts |-> ONE * Cardinality(DebtsTo(a))]
AllOwed == ONE * Cardinality(Debts)

\* Balances that count what is owed.
Shifted(bal, owed) == [a \in Accounts |-> bal[a] + owed[a]]
Outside == [a \in Accounts |-> balanceOf[a] + ONE * Cardinality(DebtsTo(a))]

\* The sums of the outside view fit the word, also after a notice has run out,
\* when BackedInCalls says nothing any more.
OwedFits  == totalSupply + AllOwed <= MaxUint
AtomicInv == CallsInv /\ OwedFits

\* The view of a step from outside.
AtomicStep == [Atomic!Next]_(Atomic!vars)

---------------------------------------------------------------------------
(* What the two views share.                                               *)

\* The arithmetic, the ledgers and the constants are the same in both views.
LEMMA SameLedger ==
  /\ \A bal, u, x : Atomic!CanDebit(bal, u, x) <=> CanDebit(bal, u, x)
  /\ \A bal, u, v, x : Atomic!TransferFrom(bal, u, v, x) = TransferFrom(bal, u, v, x)
  /\ \A bal, u, x : Atomic!Minted(bal, u, x) = Minted(bal, u, x)
  /\ \A bal, u, x : Atomic!Burned(bal, u, x) = Burned(bal, u, x)
  /\ \A s, x : Atomic!SupplyMinted(s, x) = SupplyMinted(s, x)
  /\ \A s, x : Atomic!SupplyBurned(s, x) = SupplyBurned(s, x)
  /\ \A base, u, v, x : Atomic!Pay(base, u, v, x) = Pay(base, u, v, x)
  BY DEF Atomic!CanDebit, CanDebit, Atomic!TransferFrom, TransferFrom,
         Atomic!Minted, Minted, Atomic!Burned, Burned, Atomic!Pay, Pay,
         Atomic!SupplyMinted, SupplyMinted, Atomic!SupplyBurned, SupplyBurned,
         Atomic!Unchecked, Unchecked

LEMMA SameQuotes ==
  /\ \A x, B, F : Atomic!BuyQuote(x, B, F) = BuyQuote(x, B, F)
  /\ \A x, B, F : Atomic!BuyQuoteOk(x, B, F) <=> BuyQuoteOk(x, B, F)
  /\ \A x, B, F : Atomic!SellQuote(x, B, F) = SellQuote(x, B, F)
  /\ \A x, B, F : Atomic!SellQuoteOk(x, B, F) <=> SellQuoteOk(x, B, F)
  /\ \A b, f, B, F, L : Atomic!AddQuote(b, f, B, F, L) = AddQuote(b, f, B, F, L)
  /\ \A b, f, B, F, L : Atomic!AddQuoteOk(b, f, B, F, L) <=> AddQuoteOk(b, f, B, F, L)
  /\ \A x, B, F, L : Atomic!RemoveQuoteOk(x, B, F, L) <=> RemoveQuoteOk(x, B, F, L)
  /\ \A x, B, L : Atomic!RemoveBaseQuote(x, B, L) = RemoveBaseQuote(x, B, L)
  /\ \A x, F, L : Atomic!RemoveFracQuote(x, F, L) = RemoveFracQuote(x, F, L)
  BY DEF Atomic!BuyQuote, BuyQuote, Atomic!BuyQuoteOk, BuyQuoteOk,
         Atomic!SellQuote, SellQuote, Atomic!SellQuoteOk, SellQuoteOk,
         Atomic!AddQuote, AddQuote, Atomic!AddQuoteOk, AddQuoteOk,
         Atomic!Sqrt, Sqrt, Atomic!Least, Least, Atomic!Fits, Fits,
         Atomic!RemoveQuoteOk, RemoveQuoteOk, Atomic!RemoveBaseQuote,
         RemoveBaseQuote, Atomic!RemoveFracQuote, RemoveFracQuote

LEMMA SameCounts ==
  /\ \A S : Atomic!Cardinality(S) = Cardinality(S)
  /\ \A ids : Atomic!Fractions(ids) = Fractions(ids)
  /\ \A ids : Atomic!ValidTokenIds(ids) <=> ValidTokenIds(ids)
  /\ \A x : Atomic!Fits(x) <=> Fits(x)
  /\ \A x : Atomic!EtherFor(x) = EtherFor(x)
  /\ \A u, x : Atomic!Credited(u, x) = Credited(u, x)
  /\ \A base, x : Atomic!BaseTokenReserves(base, x) = BaseTokenReserves(base, x)
  /\ \A m, x : Atomic!Refund(m, x) = Refund(m, x)
  /\ Atomic!Accounts = Accounts
  <1>1. \A S : Atomic!Cardinality(S) = Cardinality(S)
    BY DEF Atomic!Cardinality, Cardinality
  <1> QED
    BY <1>1, SameLedger
    DEF Atomic!Fractions, Fractions, Atomic!ValidTokenIds, ValidTokenIds,
        Atomic!Fits, Fits, Atomic!EtherFor, EtherFor, Atomic!Credited, Credited,
        Atomic!BaseTokenReserves, BaseTokenReserves, Atomic!Refund, Refund,
        Atomic!Accounts, Accounts

\* What is owed: to users, and to none more than to all.
LEMMA OwedFacts ==
  ASSUME CallsInv
  PROVE  /\ Owed \in [Accounts -> Nat] /\ AllOwed \in Nat
         /\ \A a \in Accounts : Owed[a] <= AllOwed
         /\ Owed[PAIR] = 0
         /\ Outside = Shifted(balanceOf, Owed)
  <1>1. IsFiniteSet(Debts) /\ Cardinality(Debts) \in Nat
    BY DebtsFinite DEF CallsInv
  <1>2. ASSUME NEW a \in Accounts
        PROVE  /\ Cardinality(DebtsTo(a)) \in Nat
               /\ Cardinality(DebtsTo(a)) <= Cardinality(Debts)
    <2>1. DebtsTo(a) \in SUBSET Debts
      BY DEF DebtsTo
    <2> QED
      BY <1>1, <2>1, FS_Subset, FS_CardinalityType
  <1>3. AllOwed \in Nat
    BY <1>1, PairAssumption, ProductNat DEF AllOwed
  <1>4. ASSUME NEW a \in Accounts PROVE Owed[a] \in Nat /\ Owed[a] <= AllOwed
    BY <1>1, <1>2, <1>4, PairAssumption, ProductNat, ProductMono DEF Owed, AllOwed
  <1>5. DebtsTo(PAIR) = {}
    <2> SUFFICES ASSUME NEW d \in Debts PROVE stack[d[1]].caller # PAIR
      BY DEF DebtsTo
    <2>1. d[1] \in 1..Len(stack)
      BY DEF Debts
    <2>2. stack[d[1]] \in Frame
      BY <2>1, ElementOfSeq DEF CallsInv
    <2> QED
      BY <2>2, PairAssumption DEF Frame
  <1>6. Owed[PAIR] = 0
    <2>1. Cardinality(DebtsTo(PAIR)) = 0
      BY <1>5, FS_EmptySet
    <2> QED
      BY <2>1, AccountsFinite, PairAssumption DEF Owed
  <1> QED
    BY <1>3, <1>4, <1>6 DEF Owed, Outside, Shifted

---------------------------------------------------------------------------
(* The ledger operations commute with the shift.                           *)

\* A ledger that what is owed fits on top of.
Shiftable(bal, owed, all) ==
  /\ bal \in [Accounts -> Nat] /\ owed \in [Accounts -> Nat] /\ all \in Nat
  /\ \A a \in Accounts : owed[a] <= all
  /\ owed[PAIR] = 0
  /\ Total(bal) + all <= MaxUint

LEMMA ShiftedTransfer ==
  ASSUME NEW bal, NEW owed, NEW all, Shiftable(bal, owed, all),
         NEW from \in Accounts, NEW to \in Accounts, from # to,
         NEW amount \in Nat, CanDebit(bal, from, amount)
  PROVE  /\ CanDebit(Shifted(bal, owed), from, amount)
         /\ TransferFrom(Shifted(bal, owed), from, to, amount)
                = Shifted(TransferFrom(bal, from, to, amount), owed)
         /\ Shiftable(TransferFrom(bal, from, to, amount), owed, all)
  <1> DEFINE next == TransferFrom(bal, from, to, amount)
  <1>1. /\ bal \in [Accounts -> Nat] /\ owed \in [Accounts -> Nat] /\ all \in Nat
        /\ \A a \in Accounts : owed[a] <= all
        /\ Total(bal) + all <= MaxUint
        /\ Total(bal) \in Nat
    BY AccountsFinite, CoinsFinite DEF Shiftable
  <1>2. Total(bal) <= MaxUint
    BY <1>1, MaxUintAssumption
  <1>3. /\ next \in [Accounts -> Nat]
        /\ next[from] = bal[from] - amount /\ next[to] = bal[to] + amount
        /\ \A a \in Accounts \ {from, to} : next[a] = bal[a]
        /\ Total(next) = Total(bal)
    BY <1>1, <1>2, AccountsFinite, TransferFromTotal
  <1>4. next[to] <= Total(bal)
    BY <1>3, AccountsFinite, BalanceBound
  <1>5. Unchecked(bal[to] + owed[to] + amount) = bal[to] + owed[to] + amount
    BY <1>1, <1>3, <1>4, UncheckedFits, MaxUintAssumption
  <1>6. CanDebit(Shifted(bal, owed), from, amount)
    BY <1>1 DEF CanDebit, Shifted
  <1>7. TransferFrom(Shifted(bal, owed), from, to, amount) = Shifted(next, owed)
    <2> HIDE DEF next
    <2> QED
      BY <1>1, <1>3, <1>5 DEF TransferFrom, Shifted, CanDebit
  <1> QED
    BY <1>1, <1>3, <1>6, <1>7 DEF Shiftable

LEMMA ShiftedMint ==
  ASSUME NEW bal, NEW owed, NEW all, Shiftable(bal, owed, all),
         NEW to \in Accounts, NEW amount \in Nat,
         Total(bal) + amount + all <= MaxUint
  PROVE  /\ Minted(Shifted(bal, owed), to, amount) = Shifted(Minted(bal, to, amount), owed)
         /\ Shiftable(Minted(bal, to, amount), owed, all)
  <1>1. /\ bal \in [Accounts -> Nat] /\ owed \in [Accounts -> Nat] /\ all \in Nat
        /\ \A a \in Accounts : owed[a] <= all
        /\ Total(bal) \in Nat /\ bal[to] <= Total(bal)
    BY AccountsFinite, BalanceBound DEF Shiftable
  <1>2. Total(bal) + amount <= MaxUint
    BY <1>1, MaxUintAssumption
  <1>3. /\ Minted(bal, to, amount) \in [Accounts -> Nat]
        /\ Minted(bal, to, amount) = [bal EXCEPT ![to] = bal[to] + amount]
        /\ Total(Minted(bal, to, amount)) = Total(bal) + amount
    BY <1>1, <1>2, AccountsFinite, MintedTotal
  <1>4. Unchecked(bal[to] + owed[to] + amount) = bal[to] + amount + owed[to]
    BY <1>1, UncheckedFits, MaxUintAssumption
  <1>5. Minted(Shifted(bal, owed), to, amount)
            = [Shifted(bal, owed) EXCEPT ![to] = bal[to] + amount + owed[to]]
    BY <1>1, <1>4 DEF Minted, Shifted
  <1>6. Minted(Shifted(bal, owed), to, amount) = Shifted(Minted(bal, to, amount), owed)
    <2>1. PICK next \in [Accounts -> Nat] :
            /\ next = Minted(bal, to, amount)
            /\ next = [bal EXCEPT ![to] = bal[to] + amount]
      BY <1>3
    <2>2. [Shifted(bal, owed) EXCEPT ![to] = bal[to] + amount + owed[to]]
              = Shifted(next, owed)
      BY <1>1, <2>1 DEF Shifted
    <2> QED
      BY <1>5, <2>1, <2>2
  <1> QED
    BY <1>1, <1>3, <1>6 DEF Shiftable

---------------------------------------------------------------------------
(* The operations of the AMM, run when the fractional balances are bal.    *)

\* The view of the fractional token when the calls on the stack are what they were.
LEMMA SameCalls ==
  ASSUME AtomicInv, Owed' = Owed
  PROVE  /\ Outside' = Shifted(balanceOf', Owed)
         /\ Shiftable(balanceOf, Owed, AllOwed)
         /\ Outside[PAIR] = balanceOf[PAIR]
  <1>1. Outside' = Shifted(balanceOf', Owed)
    BY DEF Outside, Shifted, Owed
  <1>2. Shiftable(balanceOf, Owed, AllOwed)
    BY OwedFacts DEF AtomicInv, OwedFits, CallsInv, IInv, TypesNat, LedgersAddUp, Shiftable
  <1>3. Outside[PAIR] = balanceOf[PAIR]
    BY <1>2, OwedFacts, AccountsFinite DEF AtomicInv, Shiftable, Shifted
  <1> QED
    BY <1>1, <1>2, <1>3

LEMMA AddOutside ==
  ASSUME AtomicInv, Owed' = Owed, NEW bal, Shiftable(bal, Owed, AllOwed),
         NEW u \in Users, NEW base \in Nat, NEW frac \in Nat, NEW minLp \in Nat,
         AddLiquidity(bal, u, base, frac, minLp, EtherFor(base))
  PROVE  Atomic!AddLiquidity(Shifted(bal, Owed), u, base, frac, minLp, EtherFor(base))
  <1>1. Outside' = Shifted(balanceOf', Owed)
    BY SameCalls
  <1>2. Shifted(bal, Owed)[PAIR] = bal[PAIR]
    BY AccountsFinite DEF Shiftable, Shifted
  <1>3. /\ CanDebit(bal, u, frac)
        /\ balanceOf' = TransferFrom(bal, u, PAIR, frac)
    BY DEF AddLiquidity
  <1>4. /\ CanDebit(Shifted(bal, Owed), u, frac)
        /\ Outside' = TransferFrom(Shifted(bal, Owed), u, PAIR, frac)
    BY <1>1, <1>3, AccountsFinite, ShiftedTransfer
  <1> QED
    BY <1>2, <1>4, SameLedger, SameQuotes, SameCounts
    DEF Atomic!AddLiquidity, AddLiquidity, Outside

LEMMA SellOutside ==
  ASSUME AtomicInv, Owed' = Owed, NEW bal, Shiftable(bal, Owed, AllOwed),
         NEW u \in Users, NEW in \in Nat, NEW minOut \in Nat,
         SellFractions(bal, u, in, minOut)
  PROVE  Atomic!SellFractions(Shifted(bal, Owed), u, in, minOut)
  <1>1. Outside' = Shifted(balanceOf', Owed)
    BY SameCalls
  <1>2. Shifted(bal, Owed)[PAIR] = bal[PAIR]
    BY AccountsFinite DEF Shiftable, Shifted
  <1>3. CanDebit(bal, u, in) /\ balanceOf' = TransferFrom(bal, u, PAIR, in)
    BY DEF SellFractions
  <1>4. /\ CanDebit(Shifted(bal, Owed), u, in)
        /\ Outside' = TransferFrom(Shifted(bal, Owed), u, PAIR, in)
    BY <1>1, <1>3, AccountsFinite, ShiftedTransfer
  <1> QED
    BY <1>2, <1>4, SameLedger, SameQuotes, SameCounts
    DEF Atomic!SellFractions, SellFractions, Outside, Atomic!lpToken, lpToken

LEMMA BuyOutside ==
  ASSUME AtomicInv, Owed' = Owed, AllOwed' = AllOwed,
         NEW u \in Users, NEW out \in Nat, NEW maxInput \in Nat,
         Buy(u, out, maxInput, EtherFor(maxInput))
  PROVE  Atomic!Buy(u, out, maxInput, EtherFor(maxInput))
  <1>1. /\ Outside = Shifted(balanceOf, Owed) /\ Outside' = Shifted(balanceOf', Owed)
        /\ Outside[PAIR] = balanceOf[PAIR] /\ Shiftable(balanceOf, Owed, AllOwed)
    BY SameCalls, OwedFacts DEF AtomicInv
  <1>2. out <= balanceOf[PAIR] /\ balanceOf' = TransferFrom(balanceOf, PAIR, u, out)
    BY DEF Buy, BuyFractions, BuyQuoteOk, BuyBalances, FractionalTokenReserves
  <1>3. Outside' = TransferFrom(Outside, PAIR, u, out)
    BY <1>1, <1>2, AccountsFinite, ShiftedTransfer DEF CanDebit
  <1> QED
    BY <1>1, <1>3, SameLedger, SameQuotes, SameCounts
    DEF Atomic!Buy, Buy, Atomic!BuyFractions, BuyFractions, Atomic!BuyBalances,
        Atomic!FractionalTokenReserves, FractionalTokenReserves, Outside, AllOwed,
        Atomic!lpToken, lpToken, Atomic!lifecycle, lifecycle

LEMMA RemoveOutside ==
  ASSUME AtomicInv, Owed' = Owed, AllOwed' = AllOwed,
         NEW u \in Users, NEW lp \in Nat, NEW minBase \in Nat, NEW minFrac \in Nat,
         Remove(u, lp, minBase, minFrac)
  PROVE  Atomic!Remove(u, lp, minBase, minFrac)
  <1> DEFINE fracOut == RemoveFracQuote(lp, FractionalTokenReserves, lpTotalSupply)
  <1>1. /\ Outside = Shifted(balanceOf, Owed) /\ Outside' = Shifted(balanceOf', Owed)
        /\ Outside[PAIR] = balanceOf[PAIR] /\ Shiftable(balanceOf, Owed, AllOwed)
    BY SameCalls, OwedFacts DEF AtomicInv
  <1>2. /\ RemoveLiquidity(u, lp, minBase, minFrac)
        /\ balanceOf' = TransferFrom(balanceOf, PAIR, u, fracOut)
    BY DEF Remove, RemoveBalances
  <1>3. fracOut \in 0..balanceOf[PAIR]
    <2>1. /\ lp <= lpTotalSupply /\ lpTotalSupply \in Nat \ {0}
          /\ FractionalTokenReserves \in Nat
      BY <1>2, RemoveFacts, PoolNat DEF AtomicInv, CallsInv, IInv
    <2> QED
      BY <2>1, RemoveShare DEF RemoveFracQuote, FractionalTokenReserves
  <1>4. Outside' = TransferFrom(Outside, PAIR, u, fracOut)
    <2>1. fracOut \in Nat /\ CanDebit(balanceOf, PAIR, fracOut)
      BY <1>1, <1>3, AccountsFinite DEF CanDebit, Shiftable
    <2> HIDE DEF fracOut
    <2> QED
      BY <1>1, <1>2, <2>1, AccountsFinite, ShiftedTransfer
  <1> QED
    BY <1>1, <1>4, SameLedger, SameQuotes, SameCounts
    DEF Atomic!Remove, Remove, Atomic!RemoveLiquidity, RemoveLiquidity,
        Atomic!RemoveBalances, Atomic!FractionalTokenReserves,
        FractionalTokenReserves, Outside, AllOwed, Atomic!lifecycle, lifecycle

---------------------------------------------------------------------------
(* The NFTs that enter.                                                    *)

\* A wrap, also inside nftAdd and nftSell; the sums still fit the word.
LEMMA WrapOutside ==
  ASSUME AtomicInv, UNCHANGED stack,
         NEW u \in Users, NEW ids \in SUBSET NFTs, WrapNfts(u, ids)
  PROVE  /\ Atomic!WrapNfts(u, ids)
         /\ Atomic!WrapBalances(u, ids) = Shifted(WrapBalances(u, ids), Owed)
         /\ Shiftable(WrapBalances(u, ids), Owed, AllOwed)
         /\ OwedFits' /\ Owed' = Owed /\ AllOwed' = AllOwed
  <1>1. Owed' = Owed /\ AllOwed' = AllOwed
    BY DEF Owed, AllOwed, DebtsTo, Debts
  <1>2. PICK amount \in Nat : amount = Fractions(ids)
    BY FractionsNat
  <1>3. /\ totalSupply' = totalSupply + amount /\ totalSupply' \in Nat
        /\ closeTimestamp = 0 /\ closeTimestamp' = 0
        /\ Held' \in SUBSET NFTs
    BY <1>2, WrapFacts DEF AtomicInv, CallsInv, IInv, lifecycle, Held
  <1>4. totalSupply' + AllOwed <= MaxUint
    <2>1. totalSupply' + AllOwed <= ONE * Cardinality(Held')
      BY <1>1, <1>3, BackedAfterWrap DEF AtomicInv, BackedInCalls, AllOwed
    <2>2. ONE * Cardinality(Held') <= ONE * Cardinality(NFTs)
      BY <1>3, PairAssumption, FS_Subset, FS_CardinalityType, ProductMono
    <2>3. /\ AllOwed \in Nat
          /\ ONE * Cardinality(Held') \in Nat /\ ONE * Cardinality(NFTs) \in Nat
      BY <1>3, OwedFacts, FractionsNat, PairAssumption, ProductNat DEF AtomicInv
    <2> QED
      BY <1>3, <2>1, <2>2, <2>3, MaxUintAssumption, CallsAssumption
  <1>5. /\ Outside = Shifted(balanceOf, Owed) /\ Shiftable(balanceOf, Owed, AllOwed)
        /\ Total(balanceOf) = totalSupply /\ totalSupply \in Nat /\ AllOwed \in Nat
    BY <1>1, SameCalls, OwedFacts, SMTT(20) DEF AtomicInv, CallsInv, IInv, TypesNat, LedgersAddUp
  <1>6. /\ Minted(Outside, u, amount) = Shifted(WrapBalances(u, ids), Owed)
        /\ Shiftable(WrapBalances(u, ids), Owed, AllOwed)
    BY <1>2, <1>3, <1>4, <1>5, AccountsFinite, ShiftedMint DEF WrapBalances
  <1>7. Atomic!WrapNfts(u, ids)
    <2>1. Fits(totalSupply + AllOwed + amount)
      BY <1>3, <1>4, <1>5 DEF Fits
    <2>2. totalSupply' + AllOwed' = SupplyMinted(totalSupply + AllOwed, amount)
      BY <1>1, <1>3, <1>5 DEF SupplyMinted
    <2> QED
      BY <1>2, <2>1, <2>2, SameLedger, SameCounts
      DEF Atomic!WrapNfts, WrapNfts, AllOwed, Atomic!lifecycle, lifecycle
  <1>8. Atomic!WrapBalances(u, ids) = Shifted(WrapBalances(u, ids), Owed)
    BY <1>2, <1>6, SameLedger, SameCounts DEF Atomic!WrapBalances, Outside
  <1> QED
    BY <1>1, <1>4, <1>6, <1>7, <1>8 DEF OwedFits

LEMMA EnterOutside ==
  ASSUME AtomicInv, NEW u \in Users, EnterStep(u), UNCHANGED stack
  PROVE  Atomic!NftStep(u) /\ OwedFits'
  <1> USE BoundsAssumption
  <1>1. PICK ids \in SUBSET NFTs :
          \/ Wrap(u, ids)
          \/ \E base \in Amount, minLp \in Limit :
                 NftAdd(u, base, ids, minLp, EtherFor(base))
          \/ \E minOut \in Limit : NftSell(u, ids, minOut)
    BY DEF EnterStep
  <1>2. /\ Atomic!WrapNfts(u, ids)
        /\ Atomic!WrapBalances(u, ids) = Shifted(WrapBalances(u, ids), Owed)
        /\ Shiftable(WrapBalances(u, ids), Owed, AllOwed)
        /\ OwedFits' /\ Owed' = Owed
    BY <1>1, WrapOutside DEF Wrap, NftAdd, NftSell
  <1>3. PICK amount \in Nat : amount = Fractions(ids) /\ amount = Atomic!Fractions(ids)
    BY FractionsNat, SameCounts
  <1>4. CASE Wrap(u, ids)
    <2>1. Outside' = Shifted(balanceOf', Owed)
      BY <1>2, SameCalls
    <2>2. Atomic!Wrap(u, ids)
      BY <1>2, <1>4, <2>1 DEF Atomic!Wrap, Wrap, Outside, Atomic!lpToken, lpToken
    <2> QED
      BY <1>2, <2>2 DEF Atomic!NftStep
  <1>5. ASSUME NEW base \in Amount, NEW minLp \in Limit,
               NftAdd(u, base, ids, minLp, EtherFor(base))
        PROVE  Atomic!NftStep(u)
    <2>1. Atomic!AddLiquidity(Shifted(WrapBalances(u, ids), Owed), u, base, amount,
                              minLp, EtherFor(base))
      BY <1>2, <1>3, <1>5, AddOutside DEF NftAdd
    <2>2. Atomic!NftAdd(u, base, ids, minLp, EtherFor(base))
      BY <1>2, <1>3, <2>1 DEF Atomic!NftAdd
    <2> QED
      BY <2>2, SameCounts DEF Atomic!NftStep
  <1>6. ASSUME NEW minOut \in Limit, NftSell(u, ids, minOut)
        PROVE  Atomic!NftStep(u)
    <2>1. Atomic!SellFractions(Shifted(WrapBalances(u, ids), Owed), u, amount, minOut)
      BY <1>2, <1>3, <1>6, SellOutside DEF NftSell
    <2>2. Atomic!NftSell(u, ids, minOut)
      BY <1>2, <1>3, <2>1 DEF Atomic!NftSell
    <2> QED
      BY <2>2 DEF Atomic!NftStep
  <1> QED
    BY <1>1, <1>2, <1>4, <1>5, <1>6

---------------------------------------------------------------------------
(* The NFTs that leave, one by one.                                        *)

\* Seen from outside, the fractions of one NFT are burned.
OneBurned(u) == Outside' = Burned(Outside, u, ONE) /\ CanDebit(Outside, u, ONE)

\* It suffices to compare the balances account by account.
LEMMA OneBurnedByAccount ==
  ASSUME NEW u \in Accounts, NEW before \in [Accounts -> Nat],
         NEW after, after = [a \in Accounts |-> after[a]],
         after[u] = before[u] - ONE, ONE <= before[u],
         \A a \in Accounts \ {u} : after[a] = before[a]
  PROVE  after = Burned(before, u, ONE) /\ CanDebit(before, u, ONE)
  BY DEF Burned, CanDebit

\* The transfer of one NFT is the unwrap of that NFT.
LEMMA SendOutside ==
  ASSUME AtomicInv, NEW id, NEW to, Sending(id, to), OneBurned(to)
  PROVE  Atomic!NftStep(to) /\ OwedFits'
  <1>1. /\ id \in NFTs /\ to \in Users /\ ownerOf[id] = PAIR
        /\ ownerOf' = [ownerOf EXCEPT ![id] = to]
        /\ UNCHANGED <<lpToken, baseOf, lifecycle>>
        /\ totalSupply' + AllOwed' + ONE = totalSupply + AllOwed
    BY DEF Sending, AllOwed
  <1>2. /\ AllOwed \in Nat /\ AllOwed' \in Nat /\ ONE \in Nat
        /\ totalSupply \in Nat /\ totalSupply' \in Nat
    <2>1. AllOwed \in Nat /\ totalSupply \in Nat /\ totalSupply' \in Nat
      BY OwedFacts, MaxUintAssumption DEF AtomicInv, CallsInv, IInv, TypesNat, Sending
    <2>2. CallsInv'
      BY BackedAfterSending DEF AtomicInv, CallsInv, CallsStep, GoodStep
    <2>3. AllOwed' \in Nat
      <3>1. stack' \in Seq(Frame)
        BY <2>2 DEF CallsInv
      <3>2. IsFiniteSet(1..Len(stack')) /\ IsFiniteSet(1..MaxIds)
        BY <3>1, FS_Interval, CallsAssumption
      <3>3. IsFiniteSet((1..Len(stack')) \X (1..MaxIds))
        <4> DEFINE calls == 1..Len(stack')
                   places == 1..MaxIds
        <4> HIDE DEF calls, places
        <4> QED
          BY <3>2, FS_Product DEF calls, places
      <3>4. Debts' \subseteq (1..Len(stack')) \X (1..MaxIds)
        BY DEF Debts
      <3> QED
        BY <3>3, <3>4, FS_Subset, FS_CardinalityType, PairAssumption, ProductNat DEF AllOwed
    <2> QED
      BY <2>1, <2>3, PairAssumption
  <1>3. PICK before \in Nat, after \in Nat :
          /\ before = totalSupply + AllOwed /\ after = totalSupply' + AllOwed'
          /\ after + ONE = before /\ before <= MaxUint
    <2>1. PICK s \in Nat, o \in Nat, s1 \in Nat, o1 \in Nat :
            s = totalSupply /\ o = AllOwed /\ s1 = totalSupply' /\ o1 = AllOwed'
      BY <1>2
    <2>2. s1 + o1 + ONE = s + o /\ s + o <= MaxUint
      BY <1>1, <2>1 DEF AtomicInv, OwedFits
    <2>3. s + o \in Nat /\ s1 + o1 \in Nat
      OBVIOUS
    <2> QED
      BY <2>1, <2>2, <2>3
  <1>4. after + ONE = before /\ before <= MaxUint /\ ONE \in Nat
    BY <1>3, PairAssumption
  <1>5. Fractions({id}) = ONE /\ Fits(ONE)
    <2>1. Cardinality({id}) = 1
      BY FS_Singleton
    <2>2. ONE * 1 = ONE /\ ONE <= MaxUint
      BY <1>4, MaxUintAssumption
    <2> QED
      BY <2>1, <2>2 DEF Fractions, Fits
  <1>6. totalSupply' + AllOwed' = SupplyBurned(totalSupply + AllOwed, ONE)
    <2>1. before - ONE = after /\ after <= MaxUint
      BY <1>4, MaxUintAssumption
    <2>2. Unchecked(before - ONE) = after
      BY <2>1, UncheckedFits
    <2> QED
      BY <1>3, <2>2 DEF SupplyBurned
  <1>7. ownerOf' = [n \in NFTs |-> IF n \in {id} THEN to ELSE ownerOf[n]]
    BY <1>1 DEF AtomicInv, CallsInv, IInv, TypesNat
  <1>8. Atomic!Unwrap(to, {id})
    <2>1. Outside' = Burned(Outside, to, ONE) /\ CanDebit(Outside, to, ONE)
      BY DEF OneBurned
    <2> QED
      BY <1>1, <1>5, <1>6, <1>7, <2>1, SameLedger, SameCounts
      DEF Atomic!Unwrap, Atomic!UnwrapNfts, Outside, AllOwed,
          Atomic!lpToken, lpToken, Atomic!lifecycle, lifecycle
  <1>9. OwedFits'
    <2>1. after <= MaxUint
      BY <1>4, MaxUintAssumption
    <2> QED
      BY <1>3, <2>1 DEF OwedFits
  <1> QED
    BY <1>1, <1>8, <1>9 DEF Atomic!NftStep

\* The first NFT of an unwrap, whose fractions are all burned by then.
LEMMA StartOutside ==
  ASSUME AtomicInv, NEW rest \in Seq(Frame),
         NEW u \in Users, NEW ids \in Arrays \ {<<>>},
         SendOne(rest, u, ids, TRUE),
         \/ rest = stack
         \/ stack # <<>> /\ rest = Below /\ Top.stage # "sending"
  PROVE  Atomic!NftStep(u) /\ OwedFits'
  <1>1. /\ Sending(Head(ids), u)
        /\ Interrupt(rest, u, Tail(ids), "sending")
        /\ ArrayFractions(ids) <= balanceOf[u]
        /\ balanceOf' = [balanceOf EXCEPT ![u] = balanceOf[u] - ArrayFractions(ids)]
    BY StartFacts DEF AtomicInv
  <1>2. \A a \in Accounts :
           Cardinality(DebtsTo(a)') = IF a = u
               THEN Cardinality(DebtsTo(a)) + Len(ids) - 1
               ELSE Cardinality(DebtsTo(a))
    BY <1>1, OwedAtStart DEF AtomicInv, CallsInv
  <1>3. PICK m \in Nat : Len(ids) = m + 1
    <2>1. Len(ids) \in Nat /\ Len(ids) > 0
      BY ArrayFacts
    <2>2. Len(ids) - 1 \in Nat /\ Len(ids) = (Len(ids) - 1) + 1
      BY <2>1
    <2> QED
      BY <2>2
  <1>4. PICK q \in Nat : q = ONE * m /\ ArrayFractions(ids) = q + ONE
    <2>1. ONE * (m + 1) = ONE * m + ONE * 1 /\ ONE * 1 = ONE /\ ONE * m \in Nat
      BY UnitsAdd, PairAssumption, ProductNat
    <2> QED
      BY <1>3, <2>1 DEF ArrayFractions
  <1>5. /\ ONE \in Nat /\ u \in Accounts
        /\ balanceOf \in [Accounts -> Nat] /\ Owed \in [Accounts -> Nat]
        /\ Outside = Shifted(balanceOf, Owed)
    BY OwedFacts, AccountsFinite, PairAssumption DEF AtomicInv, CallsInv, IInv, TypesNat
  <1>6. ASSUME NEW a \in Accounts
        PROVE  Owed'[a] = IF a = u THEN Owed[a] + q ELSE Owed[a]
    <2>1. PICK c \in Nat : c = Cardinality(DebtsTo(a))
      BY DebtsFinite, FS_Subset, FS_CardinalityType DEF DebtsTo, AtomicInv, CallsInv
    <2>2. ONE * (c + m) = ONE * c + ONE * m
      BY UnitsAdd
    <2>3. Cardinality(DebtsTo(a)') = IF a = u THEN c + m ELSE c
      BY <1>2, <1>3, <2>1
    <2> QED
      BY <1>4, <2>1, <2>2, <2>3 DEF Owed
  <1>7. OneBurned(u)
    <2>1. PICK after :
            /\ after = Outside' /\ after = [a \in Accounts |-> after[a]]
            /\ \A a \in Accounts : after[a] = balanceOf'[a] + Owed'[a]
      <3>1. Outside' = [a \in Accounts |-> balanceOf'[a] + Owed'[a]]
        BY DEF Outside, Owed
      <3> QED
        BY <3>1
    <2>2. /\ Outside \in [Accounts -> Nat]
          /\ \A a \in Accounts : Outside[a] = balanceOf[a] + Owed[a]
      BY <1>5 DEF Shifted
    <2>3. /\ balanceOf'[u] = balanceOf[u] - (q + ONE) /\ q + ONE <= balanceOf[u]
          /\ \A a \in Accounts \ {u} : balanceOf'[a] = balanceOf[a]
      BY <1>1, <1>4, <1>5
    <2>4. after[u] = balanceOf[u] + Owed[u] - ONE /\ ONE <= balanceOf[u] + Owed[u]
      BY <1>4, <1>5, <1>6, <2>1, <2>3, SMTT(20)
    <2>5. after[u] = Outside[u] - ONE /\ ONE <= Outside[u]
      BY <1>5, <2>2, <2>4
    <2>6. \A a \in Accounts \ {u} : after[a] = Outside[a]
      BY <1>6, <2>1, <2>2, <2>3
    <2>7. after = Burned(Outside, u, ONE) /\ CanDebit(Outside, u, ONE)
      BY <1>5, <2>1, <2>2, <2>5, <2>6, OneBurnedByAccount, ZenonT(30)
    <2> QED
      BY <2>1, <2>7 DEF OneBurned
  <1> QED
    BY <1>1, <1>7, SendOutside

\* Each of the others.
LEMMA LoopOutside ==
  ASSUME AtomicInv, SendNext
  PROVE  \E u \in Users : Atomic!NftStep(u) /\ OwedFits'
  <1>1. stack # <<>> /\ Top.stage = "sending"
    BY DEF SendNext
  <1>2. SendOne(Below, Top.caller, Top.ids, FALSE)
    BY DEF SendNext
  <1>3. PICK u \in Users : u = Top.caller
    BY <1>1, StackFacts DEF AtomicInv, CallsInv
  <1>4. /\ Sending(Head(Top.ids), u)
        /\ Interrupt(Below, Top.caller, Tail(Top.ids), "sending")
        /\ UNCHANGED tokens
    BY <1>1, <1>2, <1>3, LoopFacts DEF AtomicInv
  <1>5. /\ Cardinality(DebtsTo(u)) \in Nat \ {0}
        /\ \A a \in Accounts :
               Cardinality(DebtsTo(a)') = IF a = u
                   THEN Cardinality(DebtsTo(a)) - 1 ELSE Cardinality(DebtsTo(a))
    BY <1>1, <1>3, <1>4, OwedInLoop DEF AtomicInv, CallsInv
  <1>6. PICK m \in Nat : Cardinality(DebtsTo(u)) = m + 1
    <2>1. /\ Cardinality(DebtsTo(u)) - 1 \in Nat
          /\ Cardinality(DebtsTo(u)) = (Cardinality(DebtsTo(u)) - 1) + 1
      BY <1>5
    <2> QED
      BY <2>1
  <1>7. PICK q \in Nat : q = ONE * m /\ Owed[u] = q + ONE /\ Owed'[u] = q
    <2>1. ONE * (m + 1) = ONE * m + ONE * 1 /\ ONE * 1 = ONE /\ ONE * m \in Nat
      BY UnitsAdd, PairAssumption, ProductNat
    <2>2. u \in Accounts /\ Cardinality(DebtsTo(u)') = m
      BY <1>5, <1>6, AccountsFinite
    <2> QED
      BY <1>6, <2>1, <2>2 DEF Owed
  <1>8. /\ ONE \in Nat /\ u \in Accounts
        /\ balanceOf \in [Accounts -> Nat] /\ Owed \in [Accounts -> Nat]
        /\ Outside = Shifted(balanceOf, Owed) /\ balanceOf' = balanceOf
    BY <1>4, OwedFacts, AccountsFinite, PairAssumption
    DEF AtomicInv, CallsInv, IInv, TypesNat, tokens
  <1>9. OneBurned(u)
    <2>1. PICK after :
            /\ after = Outside' /\ after = [a \in Accounts |-> after[a]]
            /\ \A a \in Accounts : after[a] = balanceOf[a] + Owed'[a]
      <3>1. Outside' = [a \in Accounts |-> balanceOf[a] + Owed'[a]]
        BY <1>8 DEF Outside, Owed
      <3> QED
        BY <3>1
    <2>2. /\ Outside \in [Accounts -> Nat]
          /\ \A a \in Accounts : Outside[a] = balanceOf[a] + Owed[a]
      BY <1>8 DEF Shifted
    <2>3. after[u] = Outside[u] - ONE /\ ONE <= Outside[u]
      BY <1>7, <1>8, <2>1, <2>2
    <2>4. \A a \in Accounts \ {u} : after[a] = Outside[a]
      BY <1>5, <2>1, <2>2 DEF Owed
    <2>5. after = Burned(Outside, u, ONE) /\ CanDebit(Outside, u, ONE)
      BY <1>8, <2>1, <2>2, <2>3, <2>4, OneBurnedByAccount
    <2> QED
      BY <2>1, <2>5 DEF OneBurned
  <1> QED
    BY <1>4, <1>9, SendOutside

---------------------------------------------------------------------------
(* The other steps, and the theorem.                                       *)

\* A step that leaves the fractional supply and the stack alone.
LEMMA SupplyKeptOutside ==
  ASSUME AtomicInv, Debts' = Debts, UNCHANGED totalSupply
  PROVE  OwedFits' /\ AllOwed' = AllOwed
  BY DEF AtomicInv, OwedFits, AllOwed

LEMMA AmmOutside ==
  ASSUME AtomicInv, NEW u \in Users, AmmStep(u), UNCHANGED stack
  PROVE  Atomic!AmmStep(u) /\ OwedFits'
  <1> USE BoundsAssumption
  <1>1. Owed' = Owed /\ AllOwed' = AllOwed /\ Debts' = Debts
    BY DEF Owed, AllOwed, DebtsTo, Debts
  <1>2. Outside = Shifted(balanceOf, Owed) /\ Shiftable(balanceOf, Owed, AllOwed)
    BY <1>1, SameCalls, OwedFacts DEF AtomicInv
  <1>3. OwedFits'
    BY <1>1, SupplyKeptOutside DEF AmmStep, Add, Remove, Buy, Sell
  <1>4. ASSUME NEW base \in Amount, NEW frac \in Amount, NEW minLp \in Limit,
               Add(u, base, frac, minLp, EtherFor(base))
        PROVE  Atomic!AmmStep(u)
    <2>1. Atomic!AddLiquidity(Outside, u, base, frac, minLp, EtherFor(base))
      BY <1>1, <1>2, <1>4, AddOutside DEF Add
    <2>2. Atomic!Add(u, base, frac, minLp, EtherFor(base))
      BY <1>1, <1>4, <2>1 DEF Add, Atomic!Add, Outside, AllOwed, Atomic!lifecycle, lifecycle
    <2> QED
      BY <2>2, SameCounts DEF Atomic!AmmStep
  <1>5. ASSUME NEW lp \in Amount, NEW minBase \in Limit, NEW minFrac \in Limit,
               Remove(u, lp, minBase, minFrac)
        PROVE  Atomic!AmmStep(u)
    BY <1>1, <1>5, RemoveOutside DEF Atomic!AmmStep
  <1>6. ASSUME NEW out \in Amount, NEW maxInput \in Limit,
               Buy(u, out, maxInput, EtherFor(maxInput))
        PROVE  Atomic!AmmStep(u)
    BY <1>1, <1>6, BuyOutside, SameCounts DEF Atomic!AmmStep
  <1>7. ASSUME NEW in \in Amount, NEW minOut \in Limit, Sell(u, in, minOut)
        PROVE  Atomic!AmmStep(u)
    <2>1. Atomic!SellFractions(Outside, u, in, minOut)
      BY <1>1, <1>2, <1>7, SellOutside DEF Sell
    <2>2. Atomic!Sell(u, in, minOut)
      BY <1>1, <1>7, <2>1 DEF Sell, Atomic!Sell, Outside, AllOwed, Atomic!lifecycle, lifecycle
    <2> QED
      BY <2>2 DEF Atomic!AmmStep
  <1> QED
    BY <1>3, <1>4, <1>5, <1>6, <1>7 DEF AmmStep

\* close and withdraw, the transfers and the owner of the factory.
LEMMA AroundOutside ==
  ASSUME AtomicInv, NEW u \in Users, ExitStep(u) \/ OutsideStep(u), UNCHANGED stack
  PROVE  (Atomic!ExitStep(u) \/ Atomic!OutsideStep(u)) /\ OwedFits'
  <1> USE BoundsAssumption
  <1>1. Owed' = Owed /\ AllOwed' = AllOwed /\ Debts' = Debts
    BY DEF Owed, AllOwed, DebtsTo, Debts
  <1>2. /\ Outside = Shifted(balanceOf, Owed) /\ Outside' = Shifted(balanceOf', Owed)
        /\ Shiftable(balanceOf, Owed, AllOwed)
        /\ UNCHANGED balanceOf => UNCHANGED Outside
        /\ UNCHANGED totalSupply => UNCHANGED (totalSupply + AllOwed)
    BY <1>1, SameCalls, OwedFacts DEF AtomicInv
  <1>3. OwedFits'
    BY <1>1, SupplyKeptOutside
    DEF ExitStep, Close, Withdraw, OutsideStep, FracTransfer, LpTransfer,
        BaseTransfer, NftTransfer, TransferOwnership, tokens
  <1>4. ASSUME NEW to \in Accounts \ {u}, NEW amount \in Amount,
               FracTransfer(u, to, amount)
        PROVE  Atomic!OutsideStep(u)
    <2>1. /\ CanDebit(Outside, u, amount)
          /\ Outside' = TransferFrom(Outside, u, to, amount)
      BY <1>2, <1>4, AccountsFinite, ShiftedTransfer DEF FracTransfer
    <2>2. Atomic!FracTransfer(u, to, amount)
      BY <1>2, <1>4, <2>1, SameLedger
      DEF FracTransfer, Atomic!FracTransfer, Outside, AllOwed, Atomic!lpToken,
          lpToken, Atomic!lifecycle, lifecycle
    <2> QED
      BY <2>2, SameCounts DEF Atomic!OutsideStep
  <1>5. CASE UNCHANGED tokens
    <2>1. UNCHANGED Atomic!tokens
      BY <1>2, <1>5 DEF tokens, Atomic!tokens, Outside, AllOwed
    <2>2. CASE Close(u)
      <3>1. Atomic!Close(u)
        BY <2>1, <2>2 DEF Close, Atomic!Close, DestroyAccepts, Atomic!DestroyAccepts,
                          lpToken, Atomic!lpToken
      <3> QED
        BY <3>1, <1>3 DEF Atomic!ExitStep
    <2>3. ASSUME NEW id \in NFTs, Withdraw(u, id) PROVE Atomic!ExitStep(u)
      <3>1. Atomic!Withdraw(u, id)
        BY <2>1, <2>3 DEF Withdraw, Atomic!Withdraw, GraceOver, Atomic!GraceOver,
                          lpToken, Atomic!lpToken, lifecycle, Atomic!lifecycle
      <3> QED
        BY <3>1 DEF Atomic!ExitStep
    <2>4. ASSUME NEW to \in Accounts \ {u}, NEW amount \in Amount,
                 LpTransfer(u, to, amount) \/ BaseTransfer(u, to, amount)
          PROVE  Atomic!OutsideStep(u)
      <3>1. Atomic!LpTransfer(u, to, amount) \/ Atomic!BaseTransfer(u, to, amount)
        BY <2>1, <2>4, SameLedger
        DEF LpTransfer, Atomic!LpTransfer, BaseTransfer, Atomic!BaseTransfer,
            lpToken, Atomic!lpToken, lifecycle, Atomic!lifecycle
      <3> QED
        BY <3>1, SameCounts DEF Atomic!OutsideStep
    <2>5. ASSUME NEW to \in Accounts \ {u}, NEW id \in NFTs, NftTransfer(u, to, id)
          PROVE  Atomic!OutsideStep(u)
      <3>1. Atomic!NftTransfer(u, to, id)
        BY <2>1, <2>5 DEF NftTransfer, Atomic!NftTransfer, lpToken, Atomic!lpToken,
                          lifecycle, Atomic!lifecycle
      <3> QED
        BY <3>1, SameCounts DEF Atomic!OutsideStep
    <2>6. ASSUME NEW newOwner \in Owners, TransferOwnership(u, newOwner)
          PROVE  Atomic!OutsideStep(u)
      <3>1. Atomic!TransferOwnership(u, newOwner)
        BY <2>1, <2>6 DEF TransferOwnership, Atomic!TransferOwnership,
                          lpToken, Atomic!lpToken
      <3> QED
        BY <3>1 DEF Atomic!OutsideStep
    <2>7. CASE \E to \in Accounts \ {u}, amount \in Amount : FracTransfer(u, to, amount)
      BY <1>3, <1>4, <2>7
    <2> QED
      BY <1>3, <2>2, <2>3, <2>4, <2>5, <2>6, <2>7 DEF ExitStep, OutsideStep
  <1>6. CASE \E to \in Accounts \ {u}, amount \in Amount : FracTransfer(u, to, amount)
    BY <1>3, <1>4, <1>6
  <1>7. UNCHANGED tokens \/ \E to \in Accounts \ {u}, amount \in Amount :
                                FracTransfer(u, to, amount)
    BY DEF ExitStep, Close, Withdraw, OutsideStep, LpTransfer, BaseTransfer,
           NftTransfer, TransferOwnership, tokens
  <1> QED
    BY <1>5, <1>6, <1>7

\* nftBuy and nftRemove up to their unwrap are a buy and a remove.
LEMMA TradeOutside ==
  ASSUME AtomicInv, NEW u \in Users, NEW ids \in Arrays,
         \/ \E maxInput \in Limit : NftBuyCall(u, ids, maxInput)
         \/ \E lp \in Amount, minBase \in Limit : NftRemoveCall(u, lp, minBase, ids)
  PROVE  Atomic!AmmStep(u) /\ OwedFits'
  <1> USE BoundsAssumption, CallsAssumption
  <1>1. PICK amount \in Nat :
          amount = ArrayFractions(ids) /\ (ids # <<>> => amount \in Amount)
    <2>1. ids # <<>> => Len(ids) \in 1..MaxIds
      BY ArrayFacts
    <2> QED
      BY <2>1, ArrayFractionsNat DEF ArrayFractions
  <1>2. PICK stage \in Stages \ {"sending"} :
          /\ Interrupt(stack, u, ids, stage)
          /\ \/ amount \in Amount /\ \E maxInput \in Limit :
                    Buy(u, amount, maxInput, EtherFor(maxInput))
             \/ \E lp \in Amount, minBase \in Limit : Remove(u, lp, minBase, amount)
    BY <1>1 DEF NftBuyCall, NftRemoveCall, Stages
  <1>3. Owed' = Owed /\ AllOwed' = AllOwed /\ Debts' = Debts
    <2>1. Debts' = Debts
      BY <1>2, NothingOwedBefore DEF AtomicInv, CallsInv
    <2>2. \A i \in 1..Len(stack) : stack'[i] = stack[i]
      BY <1>2, InterruptFacts DEF AtomicInv, CallsInv
    <2>3. \A d \in Debts : stack'[d[1]].caller = stack[d[1]].caller
      BY <2>2 DEF Debts
    <2>4. \A a \in Accounts : DebtsTo(a)' = DebtsTo(a)
      BY <2>1, <2>3 DEF DebtsTo
    <2> QED
      BY <2>1, <2>4 DEF Owed, AllOwed
  <1>4. OwedFits'
    BY <1>2, <1>3, SupplyKeptOutside DEF Buy, Remove
  <1>5. ASSUME NEW maxInput \in Limit, amount \in Amount,
               Buy(u, amount, maxInput, EtherFor(maxInput))
        PROVE  Atomic!AmmStep(u)
    BY <1>3, <1>5, BuyOutside, SameCounts DEF Atomic!AmmStep
  <1>6. ASSUME NEW lp \in Amount, NEW minBase \in Limit, Remove(u, lp, minBase, amount)
        PROVE  Atomic!AmmStep(u)
    <2>1. RemoveFracQuote(lp, FractionalTokenReserves, lpTotalSupply) >= 0
      <3>1. RemoveLiquidity(u, lp, minBase, amount)
        BY <1>6 DEF Remove
      <3>2. /\ lp <= lpTotalSupply /\ lpTotalSupply \in Nat \ {0}
            /\ FractionalTokenReserves \in Nat
        BY <1>1, <3>1, RemoveFacts, PoolNat DEF AtomicInv, CallsInv, IInv
      <3> QED
        BY <3>2, RemoveShare DEF RemoveFracQuote
    <2>2. Remove(u, lp, minBase, 0)
      BY <1>6, <2>1 DEF Remove, RemoveLiquidity
    <2>3. Atomic!Remove(u, lp, minBase, 0)
      BY <1>3, <2>2, RemoveOutside
    <2> QED
      BY <2>3 DEF Atomic!AmmStep
  <1> QED
    BY <1>2, <1>4, <1>5, <1>6

\* The operations of one user.
LEMMA UserOutside ==
  ASSUME AtomicInv, NEW u \in Users, PlainStep(u) \/ InterruptedStep(u)
  PROVE  AtomicStep /\ OwedFits'
  <1>1. ASSUME Atomic!AmmStep(u) \/ Atomic!NftStep(u) \/ Atomic!ExitStep(u)
                   \/ Atomic!OutsideStep(u)
        PROVE  AtomicStep
    BY <1>1 DEF AtomicStep, Atomic!Next
  <1>2. CASE PlainStep(u)
    BY <1>1, <1>2, AmmOutside, EnterOutside, AroundOutside DEF PlainStep
  <1>3. CASE InterruptedStep(u)
    <2>1. ASSUME NEW ids \in Arrays, UnwrapCall(u, ids)
          PROVE  Atomic!NftStep(u) /\ OwedFits'
      BY <2>1, StartOutside DEF UnwrapCall, AtomicInv, CallsInv
    <2>2. ASSUME NEW ids \in Arrays,
                 \/ \E maxInput \in Limit : NftBuyCall(u, ids, maxInput)
                 \/ \E lp \in Amount, minBase \in Limit : NftRemoveCall(u, lp, minBase, ids)
          PROVE  Atomic!AmmStep(u) /\ OwedFits'
      BY <2>2, TradeOutside
    <2> QED
      BY <1>1, <1>3, <2>1, <2>2 DEF InterruptedStep
  <1> QED
    BY <1>2, <1>3

LEMMA CallsNextOutside == AtomicInv /\ [CallsNext]_callVars => AtomicStep /\ OwedFits'
  <1> SUFFICES ASSUME AtomicInv, [CallsNext]_callVars PROVE AtomicStep /\ OwedFits'
    OBVIOUS
  <1>1. ASSUME NEW u \in Users, Atomic!NftStep(u) PROVE AtomicStep
    BY <1>1 DEF AtomicStep, Atomic!Next
  <1>2. CASE Resume
    <2>1. SendOne(Below, Top.caller, Top.ids, TRUE)
      BY <1>2 DEF Resume
    <2>2. /\ stack # <<>> /\ Top.stage # "sending"
          /\ Below \in Seq(Frame) /\ Top.ids \in Arrays \ {<<>>} /\ Top.caller \in Users
      BY <1>2, StackFacts DEF Resume, AtomicInv, CallsInv
    <2> QED
      BY <1>1, <2>1, <2>2, StartOutside
  <1>3. CASE SendNext
    BY <1>1, <1>3, LoopOutside
  <1>4. CASE TickBetween
    <2>1. OwedFits' /\ UNCHANGED <<Outside, totalSupply + AllOwed>>
      BY <1>4 DEF TickBetween, Tick, tokens, Outside, AllOwed, DebtsTo, Debts,
                  AtomicInv, OwedFits
    <2>2. Atomic!Tick
      BY <1>4, <2>1
      DEF TickBetween, Tick, Atomic!Tick, Outside, AllOwed, Atomic!tokens,
          Atomic!lpToken, lpToken
    <2> QED
      BY <2>1, <2>2 DEF AtomicStep, Atomic!Next
  <1>5. CASE UNCHANGED callVars
    <2>1. UNCHANGED vars /\ UNCHANGED <<Outside, AllOwed>>
      BY <1>5 DEF callVars, vars, tokens, Outside, AllOwed, DebtsTo, Debts
    <2>2. OwedFits'
      BY <2>1 DEF vars, tokens, AtomicInv, OwedFits
    <2>3. UNCHANGED Atomic!vars
      BY <2>1 DEF vars, tokens, lpToken, lifecycle, Outside, AllOwed, Atomic!vars,
                  Atomic!tokens, Atomic!lpToken, Atomic!lifecycle
    <2> QED
      BY <2>2, <2>3 DEF AtomicStep
  <1> QED
    BY <1>2, <1>3, <1>4, <1>5, UserOutside DEF CallsNext

LEMMA CallsInitOutside == CallsInit => Atomic!Init /\ OwedFits
  <1> SUFFICES ASSUME CallsInit PROVE Atomic!Init /\ OwedFits
    OBVIOUS
  <1>1. Debts = {} /\ \A a \in Accounts : DebtsTo(a) = {}
    BY EmptySeq DEF CallsInit, Debts, DebtsTo
  <1>2. AllOwed = 0 /\ \A a \in Accounts : ONE * Cardinality(DebtsTo(a)) = 0
    <2>1. Cardinality({}) = 0 /\ ONE * 0 = 0
      BY FS_EmptySet, PairAssumption
    <2> QED
      BY <1>1, <2>1 DEF AllOwed
  <1>3. totalSupply + AllOwed = 0 /\ OwedFits
    BY <1>2, MaxUintAssumption DEF CallsInit, Init, OwedFits
  <1>4. Outside = [a \in Accounts |-> 0]
    BY <1>2 DEF CallsInit, Init, Outside
  <1> QED
    BY <1>3, <1>4, SameCounts DEF CallsInit, Init, Atomic!Init, Outside, AllOwed

\* Callbacks add nothing to Pair, for any number of nested calls: the contract
\* takes no step, and is at no moment in a state, that atomic calls could not
\* bring about.
THEOREM CallsImplementAtomic == CallsSpec => CallsAreAtomic
  <1>1. CallsInit => AtomicInv
    BY CallsInitInv, CallsInitOutside DEF AtomicInv
  <1>2. AtomicInv /\ [CallsNext]_callVars => AtomicInv' /\ AtomicStep
    BY CallsNextStep, CallsStutter, CallsNextOutside
    DEF AtomicInv, CallsStep, GoodStep, CallsInv
  <1> QED
    BY <1>1, <1>2, CallsInitOutside, PTL
    DEF CallsSpec, CallsAreAtomic, Atomic!Spec, AtomicStep
===========================================================================
