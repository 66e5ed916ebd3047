----------------------------- MODULE PairCalls -----------------------------
(***************************************************************************)
(* Pair with the callbacks: a call is interrupted where the code hands     *)
(* control to its caller in the middle of an operation, and the caller,    *)
(* or any contract it asks, calls the pair again.  That is so              *)
(*   - in unwrap, after each NFT that is sent but the last (the receiver's *)
(*     onERC721Received), when all fractions are burned already;           *)
(*   - in nftBuy and nftRemove, when ether is paid out and the NFTs are    *)
(*     not unwrapped yet.                                                  *)
(* A callback at the very end of a call (sell, remove, buy, withdraw, the  *)
(* last NFT of unwrap) is a call that follows it.                          *)
(*                                                                         *)
(* Token ids are passed as arrays, and the same id may be in one twice:    *)
(* the second transfer of unwrap succeeds if the receiver of the first has *)
(* sent the NFT back in its callback.  wrap has no such case: its receiver *)
(* is the pair.                                                            *)
(*                                                                         *)
(* stack holds what is left to do of the interrupted calls, the innermost  *)
(* last.  A call that cannot go on is reverted, which takes the system     *)
(* back to the state before that call, a state this behaviour has passed;  *)
(* here such a call simply never ends.                                     *)
(***************************************************************************)
EXTENDS Pair, Sequences

CONSTANTS         \* bounds of the model
    MaxDepth,     \* calls interrupted at the same time
    MaxIds        \* length of a token id array

\* The bounds of the model cover what nftBuy and nftRemove pass on to buy and
\* remove; and a whole collection fits the word.
ASSUME CallsAssumption ==
    /\ MaxDepth \in Nat /\ MaxIds \in Nat
    /\ 0 \in Limit
    /\ \A n \in 1..MaxIds : ONE * n \in Amount
    /\ ONE * Cardinality(NFTs) <= MaxUint

VARIABLE stack

callVars == <<vars, stack>>

\* uint256[] tokenIds
Arrays == UNION {[1..n -> NFTs] : n \in 0..MaxIds}

\* tokenIds.length * ONE
ArrayFractions(ids) == ONE * Len(ids)

\* running:  the contract goes on to unwrap ids by itself
\* paid:     ether has been sent, its receiver runs; then ids are unwrapped
\* sending:  the fractions for ids are burned, the receiver of an NFT runs
Stages == {"running", "paid", "sending"}
Frame  == [caller : Users, ids : Arrays \ {<<>>}, stage : Stages]

Top   == stack[Len(stack)]
Below == SubSeq(stack, 1, Len(stack) - 1)

\* Code other than the contract's own is running.
MayCall == stack # <<>> => Top.stage # "running"

\* The call on top of rest still has to send ids.
Interrupt(rest, u, ids, stage) ==
    /\ ids # <<>> => Len(rest) < MaxDepth
    /\ stack' = IF ids = <<>> THEN rest
                ELSE Append(rest, [caller |-> u, ids |-> ids, stage |-> stage])

---------------------------------------------------------------------------
\* _burn; each reverts without the fractions it asks for.
Pays(u, amount) ==
    /\ Fits(amount)
    /\ CanDebit(balanceOf, u, amount)
    /\ balanceOf' = Burned(balanceOf, u, amount)
    /\ totalSupply' = SupplyBurned(totalSupply, amount)

\* mutation: every fraction is burned after the transfer of its NFT returns
PaysLate(u, ids, first) ==
    LET sent == (IF first THEN 0 ELSE 1) + (IF Len(ids) = 1 THEN 1 ELSE 0)
    IN  Pays(u, ONE * sent)

\* mutation: the fractions of one NFT pay for the whole array
PaysOnce(u, ids, first) == IF first THEN Pays(u, ONE) ELSE UNCHANGED tokens

\* What unwrap burns before it sends one of the remaining ids: everything
\* before the loop that sends them, nothing in the loop.
PaysAhead(u, ids, first) ==
    IF first THEN Pays(u, ArrayFractions(ids)) ELSE UNCHANGED tokens

\* One round of the loop of unwrap: the transfer of the next of the remaining
\* ids, whose receiver is run.
SendOne(rest, u, ids, first) ==
    /\ PaysAhead(u, ids, first)
    /\ ownerOf[Head(ids)] = PAIR
    /\ ownerOf' = [ownerOf EXCEPT ![Head(ids)] = u]
    /\ Interrupt(rest, u, Tail(ids), "sending")
    /\ UNCHANGED <<lpToken, baseOf, lifecycle>>

\* unwrap; of an empty array it changes nothing, nor does nftBuy.
UnwrapCall(u, ids) ==
    /\ MayCall
    /\ ids # <<>>
    /\ SendOne(stack, u, ids, TRUE)

\* The refund of the buy in this step is not zero.
Refunded(u, maxInput) == NativeBase /\ baseOf[u] - baseOf'[u] < maxInput

\* nftBuy and nftRemove up to their call of unwrap.
NftBuyCall(u, ids, maxInput) ==
    /\ MayCall
    /\ ids # <<>>
    /\ Buy(u, ArrayFractions(ids), maxInput, EtherFor(maxInput))
    /\ Interrupt(stack, u, ids, IF Refunded(u, maxInput) THEN "paid" ELSE "running")

NftRemoveCall(u, lp, minBase, ids) ==
    /\ MayCall
    /\ Remove(u, lp, minBase, ArrayFractions(ids))
    /\ Interrupt(stack, u, ids, IF NativeBase THEN "paid" ELSE "running")

\* The call on top of the stack goes on: it unwraps ...
Resume ==
    /\ stack # <<>> /\ Top.stage # "sending"
    /\ SendOne(Below, Top.caller, Top.ids, TRUE)

\* ... or sends the next NFT.
SendNext ==
    /\ stack # <<>> /\ Top.stage = "sending"
    /\ SendOne(Below, Top.caller, Top.ids, FALSE)

---------------------------------------------------------------------------
\* The operations that nothing interrupts.
EnterStep(u) ==
    \E ids \in SUBSET NFTs :
        \/ Wrap(u, ids)
        \/ \E base \in Amount, minLp \in Limit :
               NftAdd(u, base, ids, minLp, EtherFor(base))
        \/ \E minOut \in Limit : NftSell(u, ids, minOut)

PlainStep(u) ==
    /\ MayCall
    /\ AmmStep(u) \/ EnterStep(u) \/ ExitStep(u) \/ OutsideStep(u)
    /\ UNCHANGED stack

InterruptedStep(u) ==
    \E ids \in Arrays :
        \/ UnwrapCall(u, ids)
        \/ \E maxInput \in Limit : NftBuyCall(u, ids, maxInput)
        \/ \E lp \in Amount, minBase \in Limit : NftRemoveCall(u, lp, minBase, ids)

\* A transaction is in one block.
TickBetween == stack = <<>> /\ Tick /\ UNCHANGED stack

CallsInit == Init /\ stack = <<>>

CallsNext ==
    \/ \E u \in Users : PlainStep(u) \/ InterruptedStep(u)
    \/ Resume
    \/ SendNext
    \/ TickBetween

CallsSpec == CallsInit /\ [][CallsNext]_callVars

---------------------------------------------------------------------------
(* Properties.                                                             *)

\* The transfers that are paid for and not made yet, by the place of the call
\* on the stack and that of the id in its array.
Debts == {d \in (1..Len(stack)) \X (1..MaxIds) :
              stack[d[1]].stage = "sending" /\ d[2] <= Len(stack[d[1]].ids)}
DebtsTo(a) == {d \in Debts : stack[d[1]].caller = a}

\* Seen from outside, an unwrap is one atomic unwrap per place of its array:
\* fractions burned for a transfer not yet made count as if not burned yet.
Atomic == INSTANCE Pair WITH
    balanceOf   <- [a \in Accounts |-> balanceOf[a] + ONE * Cardinality(DebtsTo(a))],
    totalSupply <- totalSupply + ONE * Cardinality(Debts)

\* Whatever its callers do in the middle of their own calls, the contract takes
\* no step that atomic calls could not take: callbacks add nothing to Pair, and
\* its properties hold at every moment at which foreign code runs.  An array
\* with a repeated id is served twice only for an NFT that was given back.
CallsAreAtomic == Atomic!Spec

\* The fractions in circulation and those burned for NFTs on their way are
\* backed together: no call interrupted in unwrap is left without its NFTs by
\* what is unwrapped, bought or removed in its callback.
BackedInCalls ==
    closeTimestamp = 0 \/ now < closeTimestamp
        => totalSupply + ONE * Cardinality(Debts) <= ONE * Cardinality(Held)
===========================================================================
