------------------------------- MODULE Pair -------------------------------
(***************************************************************************)
(* One pair of Penguin Finance (src/Pair.sol) with its LP token            *)
(* (src/LpToken.sol) and the part of the factory (src/Penguin.sol) that    *)
(* closing the pair calls.  Every public operation is one atomic step: the *)
(* EVM runs a transaction to its end or reverts all of it, so a call that  *)
(* fails a check is a step that does not exist.                            *)
(*                                                                         *)
(* Token ids are passed as arrays.  In wrap, nftAdd and nftSell a repeated *)
(* id makes the second safeTransferFrom revert, because the pair already   *)
(* owns the NFT.  In unwrap, nftRemove and nftBuy it reverts too, unless   *)
(* the receiver gives the NFT back inside onERC721Received: such calls,    *)
(* like all others that callbacks interrupt, are in PairCalls.  Here no    *)
(* callback does anything, and the calls that succeed are those on sets    *)
(* of ids.                                                                 *)
(***************************************************************************)
EXTENDS PairMath, Ledger

CONSTANTS
    Users,        \* accounts that send transactions
    PAIR,         \* address(this) of the pair contract
    NFTs,         \* token ids of the collection `nft`
    MerkleIds,    \* token ids that have a proof against merkleRoot
    ZeroRoot,     \* merkleRoot == bytes32(0)
    NativeBase,   \* baseToken == address(0): the base token is ether
    ONE,          \* fractional units per NFT, 1e18 in the code
    Day,          \* "1 days", in ticks of block.timestamp
    Owners,       \* accounts that may own the Penguin factory
    StartBase     \* base tokens each user starts with

CONSTANTS         \* bounds of the model
    Amount,       \* token amounts the callers pass
    Limit,        \* slippage limits the callers pass
    MaxLpSupply,  \* cap on the LP supply; MaxUint is the code's own
    MaxTime       \* last block.timestamp

Accounts == Users \cup {PAIR}

ASSUME PairAssumption ==
    /\ IsFiniteSet(Users) /\ PAIR \notin Users
    /\ IsFiniteSet(NFTs) /\ MerkleIds \subseteq NFTs
    /\ ZeroRoot \in BOOLEAN /\ NativeBase \in BOOLEAN
    /\ ONE \in Nat \ {0} /\ Day \in Nat \ {0}
    /\ Owners # {} /\ PAIR \notin Owners
    /\ StartBase \in [Users -> Nat] /\ Total(StartBase) <= MaxUint

ASSUME BoundsAssumption ==
    /\ Amount \subseteq Nat /\ Limit \subseteq Nat
    /\ MaxLpSupply \in Nat /\ MaxLpSupply <= MaxUint
    /\ MaxTime \in Nat

VARIABLES
    balanceOf,       \* fractional token: balance of each account
    totalSupply,     \* fractional token: supply
    lpBalanceOf,     \* lpToken: balance of each account
    lpTotalSupply,   \* lpToken: supply
    baseOf,          \* base token (or ether) of each account
    ownerOf,         \* owner of each token id
    closeTimestamp,  \* end of the grace period, 0 while the pair is open
    registered,      \* penguin.pairs[nft][baseToken][merkleRoot] is this pair
    owner,           \* penguin.owner()
    now              \* block.timestamp

tokens    == <<balanceOf, totalSupply>>
lpToken   == <<lpBalanceOf, lpTotalSupply>>
lifecycle == <<closeTimestamp, registered, owner, now>>
vars      == <<tokens, lpToken, baseOf, ownerOf, lifecycle>>

---------------------------------------------------------------------------
(* Reserves *)

BaseTokenReservesGross(base, value) == base[PAIR]   \* mutation: msg.value is kept in

\* _baseTokenReserves: with ether the value of the call is already part of
\* address(this).balance and is subtracted again.
BaseTokenReserves(base, value) ==
    IF NativeBase THEN base[PAIR] - value ELSE base[PAIR]

FractionalTokenReserves == balanceOf[PAIR]

\* The NFTs the contract holds.
Held == {id \in NFTs : ownerOf[id] = PAIR}

\* "Invalid ether input": the only msg.value a payable call accepts.
EtherFor(amount) == IF NativeBase THEN amount ELSE 0

\* Balances once the ether sent with the call has reached the contract.
Credited(u, value) == Pay(baseOf, u, PAIR, value)

---------------------------------------------------------------------------
(* Core AMM: add, remove, buy, sell.                                       *)
(*                                                                         *)
(* nftAdd, nftRemove, nftBuy and nftSell run a second operation in the     *)
(* same transaction, so each operation is split into what it does to the   *)
(* other ledgers (an action) and the fractional balances it leaves.        *)

\* add, run when the fractional balances are bal.
AddLiquidity(bal, u, base, frac, minLp, value) ==
    LET B  == BaseTokenReserves(Credited(u, value), value)
        F  == bal[PAIR]
        lp == AddQuote(base, frac, B, F, lpTotalSupply)
    IN  /\ base > 0 /\ frac > 0
        /\ value = EtherFor(base)
        /\ base <= baseOf[u]
        /\ CanDebit(bal, u, frac)
        /\ AddQuoteOk(base, frac, B, F, lpTotalSupply)
        /\ lp >= minLp
        /\ SupplyMinted(lpTotalSupply, lp) <= MaxLpSupply
        /\ balanceOf' = TransferFrom(bal, u, PAIR, frac)
        /\ lpBalanceOf' = Minted(lpBalanceOf, u, lp)
        /\ lpTotalSupply' = SupplyMinted(lpTotalSupply, lp)
        /\ baseOf' = IF NativeBase THEN Credited(u, value)
                                   ELSE Pay(baseOf, u, PAIR, base)

Add(u, base, frac, minLp, value) ==
    /\ AddLiquidity(balanceOf, u, base, frac, minLp, value)
    /\ UNCHANGED <<totalSupply, ownerOf, lifecycle>>

\* remove; its fractional tokens are paid out by RemoveBalances.
RemoveLiquidity(u, lp, minBase, minFrac) ==
    LET B       == BaseTokenReserves(baseOf, 0)
        baseOut == RemoveBaseQuote(lp, B, lpTotalSupply)
    IN  /\ RemoveQuoteOk(lp, B, FractionalTokenReserves, lpTotalSupply)
        /\ baseOut >= minBase
        /\ RemoveFracQuote(lp, FractionalTokenReserves, lpTotalSupply) >= minFrac
        /\ lp <= lpBalanceOf[u]
        /\ lpBalanceOf' = Burned(lpBalanceOf, u, lp)
        /\ lpTotalSupply' = SupplyBurned(lpTotalSupply, lp)
        /\ baseOf' = Pay(baseOf, PAIR, u, baseOut)

RemoveBalances(u, lp) ==
    TransferFrom(balanceOf, PAIR, u,
                 RemoveFracQuote(lp, FractionalTokenReserves, lpTotalSupply))

Remove(u, lp, minBase, minFrac) ==
    /\ RemoveLiquidity(u, lp, minBase, minFrac)
    /\ balanceOf' = RemoveBalances(u, lp)
    /\ UNCHANGED <<totalSupply, ownerOf, lifecycle>>

RefundNothing(maxInput, in) == 0   \* mutation: the surplus is kept

\* "refund surplus eth"
Refund(maxInput, in) == maxInput - in

\* buy; ether beyond the price is sent back in the same call.
BuyFractions(u, out, maxInput, value) ==
    LET B  == BaseTokenReserves(Credited(u, value), value)
        in == BuyQuote(out, B, FractionalTokenReserves)
    IN  /\ value = EtherFor(maxInput)
        /\ value <= baseOf[u]
        /\ BuyQuoteOk(out, B, FractionalTokenReserves)
        /\ in <= maxInput
        /\ in <= baseOf[u]
        /\ baseOf' = IF NativeBase
                     THEN Pay(Credited(u, value), PAIR, u, Refund(maxInput, in))
                     ELSE Pay(baseOf, u, PAIR, in)
        /\ UNCHANGED lpToken

BuyBalances(u, out) == TransferFrom(balanceOf, PAIR, u, out)

Buy(u, out, maxInput, value) ==
    /\ BuyFractions(u, out, maxInput, value)
    /\ balanceOf' = BuyBalances(u, out)
    /\ UNCHANGED <<totalSupply, ownerOf, lifecycle>>

\* sell, run when the fractional balances are bal.
SellFractions(bal, u, in, minOut) ==
    LET B   == BaseTokenReserves(baseOf, 0)
        out == SellQuote(in, B, bal[PAIR])
    IN  /\ SellQuoteOk(in, B, bal[PAIR])
        /\ out >= minOut
        /\ CanDebit(bal, u, in)
        /\ balanceOf' = TransferFrom(bal, u, PAIR, in)
        /\ baseOf' = Pay(baseOf, PAIR, u, out)
        /\ UNCHANGED lpToken

Sell(u, in, minOut) ==
    /\ SellFractions(balanceOf, u, in, minOut)
    /\ UNCHANGED <<totalSupply, ownerOf, lifecycle>>

---------------------------------------------------------------------------
(* NFT wrapping *)

\* tokenIds.length * ONE
Fractions(ids) == ONE * Cardinality(ids)

\* _validateTokenIds, by what the Merkle proofs establish.
ValidTokenIds(ids) == ZeroRoot \/ ids \subseteq MerkleIds

\* wrap; its fractional tokens are minted by WrapBalances.
WrapNfts(u, ids) ==
    /\ ValidTokenIds(ids)
    /\ closeTimestamp = 0
    /\ Fits(Fractions(ids))
    /\ Fits(totalSupply + Fractions(ids))
    /\ \A id \in ids : ownerOf[id] = u
    /\ totalSupply' = SupplyMinted(totalSupply, Fractions(ids))
    /\ ownerOf' = [id \in NFTs |-> IF id \in ids THEN PAIR ELSE ownerOf[id]]
    /\ UNCHANGED lifecycle

WrapBalances(u, ids) == Minted(balanceOf, u, Fractions(ids))

Wrap(u, ids) ==
    /\ WrapNfts(u, ids)
    /\ balanceOf' = WrapBalances(u, ids)
    /\ UNCHANGED <<lpToken, baseOf>>

\* unwrap, run when the fractional balances are bal.
UnwrapNfts(bal, u, ids) ==
    /\ Fits(Fractions(ids))
    /\ CanDebit(bal, u, Fractions(ids))
    /\ \A id \in ids : ownerOf[id] = PAIR
    /\ balanceOf' = Burned(bal, u, Fractions(ids))
    /\ totalSupply' = SupplyBurned(totalSupply, Fractions(ids))
    /\ ownerOf' = [id \in NFTs |-> IF id \in ids THEN u ELSE ownerOf[id]]
    /\ UNCHANGED lifecycle

Unwrap(u, ids) ==
    /\ UnwrapNfts(balanceOf, u, ids)
    /\ UNCHANGED <<lpToken, baseOf>>

---------------------------------------------------------------------------
(* NFT AMM: a wrap or an unwrap and an AMM operation in one transaction.   *)

NftAdd(u, base, ids, minLp, value) ==
    /\ WrapNfts(u, ids)
    /\ AddLiquidity(WrapBalances(u, ids), u, base, Fractions(ids), minLp, value)

NftRemove(u, lp, minBase, ids) ==
    /\ RemoveLiquidity(u, lp, minBase, Fractions(ids))
    /\ UnwrapNfts(RemoveBalances(u, lp), u, ids)

NftBuy(u, ids, maxInput, value) ==
    /\ BuyFractions(u, Fractions(ids), maxInput, value)
    /\ UnwrapNfts(BuyBalances(u, Fractions(ids)), u, ids)

NftSell(u, ids, minOut) ==
    /\ WrapNfts(u, ids)
    /\ SellFractions(WrapBalances(u, ids), u, Fractions(ids), minOut)

---------------------------------------------------------------------------
(* Emergency exit *)

DestroyAcceptsAny == TRUE   \* mutation: destroy does not look at its caller

\* penguin.destroy: "Only pair can destroy itself".
DestroyAccepts == registered

\* close, with the penguin.destroy call it makes: the factory accepts it only
\* from the pair registered under the key, and unregisters that pair.
Close(u) ==
    /\ u = owner
    /\ DestroyAccepts
    /\ closeTimestamp' = now + Day
    /\ registered' = FALSE
    /\ UNCHANGED <<tokens, lpToken, baseOf, ownerOf, owner, now>>

GraceOverOrOpen == now >= closeTimestamp   \* mutation: no "Withdraw not initiated"

\* "Withdraw not initiated", "Not withdrawable yet"
GraceOver == closeTimestamp # 0 /\ now >= closeTimestamp

Withdraw(u, id) ==
    /\ u = owner
    /\ GraceOver
    /\ ownerOf[id] = PAIR
    /\ ownerOf' = [ownerOf EXCEPT ![id] = u]
    /\ UNCHANGED <<tokens, lpToken, baseOf, lifecycle>>

---------------------------------------------------------------------------
(* What happens around the pair: transfers of its tokens between accounts  *)
(* (also to the contract itself), the ownership of the factory, and time.  *)

FracTransfer(u, to, amount) ==
    /\ CanDebit(balanceOf, u, amount)
    /\ balanceOf' = TransferFrom(balanceOf, u, to, amount)
    /\ UNCHANGED <<totalSupply, lpToken, baseOf, ownerOf, lifecycle>>

LpTransfer(u, to, amount) ==
    /\ CanDebit(lpBalanceOf, u, amount)
    /\ lpBalanceOf' = TransferFrom(lpBalanceOf, u, to, amount)
    /\ UNCHANGED <<tokens, lpTotalSupply, baseOf, ownerOf, lifecycle>>

\* The contract has no receive function: plain ether transfers to it revert.
BaseTransfer(u, to, amount) ==
    /\ amount <= baseOf[u]
    /\ NativeBase => to # PAIR
    /\ baseOf' = Pay(baseOf, u, to, amount)
    /\ UNCHANGED <<tokens, lpToken, ownerOf, lifecycle>>

NftTransfer(u, to, id) ==
    /\ ownerOf[id] = u
    /\ ownerOf' = [ownerOf EXCEPT ![id] = to]
    /\ UNCHANGED <<tokens, lpToken, baseOf, lifecycle>>

TransferOwnership(u, newOwner) ==
    /\ u = owner
    /\ owner' = newOwner
    /\ UNCHANGED <<tokens, lpToken, baseOf, ownerOf, closeTimestamp, registered, now>>

Tick ==
    /\ now < MaxTime
    /\ now' = now + 1
    /\ UNCHANGED <<tokens, lpToken, baseOf, ownerOf, closeTimestamp, registered, owner>>

---------------------------------------------------------------------------
\* A pair fresh from Penguin.create; time starts after the epoch.
Init ==
    /\ balanceOf = [a \in Accounts |-> 0] /\ totalSupply = 0
    /\ lpBalanceOf = [a \in Accounts |-> 0] /\ lpTotalSupply = 0
    /\ baseOf = [a \in Accounts |-> IF a = PAIR THEN 0 ELSE StartBase[a]]
    /\ ownerOf \in [NFTs -> Users]
    /\ closeTimestamp = 0 /\ registered = TRUE
    /\ owner \in Owners /\ now = 1

AmmStep(u) ==
    \/ \E base, frac \in Amount, minLp \in Limit :
           Add(u, base, frac, minLp, EtherFor(base))
    \/ \E lp \in Amount, minBase, minFrac \in Limit :
           Remove(u, lp, minBase, minFrac)
    \/ \E out \in Amount, maxInput \in Limit :
           Buy(u, out, maxInput, EtherFor(maxInput))
    \/ \E in \in Amount, minOut \in Limit : Sell(u, in, minOut)

NftStep(u) ==
    \E ids \in SUBSET NFTs :
        \/ Wrap(u, ids)
        \/ Unwrap(u, ids)
        \/ \E base \in Amount, minLp \in Limit :
               NftAdd(u, base, ids, minLp, EtherFor(base))
        \/ \E lp \in Amount, minBase \in Limit : NftRemove(u, lp, minBase, ids)
        \/ \E maxInput \in Limit : NftBuy(u, ids, maxInput, EtherFor(maxInput))
        \/ \E minOut \in Limit : NftSell(u, ids, minOut)

ExitStep(u) == Close(u) \/ \E id \in NFTs : Withdraw(u, id)

OutsideStep(u) ==
    \/ \E to \in Accounts \ {u}, amount \in Amount :
           FracTransfer(u, to, amount) \/ LpTransfer(u, to, amount)
               \/ BaseTransfer(u, to, amount)
    \/ \E to \in Accounts \ {u}, id \in NFTs : NftTransfer(u, to, id)
    \/ \E newOwner \in Owners : TransferOwnership(u, newOwner)

Next == (\E u \in Users : OutsideStep(u) \/ ExitStep(u) \/ AmmStep(u) \/ NftStep(u))
        \/ Tick

Spec == Init /\ [][Next]_vars

---------------------------------------------------------------------------
(* Properties.                                                             *)

BaseReserves == baseOf[PAIR]

\* Every balance and supply is an amount the EVM word can represent: no debit
\* goes below zero, and no base token is paid that nobody had.  (That no credit
\* wraps around is LedgersAddUp: a wrapped balance is still a word.)
TypeOK ==
    /\ balanceOf \in [Accounts -> 0..MaxUint] /\ totalSupply \in 0..MaxUint
    /\ lpBalanceOf \in [Accounts -> 0..MaxUint] /\ lpTotalSupply \in 0..MaxUint
    /\ baseOf \in [Accounts -> 0..MaxUint]
    /\ ownerOf \in [NFTs -> Accounts]
    /\ closeTimestamp \in Nat /\ registered \in BOOLEAN
    /\ owner \in Owners /\ now \in Nat \ {0}

\* Both tokens add up: no operation loses or creates a balance without moving
\* the supply by as much.  It is what makes the unchecked halves of
\* _transferFrom (lines 385-389: "the sum of all user balances cannot exceed
\* the max uint256 value"), _mint and _burn safe.
LedgersAddUp ==
    /\ totalSupply = Total(balanceOf)
    /\ lpTotalSupply = Total(lpBalanceOf)

\* Until the grace period of a close has passed, the contract holds an NFT for
\* every ONE fractional units: whoever has them can unwrap (Pair.unwrap, close,
\* withdraw).  It depends on close being possible only once.
Backed ==
    closeTimestamp = 0 \/ now < closeTimestamp
        => totalSupply <= ONE * Cardinality(Held)

\* While LP tokens exist both reserves are positive, whatever sequence of
\* swaps, removals and roundings came before: addQuote and price divide by
\* them, and a swap never pays out the last token of a side.
PoolNeverDrained ==
    lpTotalSupply > 0 => BaseReserves > 0 /\ FractionalTokenReserves > 0

\* When the last LP token is gone no ether is left behind: what buy does not
\* refund and remove does not pay out belongs to somebody (the contract has no
\* other way to send ether).
NoOrphanedEther == NativeBase /\ lpTotalSupply = 0 => BaseReserves = 0

\* The factory lists the pair exactly as long as it is open; otherwise close
\* would revert in penguin.destroy for ever or could be called again.
ListedWhileOpen == registered <=> closeTimestamp = 0

\* A deposit or a removal never lowers what one LP token is a claim on, on
\* either side: the rounding of addQuote and removeQuote favours the LPs that
\* stay in the pool.
KeepsShares ==
    lpTotalSupply > 0 /\ lpTotalSupply' # lpTotalSupply
    => /\ BaseReserves' * lpTotalSupply >= BaseReserves * lpTotalSupply'
       /\ FractionalTokenReserves' * lpTotalSupply
              >= FractionalTokenReserves * lpTotalSupply'
SharesNotDiluted == [][KeepsShares]_vars

\* Swaps follow the curve of the comments of buyQuote and sellQuote, where the
\* input counts for 997/1000, exactly up to one base token: a buyer never pays
\* more than the curve, and less by under one token; a seller never receives
\* more than the curve, and less by under one token.
OnCurve ==
    LET B == BaseReserves             B1 == BaseReserves'
        F == FractionalTokenReserves  F1 == FractionalTokenReserves'
    IN  lpTotalSupply' = lpTotalSupply =>
        /\ F1 < F => /\ F1 * (1000 * B + 997 * (B1 - B)) <= 1000 * B * F
                     /\ F1 * (1000 * B + 997 * (B1 - B + 1)) > 1000 * B * F
        /\ B1 < B => /\ B1 * (1000 * F + 997 * (F1 - F)) >= 1000 * B * F
                     /\ (B1 - 1) * (1000 * F + 997 * (F1 - F)) < 1000 * B * F
SwapsFollowCurve == [][OnCurve]_vars
===========================================================================
