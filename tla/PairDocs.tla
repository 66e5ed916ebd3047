----------------------------- MODULE PairDocs -----------------------------
(***************************************************************************)
(* What the documents and comments of the repository say of a pair and its *)
(* code does not do.  Each of these properties is expected to be violated. *)
(***************************************************************************)
EXTENDS Pair

\* The NFTs that leave in a step for which no fractional units are burned.
Swept == IF totalSupply' = totalSupply THEN Held \ Held' ELSE {}

\* Pair.sol:22 "CLOSE_GRACE_PERIOD = 7 days": the admin withdraws NFTs no
\* earlier than that after the close (close sets closeTimestamp one Day later).
GraceIsSevenDays ==
    [][Swept # {} => now >= (closeTimestamp - Day) + 7 * Day]_vars

\* docs/Security.md:11 "If tokens or NFTs are accidentally sent to the
\* contract, then they cannot be withdrawn": an NFT that cannot be wrapped
\* stays in the contract of a pair that is open.
StrayNftsStay ==
    [][ \A id \in NFTs :
          closeTimestamp' = 0 /\ ~ValidTokenIds({id}) /\ ownerOf[id] = PAIR
          => ownerOf'[id] = PAIR ]_vars

\* docs/Specification.md:3 "uses the xy=k invariant for the swap curve": a
\* purchase never leaves the pool with a smaller product of its reserves.
ProductNeverFalls ==
    [][ /\ lpTotalSupply > 0 /\ lpTotalSupply' = lpTotalSupply
        /\ FractionalTokenReserves' < FractionalTokenReserves
        => BaseReserves' * FractionalTokenReserves'
               >= BaseReserves * FractionalTokenReserves ]_vars
===========================================================================
