----------------------------- MODULE NftVault -----------------------------
(***************************************************************************)
(* What the wrapping side of a pair promises, without accounts or prices:  *)
(* a vault that issues ONE fractional units for each NFT put in and takes  *)
(* them back for each NFT taken out; that stops accepting NFTs when its    *)
(* admin announces the end; and that gives NFTs out for nothing only once  *)
(* the announced deadline has passed.                                      *)
(***************************************************************************)
EXTENDS Integers, FiniteSets

CONSTANTS NFTs, ONE, Day

VARIABLES
    held,      \* NFTs in the vault
    supply,    \* fractional units issued
    deadline,  \* end of the notice, 0 before it is given
    now

vars == <<held, supply, deadline, now>>

Init == held = {} /\ supply = 0 /\ deadline = 0 /\ now > 0

Deposit(ids) ==
    /\ deadline = 0
    /\ ids \cap held = {}
    /\ held' = held \cup ids
    /\ supply' = supply + ONE * Cardinality(ids)
    /\ UNCHANGED <<deadline, now>>

Redeem(ids) ==
    /\ ids \subseteq held
    /\ held' = held \ ids
    /\ supply' = supply - ONE * Cardinality(ids)
    /\ supply' >= 0
    /\ UNCHANGED <<deadline, now>>

\* An NFT sent to the vault without a deposit backs nobody's units.
Receive(id) ==
    /\ id \notin held
    /\ held' = held \cup {id}
    /\ UNCHANGED <<supply, deadline, now>>

Announce ==
    /\ deadline = 0
    /\ deadline' = now + Day
    /\ UNCHANGED <<held, supply, now>>

Sweep(id) ==
    /\ deadline # 0 /\ now >= deadline
    /\ id \in held
    /\ held' = held \ {id}
    /\ UNCHANGED <<supply, deadline, now>>

Tick == now' = now + 1 /\ UNCHANGED <<held, supply, deadline>>

Next ==
    \/ \E ids \in SUBSET NFTs : Deposit(ids) \/ Redeem(ids)
    \/ \E id \in NFTs : Receive(id) \/ Sweep(id)
    \/ Announce
    \/ Tick

Spec == Init /\ [][Next]_vars
===========================================================================
