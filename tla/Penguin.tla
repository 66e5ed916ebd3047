------------------------------ MODULE Penguin ------------------------------
(***************************************************************************)
(* The factory (src/Penguin.sol) and, of every pair it deploys, the part   *)
(* that concerns it: the immutable key the pair was created under and its  *)
(* close (src/Pair.sol), which calls back into the factory.                *)
(*                                                                         *)
(* A pair that was closed leaves its key free: create may deploy another   *)
(* pair under it, and both exist from then on.                             *)
(*                                                                         *)
(* Of block.timestamp and closeTimestamp only the difference matters here: *)
(* graceLeft[p] is closeTimestamp - block.timestamp, 0 once it is past, so *)
(* that time needs no bound.                                               *)
(***************************************************************************)
EXTENDS Namer

CONSTANTS
    Addresses,    \* what a caller may name as nft or baseToken, as numbers
    Contracts,    \* the addresses that have code
    ETH,          \* address(0) as a base token
    MerkleRoots,
    PairAddrs,    \* the addresses that new pairs are deployed at
    NoPair,       \* address(0) as a value of the mapping
    Answers,      \* what the contracts may answer to symbol() and name()
    Users,        \* accounts that call the contracts
    Day           \* "1 days", in ticks

ASSUME PenguinAssumption ==
    /\ Contracts \subseteq Addresses /\ ETH \in Addresses \ Contracts
    /\ Addresses \subseteq 0..2^(8 * AddrLen) - 1
    /\ NoPair \notin PairAddrs
    /\ Day \in Nat

Keys == [nft : Addresses, baseToken : Addresses, merkleRoot : MerkleRoots]

VARIABLES
    answers,    \* what each contract answers; it does not change
    pairs,      \* pairs[nft][baseToken][merkleRoot]
    keyOf,      \* the immutables nft, baseToken, merkleRoot of each pair deployed
    names,      \* what each pair and its tokens are named after
    closed,     \* pairs with closeTimestamp # 0
    graceLeft,  \* time until closeTimestamp of each closed pair
    owner       \* owner of the factory

vars == <<answers, pairs, keyOf, names, closed, graceLeft, owner>>

\* The addresses of the pairs that exist.
Deployed == DOMAIN keyOf

---------------------------------------------------------------------------
FreeAlways(k) == TRUE   \* mutation: no "Pair already exists"

\* "Pair already exists"
Free(k) == pairs[k] = NoPair

\* None of the calls for the names of key k reverts.
Nameable(k) ==
    /\ Parses(answers[k.nft].symbol) /\ Parses(answers[k.nft].name)
    /\ k.baseToken # ETH => Parses(answers[k.baseToken].symbol)

\* The strings from which the names and symbols of the fractional token and of
\* the LP token are put together.
NamesFor(k) ==
    [nftSymbol  |-> TokenSymbol(k.nft, answers[k.nft].symbol),
     nftName    |-> TokenName(k.nft, answers[k.nft].name),
     baseSymbol |-> IF k.baseToken = ETH THEN <<69, 84, 72>>
                    ELSE TokenSymbol(k.baseToken, answers[k.baseToken].symbol)]

\* create, by anybody.
Create(k, p) ==
    /\ Free(k)
    /\ k.nft \in Contracts
    /\ k.baseToken \in Contracts \/ k.baseToken = ETH
    /\ Nameable(k)
    /\ p \in PairAddrs \ Deployed
    /\ keyOf' = [q \in Deployed \cup {p} |-> IF q = p THEN k ELSE keyOf[q]]
    /\ names' = [q \in Deployed \cup {p} |-> IF q = p THEN NamesFor(k) ELSE names[q]]
    /\ pairs' = [pairs EXCEPT ![k] = p]
    /\ UNCHANGED <<answers, closed, graceLeft, owner>>

MayDestroyAny(caller, k) == TRUE   \* mutation: destroy does not look at its caller

\* "Only pair can destroy itself"
MayDestroy(caller, k) == caller = pairs[k]

\* destroy; only a pair calls it with success, in its close.
Destroy(caller, k) ==
    /\ MayDestroy(caller, k)
    /\ pairs' = [pairs EXCEPT ![k] = NoPair]

GracePeriodSeven == 7 * Day   \* mutation: CLOSE_GRACE_PERIOD is used

\* closeTimestamp = block.timestamp + 1 days
GracePeriod == Day

\* Pair.close of pair p, with the call of destroy it makes.
Close(u, p) ==
    /\ p \in Deployed
    /\ u = owner
    /\ closed' = closed \cup {p}
    /\ graceLeft' = [graceLeft EXCEPT ![p] = GracePeriod]
    /\ Destroy(p, keyOf[p])
    /\ UNCHANGED <<answers, keyOf, names, owner>>

\* solmate Owned.transferOwnership.
TransferOwnership(u, newOwner) ==
    /\ u = owner
    /\ owner' = newOwner
    /\ UNCHANGED <<answers, pairs, keyOf, names, closed, graceLeft>>

\* The pairs whose notice is still running.
Running == {p \in closed : graceLeft[p] > 0}

Tick ==
    /\ Running # {}
    /\ graceLeft' = [p \in PairAddrs |->
                        IF p \in Running THEN graceLeft[p] - 1 ELSE graceLeft[p]]
    /\ UNCHANGED <<answers, pairs, keyOf, names, closed, owner>>

---------------------------------------------------------------------------
Init ==
    /\ pairs = [k \in Keys |-> NoPair]
    /\ answers \in Answers
    /\ keyOf = [p \in {} |-> NoPair] /\ names = [p \in {} |-> <<>>] /\ closed = {}
    /\ graceLeft = [p \in PairAddrs |-> 0]
    /\ owner \in Users

Next ==
    \/ \E k \in Keys, p \in PairAddrs : Create(k, p)
    \/ \E u \in Users, p \in PairAddrs : Close(u, p)
    \/ \E u, newOwner \in Users : TransferOwnership(u, newOwner)
    \/ Tick

\* Blocks are produced whatever the callers do.
Fairness == WF_vars(Tick)

Spec == Init /\ [][Next]_vars /\ Fairness

---------------------------------------------------------------------------
(* Properties.                                                             *)

\* The mapping names pairs or nothing, only deployed pairs are closed, and no
\* notice is longer than the one day that close gives.
TypeOK ==
    /\ pairs \in [Keys -> PairAddrs \cup {NoPair}]
    /\ keyOf \in [Deployed -> Keys] /\ DOMAIN names = Deployed
    /\ closed \subseteq Deployed /\ Deployed \subseteq PairAddrs
    /\ graceLeft \in [PairAddrs -> 0..Day]
    /\ owner \in Users

\* A pair always has names, whatever its tokens answer, and collections that
\* have no name of their own are not given the same one (Penguin.create,
\* SafeERC20Namer: "always produce a string symbol").
NamesIdentify ==
    \A p \in Deployed :
        /\ \A part \in DOMAIN names[p] : names[p][part] # <<>>
        /\ \A q \in Deployed :
              /\ keyOf[p].nft # keyOf[q].nft
              /\ Parsed(answers[keyOf[p].nft].name) = <<>>
              /\ Parsed(answers[keyOf[q].nft].name) = <<>>
              => names[p].nftName # names[q].nftName

\* Every pair is listed, under its own key, exactly as long as it is open.  An
\* open pair that lost its entry could never be closed (destroy would revert),
\* and its NFTs never be rescued (Penguin.create, destroy, Pair.close).
ListedIffOpen ==
    \A p \in Deployed : p \notin closed <=> pairs[keyOf[p]] = p

\* An entry disappears only in the close of the pair it lists: neither create
\* nor the close of a predecessor under the same key touches it.
DelistedByItself ==
    [][ \A k \in Keys :
          pairs[k] # NoPair /\ pairs'[k] # pairs[k]
          => pairs'[k] = NoPair /\ pairs[k] \in closed' \ closed ]_vars

\* The notice of a close cannot be renewed by closing again: it runs out.  From
\* then on withdraw, which is in Pair, accepts the NFTs left (Pair.close).
GraceRunsOut ==
    \A p \in PairAddrs : p \in closed ~> graceLeft[p] = 0
===========================================================================
