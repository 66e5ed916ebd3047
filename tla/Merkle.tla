------------------------------- MODULE Merkle -------------------------------
(***************************************************************************)
(* Which token ids a pair with a merkle root accepts: the scripts that     *)
(* make the root and the proofs from a ranking file (src/script/helpers),  *)
(* and Pair._validateTokenIds, which verifies the proofs of a wrap.        *)
(*                                                                         *)
(* The file may be edited after the pair was created, and a caller may     *)
(* pass the proofs of other ids, or too few of them.                       *)
(*                                                                         *)
(* keccak256 is symbolic: two hashes are equal if and only if they are     *)
(* hashes of the same thing.  The bytes by which hashes are sorted are     *)
(* arbitrary; HashOrder is the order they give the leaves.                 *)
(***************************************************************************)
EXTENDS Naturals, SequencesExt

CONSTANTS
    HashOrder,   \* the token ids, in the order of the hashes of their leaves
    Rankings,    \* the contents the ranking file may have: sequences of ids
    NoRoot       \* no pair has been created yet

CONSTANTS         \* bounds of the model
    MaxIds,       \* ids in a call of wrap
    MaxProof      \* hashes in a proof that a caller makes up

TokenIds == ToSet(HashOrder)

ASSUME MerkleAssumption ==
    /\ HashOrder \in Seq(TokenIds) /\ IsInjective(HashOrder)
    /\ Rankings \subseteq Seq(TokenIds) \ {<<>>}
    /\ MaxIds \in Nat /\ MaxProof \in Nat

VARIABLES
    ranking,      \* "tokenIds" of the ranking file
    merkleRoot,   \* the immutable of the pair
    published,    \* what the file held when merkleRoot was made from it
    wrapped       \* ids that have passed _validateTokenIds

vars == <<ranking, merkleRoot, published, wrapped>>

---------------------------------------------------------------------------
(* The tree of merkletreejs, with the options { sort: true }: the leaves   *)
(* are sorted, and the two children of a node.                             *)

Leaf(id)   == <<"leaf", id>>        \* keccak256 of the 32 bytes of the id
Node(a, b) == <<"node", {a, b}>>    \* keccak256 of the two hashes, sorted

LeavesUnsorted(ids) == [i \in DOMAIN ids |-> Leaf(ids[i])]   \* mutation: no sort

\* How many of ids have one of the first k leaves in the order of the hashes.
Among(ids, k) == Cardinality({i \in DOMAIN ids : \E j \in 1..k : ids[i] = HashOrder[j]})

Leaves(ids) ==
    [i \in DOMAIN ids |->
        LET k == CHOOSE k \in DOMAIN HashOrder : Among(ids, k - 1) < i /\ i <= Among(ids, k)
        IN  Leaf(HashOrder[k])]

\* The next layer: pairs are hashed, a last node without a pair moves up.
Above(layer) ==
    [i \in 1..((Len(layer) + 1) \div 2) |->
        IF 2 * i <= Len(layer) THEN Node(layer[2 * i - 1], layer[2 * i]) ELSE Last(layer)]

\* Layer k of the tree; the root stays alone from some layer on.
Layers(leaves) ==
    LET layer[k \in 0..Len(leaves)] == IF k = 0 THEN leaves ELSE Above(layer[k - 1])
    IN  layer

Sibling(place) == IF place % 2 = 1 THEN place + 1 ELSE place - 1

\* One layer up from a place: its sibling, if it has one, joins the proof.
Up(layer, below) ==
    LET sibling == Sibling(below.place)
    IN  [place |-> (below.place + 1) \div 2,
         proof |-> IF sibling \in DOMAIN layer
                   THEN Append(below.proof, layer[sibling]) ELSE below.proof]

\* The siblings on the way from leaf to the root, where there is one; nothing
\* for a leaf that is not in the tree.
HexProof(leaves, leaf) ==
    LET at == CHOOSE i \in DOMAIN leaves : leaves[i] = leaf
        walk[k \in 0..Len(leaves)] ==
            IF k = 0 THEN [place |-> at, proof |-> <<>>]
            ELSE Up(Layers(leaves)[k - 1], walk[k - 1])
    IN  IF leaf \notin ToSet(leaves) THEN <<>> ELSE walk[Len(leaves)].proof

---------------------------------------------------------------------------
(* The scripts. *)

\* generate-merkle-root.js
GenerateMerkleRoot(ids) == LET leaves == Leaves(ids)
                           IN  Layers(leaves)[Len(leaves)][1]

\* generate-merkle-proof.js
GenerateMerkleProof(id, ids) == HexProof(Leaves(ids), Leaf(id))

\* CreatePair.generateMerkleProofs: one run of the script for each id, and each
\* run reads the ranking file anew.
GenerateMerkleProofs(forIds, file) ==
    [i \in DOMAIN forIds |-> GenerateMerkleProof(forIds[i], file)]

---------------------------------------------------------------------------
(* The contract. *)

\* The loop of solmate's MerkleProofLib.verify.
Computed(proof, leaf) ==
    LET hash[i \in 0..Len(proof)] == IF i = 0 THEN leaf ELSE Node(hash[i - 1], proof[i])
    IN  hash[Len(proof)]

Verify(proof, root, leaf) == Computed(proof, leaf) = root

ValidateEveryProof(ids, proofs, root) ==   \* mutation: the loop is over proofs
    \A i \in DOMAIN proofs : i \in DOMAIN ids => Verify(proofs[i], root, Leaf(ids[i]))

ValidateUnlessEmpty(ids, proofs, root) ==   \* mutation: an empty proof is skipped
    \A i \in DOMAIN ids :
        /\ i \in DOMAIN proofs
        /\ proofs[i] # <<>> => Verify(proofs[i], root, Leaf(ids[i]))

\* _validateTokenIds of a pair with a root (Pair has the one without: the
\* zero root, which no file generates); proofs[i] past the end of proofs
\* reverts.
ValidateTokenIds(ids, proofs, root) ==
    \A i \in DOMAIN ids : i \in DOMAIN proofs /\ Verify(proofs[i], root, Leaf(ids[i]))

---------------------------------------------------------------------------
\* Whoever keeps the ranking file edits it.
EditRanking(ids) ==
    /\ ranking' = ids
    /\ UNCHANGED <<merkleRoot, published, wrapped>>

\* CreatePair.create
CreatePair ==
    /\ merkleRoot = NoRoot
    /\ merkleRoot' = GenerateMerkleRoot(ranking)
    /\ published' = ranking
    /\ UNCHANGED <<ranking, wrapped>>

\* Pair.wrap of ids, with the proofs that the script makes for forIds at the
\* time.  An NFT is transferred once, and not from the pair.
Wrap(ids, forIds) ==
    /\ merkleRoot # NoRoot
    /\ IsInjective(ids) /\ ToSet(ids) \cap wrapped = {}
    /\ ValidateTokenIds(ids, GenerateMerkleProofs(forIds, ranking), merkleRoot)
    /\ wrapped' = wrapped \cup ToSet(ids)
    /\ UNCHANGED <<ranking, merkleRoot, published>>

Init ==
    /\ ranking \in Rankings
    /\ merkleRoot = NoRoot /\ published = <<>>
    /\ wrapped = {}

Next ==
    \/ \E ids \in Rankings : EditRanking(ids)
    \/ CreatePair
    \/ \E ids, forIds \in BoundedSeq(TokenIds, MaxIds) : Wrap(ids, forIds)

Spec == Init /\ [][Next]_vars

---------------------------------------------------------------------------
(* Properties.                                                             *)

\* No id gets into the pair that was not in the file its root was made from,
\* whatever the file holds later, whichever ids the proofs were made for, and
\* however many there are of them (_validateTokenIds).
OnlyPublishedIdsEnter == wrapped \subseteq ToSet(published)

\* The files r and s hold the same ids, each as often.
SameIds(r, s) ==
    \A id \in TokenIds : Cardinality({i \in DOMAIN r : r[i] = id})
                            = Cardinality({i \in DOMAIN s : s[i] = id})

\* The holder of a published id is never turned away: proofs made from any file
\* that lists the ids of the root, in whatever order, are accepted together
\* (generate-merkle-root.js and -proof.js agree with _validateTokenIds).
PublishedIdsAreAccepted ==
    \A r \in Rankings :
        merkleRoot # NoRoot /\ SameIds(r, published)
        => ValidateTokenIds(r, GenerateMerkleProofs(r, r), merkleRoot)

\* The hashes of every tree.
Known == UNION {UNION {ToSet(layer) : layer \in Range(Layers(Leaves(r)))} : r \in Rankings}

\* What a caller can put together of these hashes.
MadeUpProofs == BoundedSeq(Known, MaxProof)

\* No sequence of at most MaxProof hashes that appear in some tree proves
\* another id to _validateTokenIds: neither a part of a proof, nor the path of
\* an inner node, nor the root itself.
NothingElseProves ==
    merkleRoot # NoRoot =>
        \A id \in TokenIds \ ToSet(published), proof \in MadeUpProofs :
            ~ ValidateTokenIds(<<id>>, <<proof>>, merkleRoot)
===========================================================================
