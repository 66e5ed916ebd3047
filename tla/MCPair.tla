------------------------------ MODULE MCPair ------------------------------
(***************************************************************************)
(* Instances of Pair for TLC.                                              *)
(***************************************************************************)
EXTENDS PairVault, PairDocs, TLC

CONSTANT BaseEach   \* base tokens every user starts with

MCStartBase == [u \in Users |-> BaseEach]

\* Users are interchangeable when all of them or none may own the factory, and
\* token ids when all of them, or the same of them, have a proof.
UserSymmetry   == Permutations(Users)
FullSymmetry   == Permutations(Users) \cup Permutations(NFTs)
ProvedSymmetry == Permutations(Users) \cup Permutations(MerkleIds)

===========================================================================
