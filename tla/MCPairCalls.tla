---------------------------- MODULE MCPairCalls ----------------------------
(***************************************************************************)
(* Instances of PairCalls for TLC.                                         *)
(***************************************************************************)
EXTENDS PairCalls, TLC

CONSTANTS
    Trader,     \* the user who starts with ether
    BaseEach    \* as much

MCStartBase == [u \in Users |-> IF u = Trader THEN BaseEach ELSE 0]

NftSymmetry == Permutations(NFTs)

===========================================================================
