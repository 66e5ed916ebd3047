------------------------------ MODULE MCMerkle ------------------------------
(***************************************************************************)
(* Instances of Merkle for TLC.                                            *)
(***************************************************************************)
EXTENDS Merkle

MCHashOrder == <<3, 1, 4, 2, 5>>

\* Trees of one to five leaves, so that a last node moves up one layer or two;
\* the same ids in another order; an id listed twice.
MCRankings == {<<1>>, <<1, 2>>, <<2, 1>>, <<1, 2, 3>>, <<4, 3, 2>>,
               <<1, 2, 3, 4>>, <<1, 2, 3, 4, 5>>, <<5, 4, 3, 2, 1>>, <<1, 1, 2>>}
===========================================================================
