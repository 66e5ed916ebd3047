----------------------------- MODULE PairVault -----------------------------
(***************************************************************************)
(* The wrapping side and the emergency exit of a pair, seen from outside:  *)
(* the refinement of the vault in NftVault.                                *)
(***************************************************************************)
EXTENDS Pair

Vault == INSTANCE NftVault WITH
             held <- Held, supply <- totalSupply, deadline <- closeTimestamp

\* Whatever is traded, added and removed around it, the contract is a vault:
\* NFTs enter against ONE units each or as a gift, leave against ONE units
\* each, and leave for nothing only after the notice of a close has run out
\* (Pair.wrap, unwrap, nftAdd, nftRemove, nftBuy, nftSell, close, withdraw).
RefinesVault == Vault!Spec
===========================================================================
