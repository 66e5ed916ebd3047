\* Five token ids and nine contents of the ranking file; made-up proofs as long
\* as those of the largest tree.
SPECIFICATION Spec
CONSTANTS
  HashOrder <- MCHashOrder
  Rankings <- MCRankings
  NoRoot = NoRoot
  MaxIds = 2
  MaxProof = 3
INVARIANTS OnlyPublishedIdsEnter PublishedIdsAreAccepted NothingElseProves
CHECK_DEADLOCK FALSE
