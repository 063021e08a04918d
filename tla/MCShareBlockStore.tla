--------------------------- MODULE MCShareBlockStore ---------------------------
(* Three readers of two blocks and one flush. *)
EXTENDS ShareBlockStore, TLC

CONSTANTS r1, r2, r3, h1, h2, g1

MCRequests == {r1, r2, r3}
MCHashes == {h1, h2}
MCOneHash == {h1}
MCFlushes == {g1}

Symmetry == Permutations(MCRequests) \cup Permutations(MCHashes)
================================================================================
