---------------------------- MODULE MCLRUBlockStore ----------------------------
(* Three readers of three blocks through a cache of one or two, one flush. *)
EXTENDS LRUBlockStore, TLC

CONSTANTS r1, r2, r3, h1, h2, h3, g1

MCRequests == {r1, r2, r3}
MCHashes == {h1, h2, h3}
MCFlushes == {g1}

Symmetry == Permutations(MCRequests) \cup Permutations(MCHashes)
================================================================================
