----------------------------- MODULE MCFSBlockStore -----------------------------
(* Two processes on one content path, each with a thread, or one of them    *)
(* with two threads.                                                       *)
EXTENDS FSBlockStore, TLC

CONSTANTS s1, s2, t1, t2, t3, b1, b2

MCStores == {s1, s2}
MCThreads == {t1, t2}
MCBlocks == {b1, b2}
MCApart == (t1 :> s1) @@ (t2 :> s2)
MCThreeThreads == {t1, t2, t3}
MCOneBlock == {b1}
MCTogether == (t1 :> s1) @@ (t2 :> s1) @@ (t3 :> s2)

(* Blocks are interchangeable, and so are the two processes, each with its *)
(* thread.                                                                 *)
SwapProcesses == (s1 :> s2) @@ (s2 :> s1) @@ (t1 :> t2) @@ (t2 :> t1)
ApartSymmetry == Permutations(MCBlocks) \cup {SwapProcesses}

(* Bound of the liveness run: the thread of the other process only loads   *)
(* its index and flushes, which is when the two want the lock file.        *)
ThirdOnlyIndexes == pc[t3] \notin PutPCs \cup GetPCs
================================================================================
