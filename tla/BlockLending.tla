------------------------------ MODULE BlockLending ------------------------------
(***************************************************************************)
(* What the read side of Longtail_BlockStoreAPI (src/longtail.h) promises  *)
(* to a caller of GetStoredBlock, with no word of how a store keeps it: a  *)
(* call is answered once, with a block or with an error; a block that was  *)
(* lent to somebody stays in memory until everybody it was lent to has     *)
(* disposed of it; it is freed once and never lent again.                  *)
(***************************************************************************)
CONSTANTS Requests,   \* calls of GetStoredBlock
          Blocks,     \* block objects the store can make
          None        \* no block

VARIABLES call,       \* what the caller of GetStoredBlock knows
          lent,       \* the block it was given and has not disposed of
          mem,        \* the memory of a block object
          void        \* a caller broke the rules the promise rests on

lvars == <<call, lent, mem, void>>

Init == /\ call = [r \in Requests |-> "idle"]
        /\ lent = [r \in Requests |-> None]
        /\ mem = [b \in Blocks |-> "none"]
        /\ void = FALSE

Ask(r) == /\ call[r] = "idle"
          /\ call' = [call EXCEPT ![r] = "asked"]
          /\ UNCHANGED <<lent, mem, void>>

Lend(r, b) == /\ call[r] = "asked"
              /\ mem[b] = "live"
              /\ call' = [call EXCEPT ![r] = "holding"]
              /\ lent' = [lent EXCEPT ![r] = b]
              /\ UNCHANGED <<mem, void>>

Fail(r) == /\ call[r] = "asked"
           /\ call' = [call EXCEPT ![r] = "failed"]
           /\ UNCHANGED <<lent, mem, void>>

(* Blocks bs are freed; l says what is still lent. *)
Freed(bs, l) == /\ \A b \in bs : mem[b] = "live"
                /\ \A r \in Requests : l[r] \notin bs
                /\ mem' = [b \in Blocks |-> IF b \in bs THEN "freed" ELSE mem[b]]

(* Disposing of a block may free it at once. *)
GiveBack(r) == /\ call[r] = "holding"
               /\ call' = [call EXCEPT ![r] = "returned"]
               /\ lent' = [lent EXCEPT ![r] = None]
               /\ \E bs \in SUBSET {lent[r]} : Freed(bs, lent')
               /\ UNCHANGED void

Load(b) == /\ mem[b] = "none"
           /\ mem' = [mem EXCEPT ![b] = "live"]
           /\ UNCHANGED <<call, lent, void>>

Drop(bs) == /\ Freed(bs, lent)
            /\ UNCHANGED <<call, lent, void>>

Next == \/ \E r \in Requests : Ask(r) \/ Fail(r) \/ GiveBack(r)
        \/ \E r \in Requests, b \in Blocks : Lend(r, b)
        \/ \E b \in Blocks : Load(b)
        \/ \E bs \in SUBSET Blocks : Drop(bs)

(* Once the rules are broken nothing is promised any more. *)
Step == Next \/ void'

Spec == Init /\ [][Step]_lvars
================================================================================
