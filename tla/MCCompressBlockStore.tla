------------------------- MODULE MCCompressBlockStore -------------------------
(* A Put and a Get of one block, one of the two tagged, with a Flush of one *)
(* of the stores or a RetargetContent at any time.                          *)
EXTENDS CompressBlockStore, TLC

CONSTANTS p1, g1, a1, f1, h1, h2

MCTaggings == {{p1}, {g1}}
MCBlockOf == [r \in Puts \cup Gets |-> h1]

(* Flushes and RetargetContent do not meet: a RetargetContent is not       *)
(* counted, and the stores have a count and a list each.                   *)
OneAtATime ==
    Cardinality({a \in Asks : ask[a].stage # "idle"}
                \cup {<<f>> : f \in {x \in Flushes : flush[x] # "idle"}}
                \cup {<<f, f>> : f \in {x \in Flushes : zflush[x] # "idle"}}) <= 1

(* A RetargetContent asks for both blocks: what it finds of the one does   *)
(* not depend on whether it asks for the other.                            *)
AsksForAll == \A a \in Asks : ask[a].stage # "idle" => ask[a].want = Hashes

(* The tag is nothing to the cache store: a call of that store which comes *)
(* between the Put and the Get meets one of the two taggings, and a Flush  *)
(* of the compress store both.                                             *)
OneTagging ==
    /\ \A a \in Asks : ask[a].stage # "idle" => p1 \in tagged
    /\ \A f \in Flushes : flush[f] # "idle" => g1 \in tagged

(* The local store starts empty; the block nobody puts is remote, and the  *)
(* other one if it is a Get that is tagged: its block is compressed then.  *)
MCInit == /\ Init /\ local = {} /\ h2 \in remote
          /\ h1 \in remote <=> g1 \in tagged

MCSpec == MCInit /\ [][Next /\ OneAtATime' /\ AsksForAll' /\ OneTagging']_vars
================================================================================
