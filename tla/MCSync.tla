--------------------------------- MODULE MCSync ---------------------------------
(* Paths: 1 is a file; 2 a directory, with the file 3 in it; 4 a file.      *)
(* Chunks 1 and 2 share a block if they are new, 3 and 4 are too large.     *)
EXTENDS Sync

MCChunkSize == <<1, 1, 2, 3, 2>>
MCChunkTag == <<0, 0, 0, 0, 1>>
MCAncestors == <<{}, {}, {2}, {}>>

File(chunks, perm) == [chunks |-> chunks, perm |-> perm]
Dir == [chunks |-> <<>>, perm |-> "rw"]

Big == 1 :> File(<<1, 3, 4, 2, 5>>, "ro")
Small == 4 :> File(<<1, 2>>, "rw")
Folder == 2 :> Dir @@ 3 :> File(<<2>>, "rw")

MCInputs ==
    {[old |-> <<>>, new |-> Big, blocks |-> <<>>, retain |-> TRUE],
     [old |-> Small @@ Folder, new |-> Big @@ Small, blocks |-> <<<<2, 1>>>>, retain |-> TRUE],
     [old |-> 1 :> File(<<1, 2>>, "rw") @@ 4 :> File(<<3>>, "ro"),
      new |-> 1 :> File(<<1, 2>>, "ro") @@ 4 :> File(<<2, 1>>, "rw") @@ Folder,
      blocks |-> <<>>, retain |-> TRUE],
     [old |-> Small @@ Folder, new |-> <<>>, blocks |-> <<>>, retain |-> FALSE],
     [old |-> Small, new |-> Small, blocks |-> <<<<1, 2>>>>, retain |-> FALSE]}

(* The largest file has nine bytes. *)
MCRanges == {<<0, 7>>, <<5, 4>>, <<2, 1>>, <<0, 2>>}

(* Up to two of these blocks, which may have chunks in common. *)
MCBlocks == {<<1>>, <<2>>, <<1, 2>>, <<2, 3>>, <<3, 1>>}
MCContents == {ContentIndexFromBlocks(s) : s \in {<<>>} \cup {<<b>> : b \in MCBlocks}
                 \cup {<<p[1], p[2]>> : p \in {q \in MCBlocks \X MCBlocks : q[1] # q[2]}}}
================================================================================
