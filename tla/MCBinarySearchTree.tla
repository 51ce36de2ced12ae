------------------------ MODULE MCBinarySearchTree ------------------------
(* Instances of BinarySearchTree for TLC. *)
EXTENDS BinarySearchTree, TLC

\* The nodes are interchangeable until jfs_bst_puts takes them.
NodeSymmetry == Permutations(Nodes)

\* Bound of BalanceNext: removals are for a tree with fewer free nodes than this.
CONSTANT Spare

\* A client that keeps the tree nearly full, with distinct keys, and never
\* puts a key back that cache.previous still answers for, so that the larger
\* trees in which every case of the fixups occurs stay within reach.  Here
\* Nodes = Keys, and key k only goes into node k: which node holds a key makes
\* no difference.
MayPut == pc = "idle" /\ free # <<>> /\ Head(free) # cache.previous
MayRemove == pc = "idle" /\ (Len(free) < Spare \/ ~MayPut)

BalanceNext ==
    \/ MayPut /\ jfs_bst_puts(Head(free))
    \/ MayRemove /\ \E k \in Keys \ OnFreeList : jfs_bst_takes(k)
    \/ MayRemove /\ \E s \in Side : jfs_bst_get(s)
    \/ Step

\* A call that has begun goes on: nothing in the library blocks.
BalanceSpec == Init /\ [][BalanceNext]_vars /\ WF_vars(Step)
=============================================================================
