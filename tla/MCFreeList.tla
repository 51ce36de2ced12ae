----------------------------- MODULE MCFreeList -----------------------------
(***************************************************************************)
(* Words of 7 bits with pointers of 2 bytes, so that a node has 8.  Among  *)
(* the descriptions are one whose objects are smaller than a link, one     *)
(* whose size is no multiple of its alignment, one that is stricter than   *)
(* everything before it, one that is small enough to fit once and too      *)
(* large to fit twice, and two that are refused.  The nodes of a tree may  *)
(* have an odd size, be more strictly aligned than a node, or hold so much *)
(* that their size wraps to less than a node or to nothing.                *)
(***************************************************************************)
EXTENDS FreeList

MCHeaders == {Desc(0, 1, 1), Desc(5, 4, 1), Desc(100, 8, 1)}
MCDescs == {Desc(1, 1, 3), Desc(3, 4, 3), Desc(2, 16, 1), Desc(20, 8, 2),
            Desc(1, 3, 1), Desc(2, 2, 0)}
MCTreeArgs == {Desc(1, 1, 1), Desc(2, 1, 2), Desc(4, 16, 1), Desc(62, 2, 2), Desc(60, 1, 2),
               Desc(1, 1, 0)}
MCBases == {2, 4, 16}
=============================================================================
