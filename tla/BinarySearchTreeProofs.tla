---------------------- MODULE BinarySearchTreeProofs ----------------------
(***************************************************************************)
(* For every set of nodes, every set of keys and every cmp: no step of the *)
(* tree makes a link, a cache entry or the free list leave the nodes of    *)
(* the component and the sentinel.                                         *)
(*                                                                         *)
(* Then what the operators on the tree do to its shape, to the order of    *)
(* its keys and to its colours: the lemmas RedBlackProofs rests on.        *)
(***************************************************************************)
EXTENDS BinarySearchTree, FiniteSetTheorems, TLAPS

\* The node the running call has allocated or is removing is a real one.
HoldsNode ==
    /\ pc = "find" /\ op.fn = "puts" => op.node \in Nodes
    /\ pc \notin {"idle", "find"} => op.node \in Nodes

\* The type invariant, with what it needs to be inductive.
IndInv == TypeOK /\ HoldsNode

-----------------------------------------------------------------------------
(* The operators on the tree stay within its type *)

\* What is read from a tree.
LEMMA ReadType ==
    ASSUME NEW t \in Tree, NEW n \in Node, NEW s \in Side
    PROVE  /\ t.root \in Node
           /\ t.child[n][s] \in Node
           /\ t.parent[n] \in Node
           /\ t.color[n] \in {BST_RED, BST_BLACK}
  BY DEF Tree

\* A failed assert only adds to the record of failures.
LEMMA FailedType ==
    ASSUME NEW t \in Tree, NEW line \in Asserts
    PROVE  Failed(t, line) \in Tree
  BY DEF Failed, Tree

\* Assigning a child.
LEMMA ChildType ==
    ASSUME NEW t \in Tree, NEW n \in Node, NEW s \in Side, NEW m \in Node
    PROVE  set_child(t, n, s, m) \in Tree
  BY DEF set_child, Tree

\* Assigning the root.
LEMMA RootType ==
    ASSUME NEW t \in Tree, NEW n \in Node
    PROVE  set_root(t, n) \in Tree
  BY DEF set_root, Tree

\* Assigning a parent.
LEMMA ParentType ==
    ASSUME NEW t \in Tree, NEW n \in Node, NEW p \in Node
    PROVE  bst_set_parent(t, n, p) \in Tree
  BY DEF bst_set_parent, Tree

\* Assigning a colour.
LEMMA ColorType ==
    ASSUME NEW t \in Tree, NEW n \in Node, NEW c \in {BST_RED, BST_BLACK}
    PROVE  bst_set_color(t, n, c) \in Tree
  BY DEF bst_set_color, Tree

\* The two sides.
LEMMA Sides ==
    /\ "left" \in Side /\ "right" \in Side
    /\ \A s \in Side : Opposite(s) \in Side
  BY DEF Side, Opposite

\* Making a leaf.
LEMMA LeafType ==
    ASSUME NEW t \in Tree, NEW n \in Node, NEW p \in Node
    PROVE  Leaf(t, n, p) \in Tree
  <1> DEFINE t1 == set_child(t, n, "left", nil)
             t2 == set_child(t1, n, "right", nil)
             t3 == bst_set_parent(t2, n, p)
  <1>0. nil \in Node
    BY DEF Node
  <1>1. t1 \in Tree
    BY <1>0, Sides, ChildType
  <1>2. t2 \in Tree
    BY <1>0, <1>1, Sides, ChildType
  <1>3. t3 \in Tree
    BY <1>2, ParentType
  <1>4. bst_set_color(t3, n, BST_RED) \in Tree
    BY <1>3, ColorType
  <1> QED
    BY <1>4 DEF Leaf

\* Relinking a parent, or the root.
LEMMA ReplaceChildType ==
    ASSUME NEW t \in Tree, NEW p \in Node, NEW old \in Node, NEW new \in Node
    PROVE  ReplaceChild(t, p, old, new) \in Tree
  BY Sides, RootType, ChildType DEF ReplaceChild

\* A rotation.
LEMMA RotateType ==
    ASSUME NEW t \in Tree, NEW s \in Side, NEW n \in Node
    PROVE  bst_rotate(t, s, n) \in Tree
  <1> DEFINE o  == Opposite(s)
             y  == t.child[n][o]
             b  == t.child[y][s]
             p  == t.parent[n]
             t0 == assert(t, "rotate", n # nil /\ y # nil)
             t1 == set_child(t0, n, o, b)
             t2 == IF b # nil THEN bst_set_parent(t1, b, n) ELSE t1
             t3 == bst_set_parent(t2, y, p)
             t4 == ReplaceChild(t3, p, n, y)
             t5 == set_child(t4, y, s, n)
  <1>1. o \in Side /\ y \in Node /\ b \in Node /\ p \in Node
    BY ReadType, Sides
  <1>2. t0 \in Tree
    BY FailedType DEF assert, Asserts
  <1> HIDE DEF o, y, b, p, t0
  <1>3. t1 \in Tree
    BY <1>1, <1>2, ChildType
  <1> HIDE DEF t1
  <1>4. t2 \in Tree
    BY <1>1, <1>3, ParentType
  <1> HIDE DEF t2
  <1>5. t3 \in Tree
    BY <1>1, <1>4, ParentType
  <1> HIDE DEF t3
  <1>6. t4 \in Tree
    BY <1>1, <1>5, ReplaceChildType
  <1> HIDE DEF t4
  <1>7. t5 \in Tree
    BY <1>1, <1>6, ChildType
  <1> HIDE DEF t5
  <1>8. bst_set_parent(t5, n, y) \in Tree
    BY <1>1, <1>7, ParentType
  <1> QED
    BY <1>8 DEF bst_rotate, o, y, b, p, t0, t1, t2, t3, t4, t5

\* A transplant.
LEMMA TransplantType ==
    ASSUME NEW t \in Tree, NEW old \in Node, NEW new \in Node
    PROVE  bst_transplant(t, old, new) \in Tree
  <1> DEFINE p  == t.parent[old]
             t0 == assert(t, "transplant", t.root # nil /\ old # new)
             t1 == ReplaceChild(t0, p, old, new)
  <1>1. p \in Node
    BY ReadType, Sides
  <1>2. t0 \in Tree
    BY FailedType DEF assert, Asserts
  <1> HIDE DEF p, t0
  <1>3. t1 \in Tree
    BY <1>1, <1>2, ReplaceChildType
  <1> HIDE DEF t1
  <1>4. bst_set_parent(t1, new, p) \in Tree
    BY <1>1, <1>3, ParentType
  <1> QED
    BY <1>4 DEF bst_transplant, p, t0, t1

-----------------------------------------------------------------------------
(* The other operators *)

\* A node that is not the sentinel is one of the component.
LEMMA NotNil ==
    /\ nil \in Node /\ nil \notin Nodes
    /\ \A n \in Node : n # nil => n \in Nodes
    /\ \A n \in Nodes : n \in Node /\ n # nil
  BY NodesAssumption DEF Node

\* The field of the cache for a side, read and written.
LEMMA ExtremeType ==
    ASSUME NEW c \in Cache, NEW s \in Side, NEW n \in Node
    PROVE  /\ c[Extreme(s)] \in Node
           /\ [c EXCEPT ![Extreme(s)] = n] \in Cache
  BY DEF Cache, Side, Extreme

\* Putting a node on the free list.
LEMMA FreeType ==
    ASSUME NEW t \in Tree, NEW l \in Lists, NEW n \in Nodes, free \in Seq(Nodes),
           jfs_fl_free(t, l, n)
    PROVE  free' \in Seq(Nodes) /\ tree' \in Tree /\ list' \in Lists
  <1>1. tree' \in Tree
    BY LeafType, NotNil DEF jfs_fl_free
  <1>2. free' \in Seq(Nodes)
    BY DEF jfs_fl_free
  <1>3. list' \in Lists
    BY DEF jfs_fl_free, Lists
  <1> QED
    BY <1>1, <1>2, <1>3

\* Returning from a call.
LEMMA ReturnType ==
    ASSUME NEW err \in {"OK", "FULL", "EMPTY", "BAD_KEY"}, NEW out \in Keys \cup {NULL},
           Return(err, out)
    PROVE  pc' = "idle" /\ op' \in Op /\ loc' \in Loc /\ x' \in Node /\ ret' \in Ret
  BY NotNil DEF Return, NoOp, NoLoc, Op, Loc, Ret

\* The caller's attach and detach.
LEMMA AttachType ==
    ASSUME NEW l \in Lists, NEW base \in Nodes, NEW new \in Nodes
    PROVE  attach(l, base, new) \in Lists
  BY DEF attach, Lists

\* Detaching takes a node out of a list.
LEMMA DetachType ==
    ASSUME NEW l \in Lists, NEW base \in Nodes
    PROVE  detach(l, base).node \in Nodes /\ detach(l, base).list \in Lists
  BY DEF detach, Lists

\* What bst_check_cache answers.
LEMMA CheckCacheType ==
    ASSUME cache \in Cache, NEW val, NEW key
    PROVE  bst_check_cache(val, key) \in Node
  BY NotNil DEF bst_check_cache, Cache

\* What bst_update_cache_insert makes of the cache.
LEMMA UpdateCacheInsertType ==
    ASSUME cache \in Cache, loc \in Loc, NEW t \in Tree
    PROVE  bst_update_cache_insert(t) \in Cache
  <1>1. t.root \in Node /\ t.child[loc.parent]["left"] \in Node /\ t.child[loc.parent]["right"] \in Node
    BY ReadType, Sides DEF Loc
  <1> QED
    BY <1>1 DEF bst_update_cache_insert, Cache

-----------------------------------------------------------------------------
(* The invariant *)

\* jfs_bst_init establishes it.
LEMMA InitInv == Init => IndInv
  <1> SUFFICES ASSUME Init PROVE IndInv
    OBVIOUS
  <1>1. tree \in Tree
    BY NotNil DEF Init, Tree, BST_RED, BST_BLACK
  <1>2. free \in Seq(Nodes)
    <2>1. Cardinality(Nodes) \in Nat
      BY NodesAssumption, FS_CardinalityType
    <2>2. free \in [1 .. Cardinality(Nodes) -> Nodes]
      BY DEF Init
    <2> QED
      BY <2>1, <2>2
  <1> QED
    BY <1>1, <1>2, NotNil DEF Init, IndInv, TypeOK, HoldsNode, Lists, Cache, Places, Op, Loc, Ret,
                      NoOp, NoLoc, NoRet

\* The node a call works on is known to the caller of the helpers.
LEMMA FreeAndReturnType ==
    ASSUME NEW t \in Tree, TypeOK, op.node \in Nodes, FreeAndReturn(t),
           value' = value, cache' \in Cache
    PROVE  IndInv'
  <1>1. free' \in Seq(Nodes) /\ tree' \in Tree /\ list' \in Lists
    BY FreeType DEF FreeAndReturn, TypeOK
  <1>2. pc' = "idle" /\ op' \in Op /\ loc' \in Loc /\ x' \in Node /\ ret' \in Ret
    <2>1. ret.out \in Keys \cup {NULL}
      BY DEF TypeOK, Ret
    <2> QED
      BY <2>1, ReturnType DEF FreeAndReturn
  <1> QED
    BY <1>1, <1>2 DEF IndInv, TypeOK, HoldsNode, Places

\* bst_delete.
LEMMA DeleteType ==
    ASSUME NEW t \in Tree, NEW n \in Nodes, bst_delete(n, t)
    PROVE  tree' \in Tree /\ x' \in Node /\ pc' \in Places \ {"idle", "find"}
  <1>1. n \in Node /\ t.child[n]["left"] \in Node /\ t.child[n]["right"] \in Node
    BY ReadType, Sides, NotNil
  <1> QED
    BY <1>1, TransplantType DEF bst_delete, AfterDelete, Places

\* bst_detach_and_delete.
LEMMA DetachAndDeleteType ==
    ASSUME IndInv, NEW fn \in {"takes", "get"}, NEW key \in Keys \cup {NULL}, NEW node \in Nodes,
           bst_detach_and_delete(fn, key, node)
    PROVE  IndInv'
  <1> DEFINE t == assert(tree, "delete from empty", tree.root # nil)
             d == detach(list, node)
  <1>1. t \in Tree
    BY FailedType DEF assert, Asserts, IndInv, TypeOK
  <1>2. d.node \in Nodes /\ d.list \in Lists
    BY DetachType DEF IndInv, TypeOK
  <1>3. value' = value /\ cache' = cache
    BY DEF bst_detach_and_delete
  <1>4. CASE d.node = node
    <2>1. /\ bst_delete(node, t)
          /\ op' = [fn |-> fn, key |-> key, node |-> node]
          /\ ret' = [err |-> "none", out |-> value[node]]
          /\ loc' = NoLoc
          /\ list' = list /\ free' = free
      BY <1>4 DEF bst_detach_and_delete
    <2> HIDE DEF t
    <2>2. tree' \in Tree /\ x' \in Node /\ pc' \in Places \ {"idle", "find"}
      BY <1>1, <2>1, DeleteType
    <2>3. op' \in Op /\ ret' \in Ret /\ loc' \in Loc /\ op'.node \in Nodes
      BY <2>1, NotNil DEF Op, Ret, Loc, NoLoc, IndInv, TypeOK
    <2> QED
      BY <1>3, <2>1, <2>2, <2>3 DEF IndInv, TypeOK, HoldsNode
  <1>5. CASE d.node # node
    <2>1. jfs_fl_free(t, d.list, d.node) /\ Return("OK", value[d.node])
      BY <1>5 DEF bst_detach_and_delete
    <2> HIDE DEF t, d
    <2>2. value[d.node] \in Keys \cup {NULL}
      BY <1>2 DEF IndInv, TypeOK
    <2>3. free' \in Seq(Nodes) /\ tree' \in Tree /\ list' \in Lists
      BY <1>1, <1>2, <2>1, FreeType DEF IndInv, TypeOK
    <2>4. pc' = "idle" /\ op' \in Op /\ loc' \in Loc /\ x' \in Node /\ ret' \in Ret
      BY <2>1, <2>2, ReturnType
    <2> QED
      BY <1>3, <2>3, <2>4 DEF IndInv, TypeOK, HoldsNode, Places
  <1> QED
    BY <1>4, <1>5

\* A step of a call that only moves links, colours and x.
LEMMA TreeStepType ==
    ASSUME IndInv, tree' \in Tree, x' \in Node, pc' \in Places, op.node \in Nodes,
           UNCHANGED <<value, list, cache, free, op, loc, ret>>
    PROVE  IndInv'
  BY DEF IndInv, TypeOK, HoldsNode

\* The sibling of the fixup after a deletion.
LEMMA BlackSiblingType ==
    ASSUME tree \in Tree, Parent \in Node, NodeSide \in Side
    PROVE  BlackSibling \in Tree
  <1> DEFINE w  == tree.child[Parent][Opposite(NodeSide)]
             t1 == bst_set_color(tree, w, BST_BLACK)
             t2 == bst_set_color(t1, Parent, BST_RED)
  <1>1. w \in Node
    BY ReadType, Sides
  <1>2. t1 \in Tree
    BY <1>1, ColorType
  <1>3. t2 \in Tree
    BY <1>2, ColorType
  <1>4. bst_rotate(t2, NodeSide, Parent) \in Tree
    BY <1>3, RotateType
  <1> QED
    BY <1>4 DEF BlackSibling

\* Every step keeps it.
LEMMA InductiveStep == IndInv /\ [Next]_vars => IndInv'
  <1> SUFFICES ASSUME IndInv, [Next]_vars PROVE IndInv'
    OBVIOUS
  <1>t. TypeOK
    BY DEF IndInv
  <1>u. /\ tree.root \in Node /\ Parent \in Node /\ Grandparent \in Node /\ Uncle \in Node
        /\ ParentSide \in Side /\ NodeSide \in Side
        /\ cache.smallest \in Node /\ cache.largest \in Node /\ cache.previous \in Node
        /\ loc.node \in Node /\ loc.parent \in Node /\ op.node \in Node
    BY <1>t, ReadType, Sides DEF TypeOK, Parent, Grandparent, Uncle, ParentSide, NodeSide,
                                 Cache, Loc, Op
  <1>1. ASSUME NEW key \in Keys, jfs_bst_puts(key)
        PROVE  IndInv'
    <2>1. CASE free = <<>>
      <3>1. Return("FULL", NULL) /\ UNCHANGED <<tree, value, list, cache, free>>
        BY <1>1, <2>1 DEF jfs_bst_puts
      <3>2. pc' = "idle" /\ op' \in Op /\ loc' \in Loc /\ x' \in Node /\ ret' \in Ret
        BY <3>1, ReturnType
      <3> QED
        BY <1>t, <3>1, <3>2 DEF IndInv, TypeOK, HoldsNode, Places
    <2>2. CASE free # <<>>
      <3> DEFINE node   == Head(free)
                 packed == [value EXCEPT ![node] = key]
                 fresh  == [list EXCEPT ![node] = NULL]
                 cached == bst_check_cache(packed, key)
      <3>1. /\ free' = Tail(free)
            /\ value' = packed
            /\ IF cached # nil
               THEN /\ list' = attach(fresh, cached, node)
                    /\ cache' = [cache EXCEPT !.previous = cached]
                    /\ Return("OK", NULL)
                    /\ UNCHANGED tree
               ELSE /\ list' = fresh
                    /\ StartFind("puts", key, node)
        BY <1>1, <2>2 DEF jfs_bst_puts
      <3>2. node \in Nodes /\ free' \in Seq(Nodes)
        BY <1>t, <2>2, <3>1 DEF TypeOK
      <3>3. value' \in [Nodes -> Keys \cup {NULL}] /\ fresh \in Lists
        BY <1>t, <3>1, <3>2 DEF TypeOK, Lists
      <3>4. cached \in Node
        BY <1>t, CheckCacheType DEF TypeOK
      <3> HIDE DEF node, packed, fresh, cached
      <3>5. CASE cached # nil
        <4>1. list' \in Lists
          BY <3>1, <3>2, <3>3, <3>4, <3>5, AttachType, NotNil
        <4>2. cache' \in Cache /\ tree' = tree
          BY <1>t, <3>1, <3>4, <3>5 DEF TypeOK, Cache
        <4>3. pc' = "idle" /\ op' \in Op /\ loc' \in Loc /\ x' \in Node /\ ret' \in Ret
          BY <3>1, <3>5, ReturnType
        <4> QED
          BY <1>t, <3>2, <3>3, <4>1, <4>2, <4>3 DEF IndInv, TypeOK, HoldsNode, Places
      <3>6. CASE cached = nil
        <4>1. list' = fresh /\ StartFind("puts", key, node)
          BY <3>1, <3>6
        <4>2. /\ pc' = "find" /\ op' \in Op /\ op'.node \in Nodes /\ loc' \in Loc /\ ret' \in Ret
              /\ x' = x /\ cache' = cache /\ tree' = tree
          BY <1>u, <3>2, <4>1, NotNil DEF StartFind, Op, Loc, Ret, NoRet
        <4> QED
          BY <1>t, <3>2, <3>3, <4>1, <4>2 DEF IndInv, TypeOK, HoldsNode, Places
      <3> QED
        BY <3>5, <3>6
    <2> QED
      BY <2>1, <2>2
  <1>2. ASSUME NEW key \in Keys, jfs_bst_takes(key)
        PROVE  IndInv'
    <2>1. value' = value /\ list' = list /\ free' = free /\ tree' = tree /\ cache' = cache
      BY <1>2 DEF jfs_bst_takes, StartFind
    <2>2. CASE pc' = "find" /\ StartFind("takes", key, nil)
      <3>1. /\ op' = [fn |-> "takes", key |-> key, node |-> nil]
            /\ op' \in Op /\ loc' \in Loc /\ ret' \in Ret /\ x' = x
        BY <1>u, <2>2, NotNil DEF StartFind, Op, Loc, Ret, NoRet
      <3> QED
        BY <1>t, <2>1, <2>2, <3>1 DEF IndInv, TypeOK, HoldsNode, Places
    <2>3. ASSUME NEW err \in {"OK", "EMPTY"}, NEW out \in Keys \cup {NULL}, Return(err, out)
          PROVE  IndInv'
      <3>1. pc' = "idle" /\ op' \in Op /\ loc' \in Loc /\ x' \in Node /\ ret' \in Ret
        BY <2>3, ReturnType
      <3> QED
        BY <1>t, <2>1, <3>1 DEF IndInv, TypeOK, HoldsNode, Places
    <2>4. CASE tree.root = nil
      BY <1>2, <2>3, <2>4 DEF jfs_bst_takes
    <2>5. CASE tree.root # nil
      <3> DEFINE cached == bst_check_cache(value, key)
      <3>1. cached \in Node
        BY <1>t, CheckCacheType DEF TypeOK
      <3>2. IF cached # nil THEN Return("OK", value[cached]) ELSE StartFind("takes", key, nil)
        BY <1>2, <2>5 DEF jfs_bst_takes
      <3> HIDE DEF cached
      <3>3. CASE cached # nil
        <4>1. value[cached] \in Keys \cup {NULL}
          BY <1>t, <3>1, <3>3, NotNil DEF TypeOK
        <4> QED
          BY <2>3, <3>2, <3>3, <4>1
      <3>4. CASE cached = nil
        BY <2>2, <3>2, <3>4 DEF StartFind
      <3> QED
        BY <3>3, <3>4
    <2> QED
      BY <2>4, <2>5
  <1>3. ASSUME NEW s \in Side, jfs_bst_get(s)
        PROVE  IndInv'
    <2>1. CASE cache[Extreme(s)] = nil
      <3>1. Return("EMPTY", NULL) /\ UNCHANGED <<tree, value, list, cache, free>>
        BY <1>3, <2>1 DEF jfs_bst_get
      <3>2. pc' = "idle" /\ op' \in Op /\ loc' \in Loc /\ x' \in Node /\ ret' \in Ret
        BY <3>1, ReturnType
      <3> QED
        BY <1>t, <3>1, <3>2 DEF IndInv, TypeOK, HoldsNode, Places
    <2>2. CASE cache[Extreme(s)] # nil
      <3>1. cache[Extreme(s)] \in Nodes
        BY <1>t, <2>2, ExtremeType, NotNil DEF TypeOK
      <3>2. bst_detach_and_delete("get", NULL, cache[Extreme(s)])
        BY <1>3, <2>2 DEF jfs_bst_get
      <3> QED
        BY <3>1, <3>2, DetachAndDeleteType
    <2> QED
      BY <2>1, <2>2
  <1>4. ASSUME bst_find_step
        PROVE  IndInv'
    <2>1. loc.node \in Nodes /\ op.key # value[loc.node]
      BY <1>4, <1>u, NotNil DEF bst_find_step
    <2>2. PICK c \in cmp(op.key, value[loc.node]) :
              loc' = [node |-> tree.child[loc.node][IF c < 0 THEN "left" ELSE "right"],
                      parent |-> loc.node,
                      parent_cmp |-> c]
      BY <1>4 DEF bst_find_step
    <2>3. c \in Int
      BY <2>1, CmpAssumption DEF cmp
    <2>4. loc' \in Loc
      BY <1>t, <1>u, <2>2, <2>3, ReadType, Sides DEF TypeOK, Loc
    <2> QED
      BY <1>4, <1>t, <2>4 DEF bst_find_step, IndInv, TypeOK, HoldsNode
  <1>5. ASSUME puts_duplicate
        PROVE  IndInv'
    <2>1. loc.node \in Nodes /\ op.node \in Nodes
      BY <1>5, <1>u, NotNil DEF puts_duplicate, Found, IndInv, HoldsNode
    <2>2. list' \in Lists /\ cache' \in Cache
      BY <1>5, <1>t, <1>u, <2>1, AttachType DEF puts_duplicate, TypeOK, Cache
    <2>3. pc' = "idle" /\ op' \in Op /\ loc' \in Loc /\ x' \in Node /\ ret' \in Ret
      BY <1>5, ReturnType DEF puts_duplicate
    <2> QED
      BY <1>5, <1>t, <2>2, <2>3 DEF puts_duplicate, IndInv, TypeOK, HoldsNode, Places
  <1>6. ASSUME bst_insert
        PROVE  IndInv'
    <2> DEFINE s  == IF loc.parent_cmp = -1 THEN "left" ELSE "right"
               t1 == Leaf(tree, op.node, loc.parent)
               t2 == assert(t1, "insert", t1.root = nil)
    <2>1. op.node \in Nodes
      BY <1>6, <1>u, NotNil DEF bst_insert, NotFound, IndInv, HoldsNode
    <2>2. t1 \in Tree /\ s \in Side
      BY <1>t, <1>u, LeafType, Sides DEF TypeOK
    <2>3. tree' = IF loc.parent = nil THEN set_root(t2, op.node)
                                      ELSE set_child(t1, loc.parent, s, op.node)
      BY <1>6 DEF bst_insert
    <2> HIDE DEF t1, s
    <2>4. t2 \in Tree
      BY <2>2, FailedType DEF assert, Asserts
    <2> HIDE DEF t2
    <2>5. tree' \in Tree
      BY <1>u, <2>2, <2>3, <2>4, RootType, ChildType
    <2> QED
      BY <1>6, <1>u, <2>1, <2>5, TreeStepType DEF bst_insert, Places
  <1>7. ASSUME bst_fixup_insert_recolor
        PROVE  IndInv'
    <2> DEFINE t0 == assert(tree, "grandparent", Grandparent # nil)
               t1 == bst_set_color(t0, Parent, BST_BLACK)
               t2 == bst_set_color(t1, Uncle, BST_BLACK)
    <2>1. t0 \in Tree
      BY <1>t, FailedType DEF assert, Asserts, TypeOK
    <2>2. tree' = bst_set_color(t2, Grandparent, BST_RED)
      BY <1>7 DEF bst_fixup_insert_recolor
    <2> HIDE DEF t0
    <2>3. t1 \in Tree
      BY <1>u, <2>1, ColorType
    <2>4. t2 \in Tree
      BY <1>u, <2>3, ColorType
    <2>5. tree' \in Tree
      BY <1>u, <2>2, <2>4, ColorType
    <2> QED
      BY <1>7, <1>t, <1>u, <2>5, TreeStepType
         DEF bst_fixup_insert_recolor, InsertLoop, IndInv, HoldsNode, Places
  <1>8. ASSUME bst_fixup_insert_rotate
        PROVE  IndInv'
    <2> DEFINE s     == ParentSide
               inner == x = tree.child[Parent][Opposite(s)]
               t0    == assert(tree, "grandparent", Grandparent # nil)
               t1    == IF inner THEN bst_rotate(t0, s, Parent) ELSE t0
               n     == IF inner THEN Parent ELSE x
               t2    == bst_set_color(t1, t1.parent[n], BST_BLACK)
               t3    == bst_set_color(t2, Grandparent, BST_RED)
    <2>1. t0 \in Tree
      BY <1>t, FailedType DEF assert, Asserts, TypeOK
    <2>2. n \in Node
      BY <1>t, <1>u DEF TypeOK
    <2>3. tree' = bst_rotate(t3, Opposite(s), Grandparent) /\ x' = n
      BY <1>8 DEF bst_fixup_insert_rotate
    <2> HIDE DEF t0, n, inner
    <2>4. t1 \in Tree
      BY <1>u, <2>1, RotateType
    <2> HIDE DEF t1
    <2>5. t2 \in Tree
      BY <2>2, <2>4, ReadType, Sides, ColorType
    <2>6. t3 \in Tree
      BY <1>u, <2>5, ColorType
    <2> HIDE DEF t3
    <2>7. tree' \in Tree /\ x' \in Node
      BY <1>u, <2>2, <2>3, <2>6, RotateType, Sides
    <2> QED
      BY <1>8, <2>7, TreeStepType
         DEF bst_fixup_insert_rotate, InsertLoop, IndInv, HoldsNode, Places
  <1>9. ASSUME puts_done
        PROVE  IndInv'
    <2>1. op.node \in Nodes
      BY <1>9 DEF puts_done, IndInv, HoldsNode
    <2>2. tree' \in Tree
      BY <1>9, <1>t, <1>u, ColorType DEF puts_done, TypeOK
    <2>3. cache' \in Cache
      <3> DEFINE c == bst_update_cache_insert(tree')
      <3>1. c \in Cache
        BY <1>t, <2>2, UpdateCacheInsertType DEF TypeOK
      <3>2. cache' = [c EXCEPT !.previous = op.node]
        BY <1>9 DEF puts_done
      <3> HIDE DEF c
      <3> QED
        BY <1>u, <3>1, <3>2 DEF Cache
    <2>4. pc' = "idle" /\ op' \in Op /\ loc' \in Loc /\ x' \in Node /\ ret' \in Ret
      BY <1>9, ReturnType DEF puts_done
    <2> QED
      BY <1>9, <1>t, <2>2, <2>3, <2>4 DEF puts_done, IndInv, TypeOK, HoldsNode, Places
  <1>10. ASSUME takes_bad_key
         PROVE  IndInv'
    <2>1. pc' = "idle" /\ op' \in Op /\ loc' \in Loc /\ x' \in Node /\ ret' \in Ret
      BY <1>10, ReturnType DEF takes_bad_key
    <2> QED
      BY <1>10, <1>t, <2>1 DEF takes_bad_key, IndInv, TypeOK, HoldsNode, Places
  <1>11. ASSUME takes_found
         PROVE  IndInv'
    <2>1. loc.node \in Nodes /\ op.key \in Keys \cup {NULL}
      BY <1>11, <1>t, <1>u, NotNil DEF takes_found, Found, TypeOK, Op
    <2> QED
      BY <1>11, <2>1, DetachAndDeleteType DEF takes_found
  <1>12. ASSUME bst_delete_minimum_step
         PROVE  IndInv'
    <2>1. x' \in Node
      BY <1>12, <1>t, ReadType, Sides DEF bst_delete_minimum_step, TypeOK
    <2> QED
      BY <1>12, <1>t, <2>1, TreeStepType
         DEF bst_delete_minimum_step, IndInv, TypeOK, HoldsNode, Places
  <1>13. ASSUME bst_delete_splice
         PROVE  IndInv'
    <2> DEFINE n  == op.node
               r  == tree.child[x]["right"]
               q  == x # tree.child[n]["right"]
               t1 == IF q THEN bst_transplant(tree, x, r) ELSE bst_set_parent(tree, r, x)
               s2 == set_child(t1, x, "right", t1.child[n]["right"])
               t2 == IF q THEN bst_set_parent(s2, t1.child[n]["right"], x) ELSE t1
               t3 == bst_transplant(t2, n, x)
               s4 == set_child(t3, x, "left", t3.child[n]["left"])
               t4 == bst_set_parent(s4, t3.child[n]["left"], x)
    <2>1. tree' = bst_set_color(t4, x, t4.color[n]) /\ x' = r
      BY <1>13 DEF bst_delete_splice
    <2>2. x \in Node /\ n \in Node /\ r \in Node /\ tree \in Tree
      BY <1>t, <1>u, ReadType, Sides DEF TypeOK
    <2> HIDE DEF n, r, q
    <2>3. t1 \in Tree
      BY <2>2, TransplantType, ParentType
    <2> HIDE DEF t1
    <2>4. t1.child[n]["right"] \in Node /\ s2 \in Tree
      BY <2>2, <2>3, ReadType, Sides, ChildType
    <2> HIDE DEF s2
    <2>5. t2 \in Tree
      BY <2>2, <2>3, <2>4, ParentType
    <2> HIDE DEF t2
    <2>6. t3 \in Tree
      BY <2>2, <2>5, TransplantType
    <2> HIDE DEF t3
    <2>7. t3.child[n]["left"] \in Node /\ s4 \in Tree
      BY <2>2, <2>6, ReadType, Sides, ChildType
    <2> HIDE DEF s4
    <2>8. t4 \in Tree
      BY <2>2, <2>7, ParentType
    <2> HIDE DEF t4
    <2>9. tree' \in Tree /\ x' \in Node
      BY <2>1, <2>2, <2>8, ReadType, Sides, ColorType
    <2>10. pc = "successor" /\ pc' \in Places /\ UNCHANGED <<value, list, cache, free, op, loc, ret>>
      BY <1>13 DEF bst_delete_splice, AfterDelete, Places
    <2> QED
      BY <2>9, <2>10, TreeStepType DEF IndInv, HoldsNode
  <1>14. ASSUME bst_fixup_delete_recolor
         PROVE  IndInv'
    <2> DEFINE t1 == BlackSibling
               w  == t1.child[Parent][Opposite(NodeSide)]
    <2>1. t1 \in Tree
      BY <1>t, <1>u, BlackSiblingType DEF TypeOK
    <2>2. tree' = bst_set_color(t1, w, BST_RED)
      BY <1>14 DEF bst_fixup_delete_recolor
    <2> HIDE DEF t1
    <2>3. w \in Node
      BY <1>u, <2>1, ReadType, Sides
    <2>4. tree' \in Tree
      BY <2>1, <2>2, <2>3, ColorType
    <2> QED
      BY <1>14, <1>t, <1>u, <2>4, TreeStepType
         DEF bst_fixup_delete_recolor, DeleteLoop, IndInv, TypeOK, HoldsNode
  <1>15. ASSUME bst_fixup_delete_rotate
         PROVE  IndInv'
    <2> DEFINE s  == NodeSide
               o  == Opposite(s)
               t1 == BlackSibling
               w1 == t1.child[Parent][o]
               c1 == bst_set_color(t1, t1.child[w1][s], BST_BLACK)
               c2 == bst_set_color(c1, w1, BST_RED)
               t2 == IF t1.color[t1.child[w1][o]] = BST_BLACK THEN bst_rotate(c2, o, w1) ELSE t1
               w2 == t2.child[Parent][o]
               c3 == bst_set_color(t2, w2, t2.color[Parent])
               t3 == bst_set_color(c3, Parent, BST_BLACK)
               t4 == bst_set_color(t3, t3.child[w2][o], BST_BLACK)
    <2>1. tree' = bst_rotate(t4, s, Parent) /\ x' = tree'.root
      BY <1>15 DEF bst_fixup_delete_rotate
    <2>2. t1 \in Tree /\ s \in Side /\ o \in Side
      BY <1>t, <1>u, Sides, BlackSiblingType DEF TypeOK
    <2> HIDE DEF t1, s, o
    <2>3. w1 \in Node /\ t1.child[w1][s] \in Node
      BY <1>u, <2>2, ReadType
    <2>4. c1 \in Tree
      BY <2>2, <2>3, ColorType
    <2> HIDE DEF w1, c1
    <2>5. c2 \in Tree
      BY <2>3, <2>4, ColorType
    <2> HIDE DEF c2
    <2>6. t2 \in Tree
      BY <2>2, <2>3, <2>5, RotateType
    <2> HIDE DEF t2
    <2>7. w2 \in Node /\ t2.color[Parent] \in {BST_RED, BST_BLACK}
      BY <1>u, <2>2, <2>6, ReadType
    <2> HIDE DEF w2
    <2>8. c3 \in Tree
      BY <2>6, <2>7, ColorType
    <2> HIDE DEF c3
    <2>9. t3 \in Tree
      BY <1>u, <2>8, ColorType
    <2> HIDE DEF t3
    <2>10. t4 \in Tree
      BY <2>2, <2>7, <2>9, ReadType, ColorType
    <2> HIDE DEF t4
    <2>11. tree' \in Tree
      BY <1>u, <2>1, <2>2, <2>10, RotateType
    <2>12. x' \in Node
      BY <2>1, <2>11 DEF Tree
    <2> QED
      BY <1>15, <1>t, <2>11, <2>12, TreeStepType
         DEF bst_fixup_delete_rotate, DeleteLoop, IndInv, TypeOK, HoldsNode
  <1>16. ASSUME bst_fixup_delete_done
         PROVE  IndInv'
    <2>1. tree' \in Tree
      BY <1>16, <1>t, ColorType DEF bst_fixup_delete_done, TypeOK
    <2> QED
      BY <1>16, <1>t, <2>1, TreeStepType
         DEF bst_fixup_delete_done, IndInv, TypeOK, HoldsNode, Places
  <1>17. ASSUME update_cache_last
         PROVE  IndInv'
    <2> DEFINE t == assert(tree, "last node is root", op.node = tree.root)
    <2>1. op.node \in Nodes
      BY <1>17 DEF update_cache_last, IndInv, HoldsNode
    <2>2. cache' \in Cache
      BY <1>17, <1>t, NotNil DEF update_cache_last, TypeOK, Cache
    <2>3. t \in Tree
      BY <1>t, FailedType DEF assert, Asserts, TypeOK
    <2>4. FreeAndReturn(t) /\ value' = value
      BY <1>17 DEF update_cache_last
    <2> HIDE DEF t
    <2> QED
      BY <1>t, <2>1, <2>2, <2>3, <2>4, FreeAndReturnType
  <1>18. ASSUME update_cache_inner
         PROVE  IndInv'
    <2>1. op.node \in Nodes
      BY <1>18 DEF update_cache_inner, IndInv, HoldsNode
    <2> QED
      BY <1>18, <1>t, <2>1, FreeAndReturnType DEF update_cache_inner, TypeOK
  <1>19. ASSUME NEW s \in Side, update_cache_descend(s)
         PROVE  IndInv'
    <2>1. tree' \in Tree
      BY <1>19, <1>t, FailedType DEF update_cache_descend, assert, Asserts, TypeOK
    <2>2. x' \in Node
      BY <1>19, <1>t, <1>u, ReadType, Sides DEF update_cache_descend, TypeOK
    <2>3. pc' \in Places
      BY <1>19 DEF update_cache_descend, Extreme, Places
    <2> QED
      BY <1>19, <2>1, <2>2, <2>3, TreeStepType
         DEF update_cache_descend, RemovedExtreme, IndInv, HoldsNode
  <1>20. ASSUME NEW s \in Side, update_cache_parent(s)
         PROVE  IndInv'
    <2> DEFINE t == assert(tree, "extreme has no outer child", tree.child[op.node][s] = nil)
    <2>1. op.node \in Nodes
      BY <1>20 DEF update_cache_parent, RemovedExtreme, IndInv, HoldsNode
    <2>2. cache' \in Cache
      BY <1>20, <1>t, <1>u, ReadType, ExtremeType DEF update_cache_parent, TypeOK
    <2>3. t \in Tree
      BY <1>t, FailedType DEF assert, Asserts, TypeOK
    <2>4. FreeAndReturn(t) /\ value' = value
      BY <1>20 DEF update_cache_parent
    <2> HIDE DEF t
    <2> QED
      BY <1>t, <2>1, <2>2, <2>3, <2>4, FreeAndReturnType
  <1>21. ASSUME NEW s \in Side, update_cache_walk(s)
         PROVE  IndInv'
    <2>1. op.node \in Nodes
      BY <1>21, Sides DEF update_cache_walk, Side, Extreme, IndInv, HoldsNode
    <2>2. CASE tree.child[x][s] # nil
      <3>1. x' \in Node
        BY <1>21, <1>t, <2>2, ReadType DEF update_cache_walk, TypeOK
      <3> QED
        BY <1>21, <1>t, <2>1, <2>2, <3>1, TreeStepType DEF update_cache_walk, TypeOK
    <2>3. CASE tree.child[x][s] = nil
      <3>1. cache' \in Cache
        BY <1>21, <1>t, <2>3, ExtremeType DEF update_cache_walk, TypeOK
      <3>2. FreeAndReturn(tree) /\ value' = value
        BY <1>21, <2>3 DEF update_cache_walk
      <3> QED
        BY <1>t, <2>1, <3>1, <3>2, FreeAndReturnType DEF TypeOK
    <2> QED
      BY <2>2, <2>3
  <1>22. CASE UNCHANGED vars
    BY <1>22 DEF vars, IndInv, TypeOK, HoldsNode
  <1> QED
    BY <1>1, <1>2, <1>3, <1>4, <1>5, <1>6, <1>7, <1>8, <1>9, <1>10, <1>11, <1>12, <1>13, <1>14,
       <1>15, <1>16, <1>17, <1>18, <1>19, <1>20, <1>21, <1>22 DEF Next, Call, Step

\* The inductive invariant holds in every reachable state.
LEMMA Invariance == Spec => []IndInv
  <1> QED
    BY InitInv, InductiveStep, PTL DEF Spec

\* No step of jfs_bst_puts, jfs_bst_takes, jfs_bst_get_smallest or
\* jfs_bst_get_largest, fixups, transplants and cache updates included, makes a
\* link, a cache entry, the free list or a location leave the nodes of the
\* component and the sentinel: the sentinel and NULL are never taken for a
\* stored value, whatever the number of nodes and whatever cmp answers.
THEOREM TypeCorrect == Spec => []TypeOK
  <1>1. IndInv => TypeOK
    BY DEF IndInv
  <1> QED
    BY <1>1, Invariance, PTL

-----------------------------------------------------------------------------
(* The shape of a tree *)

\* The child of n on side s: n is its parent, and it splits the subtree of n.
Kid(t, under, n, s) ==
    /\ t.child[n][s] # nil => t.child[n][s] \in under[t.root] /\ t.parent[t.child[n][s]] = n
    /\ under[n] = {n} \cup under[t.child[n][s]] \cup under[t.child[n][Opposite(s)]]
    /\ n \notin under[t.child[n][s]]
    /\ under[t.child[n][s]] \cap under[t.child[n][Opposite(s)]] = {}

\* The subtree of n holds the subtrees of its nodes, and their parents but for n's.
Closed(t, under, n) ==
    \A m \in under[n] : /\ under[m] \subseteq under[n]
                        /\ m # n => t.parent[m] \in under[n]

\* The links form one tree, and under[n] are the nodes of the subtree of n.
Shape(t, under) ==
    /\ under \in [Node -> SUBSET Nodes] /\ under[nil] = {}
    /\ t.root # nil => t.root \in under[t.root] /\ t.parent[t.root] = nil
    /\ \A n \in under[t.root] :
        /\ \A s \in Side : Kid(t, under, n, s)
        /\ n # t.root => \E s \in Side : t.child[t.parent[n]][s] = n
        /\ Closed(t, under, n)

\* Key a lies on side s of key b.
Beyond(s, a, b) == IF s = "left" THEN a < b ELSE b < a

\* The keys are in order.
Ordered(t, under, val) ==
    /\ \A n \in under[t.root] : val[n] \in Keys
    /\ \A n \in under[t.root] : \A s \in Side : \A m \in under[t.child[n][s]] :
           Beyond(s, val[m], val[n])

\* Node e of S has the outermost key on side s.
Outermost(s, e, S, val) == e \in S /\ \A m \in S \ {e} : Beyond(s, val[e], val[m])

\* height[n] counts the black nodes on every way down from n, the sentinel
\* included, where a black node is missing above the child of hole on side gap.
Heights(t, T, height, hole, gap) ==
    /\ height \in [Node -> Nat \ {0}] /\ height[nil] = 1
    /\ \A n \in T : \A s \in Side :
        height[n] = t.color[n] + height[t.child[n][s]] + (IF n = hole /\ s = gap THEN 1 ELSE 0)

\* No red node has a red child, except for the parent up and the child down.
RedApart(t, T, up, down) ==
    \A n \in T : \A s \in Side :
        t.color[n] = BST_RED /\ n # up /\ t.child[n][s] # down
            => t.color[t.child[n][s]] = BST_BLACK

\* The red-black rules.
Balanced(t, T, height) ==
    /\ Heights(t, T, height, nil, "left")
    /\ RedApart(t, T, nil, nil)
    /\ t.color[t.root] = BST_BLACK

-----------------------------------------------------------------------------
(* What the assignments change *)

\* u is t but for one child, parent, colour, or the root.
ChildSet(u, t, n, s, m) ==
    /\ u \in Tree /\ u.root = t.root /\ u.parent = t.parent /\ u.color = t.color
    /\ u.failed = t.failed
    /\ \A k \in Node : \A r \in Side :
           u.child[k][r] = IF k = n /\ r = s THEN m ELSE t.child[k][r]

\* u is t with p as the parent of n.
ParentSet(u, t, n, p) ==
    /\ u \in Tree /\ u.root = t.root /\ u.child = t.child /\ u.color = t.color
    /\ u.failed = t.failed
    /\ \A k \in Node : u.parent[k] = IF k = n THEN p ELSE t.parent[k]

\* u is t with n in colour c.
ColorSet(u, t, n, c) ==
    /\ u \in Tree /\ u.root = t.root /\ u.child = t.child /\ u.parent = t.parent
    /\ u.failed = t.failed
    /\ \A k \in Node : u.color[k] = IF k = n THEN c ELSE t.color[k]

\* u is t with n as its root.
RootSet(u, t, n) ==
    /\ u \in Tree /\ u.root = n /\ u.child = t.child /\ u.parent = t.parent
    /\ u.color = t.color /\ u.failed = t.failed

\* u is t with new at side e of p, or as the root.
Relinked(u, t, p, e, new) ==
    /\ u \in Tree /\ u.root = IF p = nil THEN new ELSE t.root
    /\ u.parent = t.parent /\ u.color = t.color /\ u.failed = t.failed
    /\ \A k \in Node : \A r \in Side :
           u.child[k][r] = IF p # nil /\ k = p /\ r = e THEN new ELSE t.child[k][r]

\* Assigning a child.
LEMMA SetChildFields ==
    ASSUME NEW t \in Tree, NEW n \in Node, NEW s \in Side, NEW m \in Node
    PROVE  ChildSet(set_child(t, n, s, m), t, n, s, m)
<1> DEFINE u == set_child(t, n, s, m)
<1>1. u \in Tree
  BY ChildType
<1>2. /\ u.root = t.root /\ u.parent = t.parent /\ u.color = t.color /\ u.failed = t.failed
      /\ u.child = [t.child EXCEPT ![n][s] = m]
  BY DEF set_child, Tree
<1>3. t.child \in [Node -> [Side -> Node]]
  BY DEF Tree
<1>4. QED
  BY <1>1, <1>2, <1>3 DEF ChildSet

\* Assigning a parent.
LEMMA SetParentFields ==
    ASSUME NEW t \in Tree, NEW n \in Node, NEW p \in Node
    PROVE  ParentSet(bst_set_parent(t, n, p), t, n, p)
<1> DEFINE u == bst_set_parent(t, n, p)
<1>1. u \in Tree
  BY ParentType
<1>2. /\ u.root = t.root /\ u.child = t.child /\ u.color = t.color /\ u.failed = t.failed
      /\ u.parent = [t.parent EXCEPT ![n] = p]
  BY DEF bst_set_parent, Tree
<1>3. t.parent \in [Node -> Node]
  BY DEF Tree
<1>4. QED
  BY <1>1, <1>2, <1>3 DEF ParentSet

\* Assigning a colour.
LEMMA SetColorFields ==
    ASSUME NEW t \in Tree, NEW n \in Node, NEW c \in {BST_RED, BST_BLACK}
    PROVE  ColorSet(bst_set_color(t, n, c), t, n, c)
<1> DEFINE u == bst_set_color(t, n, c)
<1>1. u \in Tree
  BY ColorType
<1>2. /\ u.root = t.root /\ u.child = t.child /\ u.parent = t.parent /\ u.failed = t.failed
      /\ u.color = [t.color EXCEPT ![n] = c]
  BY DEF bst_set_color, Tree
<1>3. t.color \in [Node -> {BST_RED, BST_BLACK}]
  BY DEF Tree
<1>4. QED
  BY <1>1, <1>2, <1>3 DEF ColorSet

\* Assigning the root.
LEMMA SetRootFields ==
    ASSUME NEW t \in Tree, NEW n \in Node
    PROVE  RootSet(set_root(t, n), t, n)
BY RootType DEF set_root, Tree, RootSet

\* Relinking a parent, or the root.
LEMMA ReplaceFields ==
    ASSUME NEW t \in Tree, NEW p \in Node, NEW old \in Node, NEW new \in Node, NEW e \in Side,
           p # nil => e = IF t.child[p]["left"] = old THEN "left" ELSE "right"
    PROVE  Relinked(ReplaceChild(t, p, old, new), t, p, e, new)
<1>1. CASE p = nil
  <2>1. ReplaceChild(t, p, old, new) = set_root(t, new)
    BY <1>1 DEF ReplaceChild
  <2>2. RootSet(set_root(t, new), t, new)
    BY SetRootFields
  <2>3. QED
    BY <1>1, <2>1, <2>2 DEF Relinked, RootSet
<1>2. CASE p # nil
  <2>1. ReplaceChild(t, p, old, new) = set_child(t, p, e, new)
    BY <1>2 DEF ReplaceChild
  <2>2. ChildSet(set_child(t, p, e, new), t, p, e, new)
    BY SetChildFields
  <2>3. QED
    BY <1>2, <2>1, <2>2 DEF Relinked, ChildSet
<1>3. QED
  BY <1>1, <1>2

-----------------------------------------------------------------------------
(* Shape *)

\* What the shape says of a node.
LEMMA ShapeNode ==
    ASSUME NEW t \in Tree, NEW U, Shape(t, U), NEW n \in U[t.root]
    PROVE  /\ n \in Nodes /\ n \in Node /\ n # nil /\ t.root # nil
           /\ n \in U[n] /\ U[n] \subseteq U[t.root]
<1>0. t.root \in Node /\ U \in [Node -> SUBSET Nodes] /\ U[nil] = {}
  BY DEF Tree, Shape
<1>1. n \in Nodes
  BY <1>0
<1>2. t.root # nil
  BY <1>0
<1>3. n \in U[n]
  <2>1. Kid(t, U, n, "left")
    BY Sides DEF Shape
  <2> QED
    BY <2>1 DEF Kid
<1>4. U[n] \subseteq U[t.root]
  <2>1. Closed(t, U, t.root)
    BY <1>2 DEF Shape
  <2> QED
    BY <2>1 DEF Closed
<1>5. QED
  BY <1>1, <1>2, <1>3, <1>4, NotNil DEF Node

\* What the shape says of a child.
LEMMA ShapeChild ==
    ASSUME NEW t \in Tree, NEW U, Shape(t, U), NEW n \in U[t.root], NEW s \in Side,
           NEW c, c = t.child[n][s], c # nil
    PROVE  /\ c \in U[t.root] /\ t.parent[c] = n /\ c \in U[n] /\ c # n /\ c # t.root
           /\ n \notin U[c] /\ U[c] \subseteq U[n] /\ c # t.child[n][Opposite(s)]
           /\ c \notin U[t.child[n][Opposite(s)]]
<1>0. Kid(t, U, n, s)
  BY DEF Shape
<1>1. c \in U[t.root] /\ t.parent[c] = n /\ n \notin U[c]
  BY <1>0 DEF Kid
<1>2. c \in U[c] /\ n # nil
  BY <1>1, ShapeNode
<1>3. U[n] = {n} \cup U[c] \cup U[t.child[n][Opposite(s)]] /\ U[c] \cap U[t.child[n][Opposite(s)]] = {}
  BY <1>0 DEF Kid
<1>4. t.root # c
  BY <1>1, <1>2 DEF Shape
<1>5. QED
  BY <1>1, <1>2, <1>3, <1>4

\* How the children split a subtree.
LEMMA ShapeSplit ==
    ASSUME NEW t \in Tree, NEW U, Shape(t, U), NEW n \in U[t.root], NEW s \in Side,
           NEW f, NEW g, f = t.child[n][s], g = t.child[n][Opposite(s)]
    PROVE  /\ U[n] = {n} \cup U[f] \cup U[g] /\ n \notin U[f] /\ n \notin U[g]
           /\ U[f] \cap U[g] = {}
<1>1. Kid(t, U, n, s) /\ Kid(t, U, n, Opposite(s))
  BY Sides DEF Shape
<1>2. QED
  BY <1>1 DEF Kid

\* The subtree of a node is closed.
LEMMA ShapeClosed ==
    ASSUME NEW t \in Tree, NEW U, Shape(t, U), NEW n \in U[t.root], NEW m \in U[n]
    PROVE  U[m] \subseteq U[n] /\ (m # n => t.parent[m] \in U[n])
<1>1. Closed(t, U, n)
  BY DEF Shape
<1>2. QED
  BY <1>1 DEF Closed

\* A child hangs from its parent on one side only.
LEMMA ShapeParent ==
    ASSUME NEW t \in Tree, NEW U, Shape(t, U), NEW n \in U[t.root], n # t.root,
           NEW p, p = t.parent[n]
    PROVE  /\ p \in U[t.root] /\ p # n /\ p # nil /\ p \notin U[n] /\ U[n] \subseteq U[p]
           /\ \E e \in Side : /\ e = IF t.child[p]["left"] = n THEN "left" ELSE "right"
                              /\ t.child[p][e] = n /\ t.child[p][Opposite(e)] # n
<1>0. t.root \in U[t.root]
  BY ShapeNode DEF Shape
<1>1. p \in U[t.root]
  BY <1>0, ShapeClosed
<1>2. n # nil /\ p # nil
  BY <1>1, ShapeNode
<1>3. PICK s \in Side : t.child[p][s] = n
  BY DEF Shape
<1>4. p # n /\ p \notin U[n] /\ U[n] \subseteq U[p] /\ t.child[p][Opposite(s)] # n
  BY <1>1, <1>2, <1>3, ShapeChild
<1>5. s = IF t.child[p]["left"] = n THEN "left" ELSE "right"
  BY <1>3, <1>4 DEF Side, Opposite
<1>6. QED
  BY <1>1, <1>2, <1>3, <1>4, <1>5

\* The other side.
LEMMA OtherSide ==
    ASSUME NEW s \in Side
    PROVE  /\ Opposite(s) \in Side /\ Opposite(s) # s /\ Opposite(Opposite(s)) = s
           /\ \A r \in Side : (r = s /\ Opposite(r) = Opposite(s)) \/ (r = Opposite(s) /\ Opposite(r) = s)
BY DEF Side, Opposite

-----------------------------------------------------------------------------
(* Rotations *)

\* u is t once y, the child of n opposite to s, has been lifted above n; b is the
\* child of y that n takes over, p the parent of both.
Rotated(u, t, s, n, y, b, p) ==
    /\ u \in Tree /\ u.color = t.color /\ u.failed = t.failed
    /\ u.root = IF n = t.root THEN y ELSE t.root
    /\ \A k \in Node : \A r \in Side :
           u.child[k][r] = IF k = n /\ r = Opposite(s) THEN b
                           ELSE IF k = y /\ r = s THEN n
                           ELSE IF k = p /\ p # nil /\ t.child[k][r] = n THEN y
                           ELSE t.child[k][r]
    /\ \A k \in Node :
           u.parent[k] = IF k = n THEN y ELSE IF k = y THEN p
                         ELSE IF k = b /\ b # nil THEN n ELSE t.parent[k]

\* The nodes that take part in a rotation.
RotateNodes(t, U, s, n, y, b, p) ==
    /\ n \in U[t.root] /\ y = t.child[n][Opposite(s)] /\ y # nil
    /\ b = t.child[y][s] /\ p = t.parent[n]

\* They are different nodes.
LEMMA RotateApart ==
    ASSUME NEW t \in Tree, NEW U, Shape(t, U), NEW s \in Side, NEW n, NEW y, NEW b, NEW p,
           RotateNodes(t, U, s, n, y, b, p)
    PROVE  /\ n \in Nodes /\ n \in Node /\ y \in Nodes /\ y \in Node /\ b \in Node /\ p \in Node
           /\ n \in U[t.root] /\ y \in U[t.root] /\ Opposite(s) \in Side /\ Opposite(s) # s
           /\ Opposite(Opposite(s)) = s
           /\ n # y /\ n # nil /\ y # nil /\ b # n /\ b # y /\ p # n /\ p # y
           /\ t.parent[y] = n /\ n \notin U[y] /\ y \in U[n] /\ n \notin U[b] /\ y \notin U[b]
           /\ b # nil => b \in U[t.root] /\ t.parent[b] = y
           /\ n = t.root <=> p = nil
           /\ p # nil => /\ p \in U[t.root] /\ p \notin U[n] /\ p # b
                         /\ \E e \in Side : /\ e = IF t.child[p]["left"] = n THEN "left" ELSE "right"
                                            /\ t.child[p][e] = n /\ t.child[p][Opposite(e)] # n
           /\ t.child[n][s] # n /\ t.child[n][s] # y
           /\ t.child[y][Opposite(s)] # n /\ t.child[y][Opposite(s)] # y
<1>0. /\ n \in U[t.root] /\ y = t.child[n][Opposite(s)] /\ y # nil
      /\ b = t.child[y][s] /\ p = t.parent[n]
  BY DEF RotateNodes
<1>1. Opposite(s) \in Side /\ Opposite(s) # s /\ Opposite(Opposite(s)) = s
  BY DEF Side, Opposite
<1>2. n \in Nodes /\ n \in Node /\ n # nil /\ n \in U[n]
  BY <1>0, ShapeNode
<1>3. /\ y \in U[t.root] /\ t.parent[y] = n /\ y \in U[n] /\ y # n /\ y # t.root
      /\ n \notin U[y] /\ U[y] \subseteq U[n] /\ y # t.child[n][s]
  BY <1>0, <1>1, ShapeChild
<1>4. y \in Nodes /\ y \in Node /\ y \in U[y]
  BY <1>3, ShapeNode
<1>5. p \in Node /\ b \in Node
  BY <1>0, <1>2, <1>4, ReadType
<1>6. y \notin U[b]
  BY <1>0, <1>3, ShapeSplit
<1>7. U[b] \subseteq U[y]
  BY <1>0, <1>3, ShapeSplit
<1>8. b # nil => b \in U[t.root] /\ t.parent[b] = y /\ b \in U[y] /\ b # y
  BY <1>0, <1>3, ShapeChild
<1>9. n = t.root => p = nil
  BY <1>0, <1>2 DEF Shape
<1>10. n # t.root => /\ p \in U[t.root] /\ p # n /\ p # nil /\ p \notin U[n]
                     /\ \E e \in Side : /\ e = IF t.child[p]["left"] = n THEN "left" ELSE "right"
                                        /\ t.child[p][e] = n /\ t.child[p][Opposite(e)] # n
  BY <1>0, ShapeParent
<1>11. t.child[n][s] # n
  <2>1. t.child[n][s] # nil => t.child[n][s] # n
    BY <1>0, ShapeChild
  <2> QED
    BY <2>1, <1>2
<1>12. t.child[y][Opposite(s)] # n /\ t.child[y][Opposite(s)] # y
  <2>1. t.child[y][Opposite(s)] # nil => t.child[y][Opposite(s)] \in U[y] /\ t.child[y][Opposite(s)] # y
    BY <1>1, <1>3, ShapeChild
  <2> QED
    BY <2>1, <1>2, <1>3, <1>4, NotNil
<1>13. p # nil => p # b
  BY <1>3, <1>8, <1>9, <1>10
<1>14. b # n /\ b # y
  BY <1>2, <1>3, <1>4, <1>8, NotNil
<1>15. p # y /\ p # n
  BY <1>2, <1>3, <1>4, <1>9, <1>10, NotNil
<1>16. n \notin U[b]
  BY <1>3, <1>7
<1>17. QED
  BY <1>0, <1>1, <1>2, <1>3, <1>4, <1>5, <1>6, <1>8, <1>9, <1>10, <1>11, <1>12, <1>13, <1>14,
     <1>15, <1>16

\* bst_rotate does that and no assert of it fails.
LEMMA RotateFields ==
    ASSUME NEW t \in Tree, NEW U, Shape(t, U), NEW s \in Side, NEW n, NEW y, NEW b, NEW p,
           RotateNodes(t, U, s, n, y, b, p)
    PROVE  Rotated(bst_rotate(t, s, n), t, s, n, y, b, p)
<1> DEFINE o == Opposite(s)
           t1 == set_child(t, n, o, b)
           t2 == IF b # nil THEN bst_set_parent(t1, b, n) ELSE t1
           t3 == bst_set_parent(t2, y, p)
           t4 == ReplaceChild(t3, p, n, y)
           t5 == set_child(t4, y, s, n)
           t6 == bst_set_parent(t5, n, y)
<1>0. /\ y = t.child[n][Opposite(s)] /\ y # nil /\ b = t.child[y][s] /\ p = t.parent[n]
  BY DEF RotateNodes
<1>1. /\ n \in Node /\ y \in Node /\ b \in Node /\ p \in Node /\ o \in Side /\ o # s
      /\ n # y /\ n # nil /\ y # nil /\ b # n /\ b # y /\ p # n /\ p # y
      /\ n = t.root <=> p = nil
      /\ t.child[n][s] # n /\ t.child[n][s] # y /\ t.child[y][o] # n /\ t.child[y][o] # y
  BY RotateApart
<1>2. PICK e \in Side : p # nil => /\ e = IF t.child[p]["left"] = n THEN "left" ELSE "right"
                                   /\ t.child[p][e] = n /\ t.child[p][Opposite(e)] # n
  <2>1. p # nil => \E e \in Side : /\ e = IF t.child[p]["left"] = n THEN "left" ELSE "right"
                                   /\ t.child[p][e] = n /\ t.child[p][Opposite(e)] # n
    BY RotateApart
  <2> QED
    BY <2>1, Sides
<1>3. bst_rotate(t, s, n) = t6
  BY <1>0, <1>1 DEF bst_rotate, assert
<1> HIDE DEF o
<1>4. ChildSet(t1, t, n, o, b)
  BY <1>1, SetChildFields
<1> HIDE DEF t1
<1>5. t2 \in Tree /\ t2.root = t.root /\ t2.child = t1.child /\ t2.color = t.color
      /\ t2.failed = t.failed
      /\ \A k \in Node : t2.parent[k] = IF k = b /\ b # nil THEN n ELSE t.parent[k]
  <2>1. CASE b = nil
    BY <1>4, <2>1 DEF ChildSet
  <2>2. CASE b # nil
    <3>1. ParentSet(bst_set_parent(t1, b, n), t1, b, n)
      BY <1>1, <1>4, SetParentFields DEF ChildSet
    <3>2. t2 = bst_set_parent(t1, b, n)
      BY <2>2
    <3> HIDE DEF t2
    <3> QED
      BY <1>4, <2>2, <3>1, <3>2 DEF ParentSet, ChildSet
  <2> QED
    BY <2>1, <2>2
<1> HIDE DEF t2
<1>6. ParentSet(t3, t2, y, p)
  BY <1>1, <1>5, SetParentFields
<1> HIDE DEF t3
<1>7. p # nil => e = IF t3.child[p]["left"] = n THEN "left" ELSE "right"
  <2>1. t3.child = t1.child
    BY <1>5, <1>6 DEF ParentSet
  <2>2. t1.child[p]["left"] = t.child[p]["left"]
    BY <1>1, <1>4, Sides DEF ChildSet
  <2> QED
    BY <2>1, <2>2, <1>2
<1>8. Relinked(t4, t3, p, e, y)
  BY <1>1, <1>6, <1>7, ReplaceFields DEF ParentSet
<1> HIDE DEF t4
<1>9. ChildSet(t5, t4, y, s, n)
  BY <1>1, <1>8, SetChildFields DEF Relinked
<1> HIDE DEF t5
<1>10. ParentSet(t6, t5, n, y)
  BY <1>1, <1>9, SetParentFields DEF ChildSet
<1> HIDE DEF t6
<1>11. t6 \in Tree /\ t6.color = t.color /\ t6.failed = t.failed
  BY <1>4, <1>5, <1>6, <1>8, <1>9, <1>10 DEF ChildSet, ParentSet, Relinked
<1>12. t6.root = IF n = t.root THEN y ELSE t.root
  BY <1>1, <1>4, <1>5, <1>6, <1>8, <1>9, <1>10 DEF ChildSet, ParentSet, Relinked
<1>13. ASSUME NEW k \in Node, NEW r \in Side
       PROVE  t6.child[k][r] = IF k = n /\ r = o THEN b
                               ELSE IF k = y /\ r = s THEN n
                               ELSE IF k = p /\ p # nil /\ t.child[k][r] = n THEN y
                               ELSE t.child[k][r]
  <2>1. t6.child[k][r] = IF k = y /\ r = s THEN n ELSE t4.child[k][r]
    BY <1>9, <1>10 DEF ChildSet, ParentSet
  <2>2. t4.child[k][r] = IF p # nil /\ k = p /\ r = e THEN y ELSE t3.child[k][r]
    BY <1>8 DEF Relinked
  <2>3. t3.child[k][r] = IF k = n /\ r = o THEN b ELSE t.child[k][r]
    BY <1>4, <1>5, <1>6 DEF ChildSet, ParentSet
  <2>4. p # nil => (t.child[p][r] = n <=> r = e)
    BY <1>2 DEF Side, Opposite
  <2> QED
    BY <1>1, <2>1, <2>2, <2>3, <2>4
<1>14. ASSUME NEW k \in Node
       PROVE  t6.parent[k] = IF k = n THEN y ELSE IF k = y THEN p
                             ELSE IF k = b /\ b # nil THEN n ELSE t.parent[k]
  <2>1. t6.parent[k] = IF k = n THEN y ELSE t3.parent[k]
    BY <1>8, <1>9, <1>10 DEF ChildSet, ParentSet, Relinked
  <2>2. t3.parent[k] = IF k = y THEN p ELSE t2.parent[k]
    BY <1>6 DEF ParentSet
  <2> QED
    BY <2>1, <2>2, <1>5
<1>15. QED
  BY <1>3, <1>11, <1>12, <1>13, <1>14 DEF Rotated, o

\* What a rotation does to the subtrees.
RotatedUnder(W, U, t, s, n, y, b) ==
    W = [U EXCEPT ![n] = {n} \cup U[t.child[n][s]] \cup U[b], ![y] = U[n]]

\* A rotation keeps the shape.
LEMMA RotateShape ==
    ASSUME NEW t \in Tree, NEW U, Shape(t, U), NEW s \in Side, NEW n, NEW y, NEW b, NEW p,
           RotateNodes(t, U, s, n, y, b, p),
           NEW u, Rotated(u, t, s, n, y, b, p),
           NEW W, RotatedUnder(W, U, t, s, n, y, b)
    PROVE  Shape(u, W) /\ W[u.root] = U[t.root]
<1> DEFINE o == Opposite(s)
           a == t.child[n][s]
           c == t.child[y][o]
           T == U[t.root]
<1>1. /\ n \in Nodes /\ n \in Node /\ y \in Nodes /\ y \in Node /\ b \in Node /\ p \in Node
      /\ n \in T /\ y \in T /\ o \in Side /\ o # s /\ Opposite(o) = s
      /\ n # y /\ n # nil /\ y # nil /\ b # n /\ b # y /\ p # n /\ p # y
      /\ t.parent[y] = n /\ n \notin U[y] /\ y \in U[n] /\ n \notin U[b] /\ y \notin U[b]
      /\ b # nil => b \in T /\ t.parent[b] = y
      /\ n = t.root <=> p = nil
      /\ a # n /\ a # y /\ c # n /\ c # y
  BY RotateApart
<1>2. /\ p # nil => p \in T /\ p \notin U[n] /\ p # b
  BY RotateApart
<1>3. /\ y = t.child[n][o] /\ b = t.child[y][s] /\ p = t.parent[n]
  BY DEF RotateNodes
<1>4. /\ U \in [Node -> SUBSET Nodes] /\ U[nil] = {} /\ t.root \in Node
  BY DEF Shape, Tree
<1>5. a \in Node /\ c \in Node
  BY <1>1, ReadType
<1>6. /\ U[n] = {n} \cup U[a] \cup U[y] /\ n \notin U[a] /\ U[a] \cap U[y] = {}
  <2>1. /\ U[n] = {n} \cup U[a] \cup U[t.child[n][o]] /\ n \notin U[a] /\ U[a] \cap U[t.child[n][o]] = {}
    BY <1>1, ShapeSplit
  <2> QED
    BY <2>1, <1>3
<1>7. /\ U[y] = {y} \cup U[b] \cup U[c] /\ y \notin U[c] /\ U[b] \cap U[c] = {}
  <2>1. /\ U[y] = {y} \cup U[t.child[y][s]] \cup U[c] /\ y \notin U[c] /\ U[t.child[y][s]] \cap U[c] = {}
    BY <1>1, ShapeSplit
  <2> QED
    BY <2>1, <1>3
<1>8. /\ a # nil => a \in T /\ t.parent[a] = n /\ a \in U[a]
      /\ c # nil => c \in T /\ t.parent[c] = y /\ c \in U[c]
      /\ b # nil => b \in U[b]
      /\ y \in U[y] /\ n \in U[n]
  BY <1>1, ShapeChild, ShapeNode
<1>9. /\ W \in [Node -> SUBSET Nodes]
      /\ W[n] = {n} \cup U[a] \cup U[b] /\ W[y] = U[n]
      /\ \A k \in Node : k # n /\ k # y => W[k] = U[k]
  BY <1>1, <1>4, <1>5 DEF RotatedUnder
<1>10. /\ u \in Tree /\ u.root = IF n = t.root THEN y ELSE t.root
       /\ \A k \in Node : \A r \in Side :
              u.child[k][r] = IF k = n /\ r = o THEN b
                              ELSE IF k = y /\ r = s THEN n
                              ELSE IF k = p /\ p # nil /\ t.child[k][r] = n THEN y
                              ELSE t.child[k][r]
       /\ \A k \in Node :
              u.parent[k] = IF k = n THEN y ELSE IF k = y THEN p
                            ELSE IF k = b /\ b # nil THEN n ELSE t.parent[k]
  BY DEF Rotated
<1>11. W[u.root] = T
  BY <1>1, <1>4, <1>9, <1>10
<1>12. \A k \in T : k \in Nodes /\ k \in Node /\ k # nil /\ k \in U[k] /\ U[k] \subseteq T
  BY ShapeNode
<1>13. W[nil] = {} /\ (u.root # nil => u.root \in W[u.root] /\ u.parent[u.root] = nil)
  <2>1. t.root \in T /\ t.parent[t.root] = nil
    BY <1>1 DEF Shape
  <2>2. t.root # y
    BY <1>1, <2>1
  <2>3. nil \in Node
    BY DEF Node
  <2> QED
    BY <1>1, <1>4, <1>8, <1>9, <1>10, <1>11, <1>12, <2>1, <2>2, <2>3
<1>14. ASSUME NEW k \in T, NEW r \in Side
       PROVE  Kid(u, W, k, r)
  <2> DEFINE f == t.child[k][r]
             g == t.child[k][Opposite(r)]
  <2>0. Opposite(r) \in Side /\ Opposite(Opposite(r)) = r /\ Opposite(r) # r
    BY OtherSide
  <2>1. CASE k = n
    <3>1. /\ u.child[n][s] = a /\ u.child[n][o] = b
      BY <1>1, <1>10
    <3>2. /\ W[a] = U[a] /\ W[b] = U[b]
      BY <1>1, <1>5, <1>9
    <3>3. /\ a # nil => u.parent[a] = n
          /\ b # nil => u.parent[b] = n
      <4>1. a # nil => a # b
        BY <1>6, <1>7, <1>8
      <4> QED
        BY <1>1, <1>5, <1>8, <1>10, <4>1
    <3>4. W[n] = {n} \cup W[a] \cup W[b] /\ n \notin W[a] /\ n \notin W[b] /\ W[a] \cap W[b] = {}
      BY <3>2, <1>1, <1>6, <1>7, <1>9
    <3>5. (r = s /\ Opposite(r) = o) \/ (r = o /\ Opposite(r) = s)
      BY OtherSide
    <3> QED
      BY <2>1, <3>1, <3>3, <3>4, <3>5, <1>1, <1>8, <1>11 DEF Kid
  <2>2. CASE k = y
    <3>1. /\ u.child[y][s] = n /\ u.child[y][o] = c
      BY <1>1, <1>10
    <3>2. W[c] = U[c]
      BY <1>1, <1>5, <1>9
    <3>3. /\ c # nil => u.parent[c] = y
          /\ u.parent[n] = y
      <4>1. c # nil => c # b
        BY <1>7, <1>8
      <4> QED
        BY <1>1, <1>5, <1>8, <1>10, <4>1
    <3>4. W[y] = {y} \cup W[n] \cup W[c] /\ y \notin W[n] /\ y \notin W[c] /\ W[n] \cap W[c] = {}
      <4>1. n \notin U[c]
        BY <1>1, <1>7
      <4>2. y \notin U[a]
        BY <1>6, <1>8
      <4>3. U[a] \cap U[c] = {}
        BY <1>6, <1>7
      <4> QED
        BY <3>2, <4>1, <4>2, <4>3, <1>1, <1>6, <1>7, <1>9
    <3>5. (r = s /\ Opposite(r) = o) \/ (r = o /\ Opposite(r) = s)
      BY OtherSide
    <3> QED
      BY <2>2, <3>1, <3>3, <3>4, <3>5, <1>1, <1>8, <1>11 DEF Kid
  <2>3. CASE k # n /\ k # y
    <3>1. /\ f \in Node /\ g \in Node /\ k \in Node
      BY <1>12, <2>0, ReadType
    <3>2. /\ f # nil => f \in T /\ t.parent[f] = k
          /\ g # nil => g \in T /\ t.parent[g] = k
      BY <2>0, ShapeChild
    <3>3. /\ U[k] = {k} \cup U[f] \cup U[g] /\ k \notin U[f] /\ k \notin U[g] /\ U[f] \cap U[g] = {}
      BY <2>0, ShapeSplit
    <3>4. f # y /\ g # y /\ (b # nil => f # b /\ g # b)
      BY <2>3, <3>2, <1>1
    <3>5. W[k] = U[k]
      BY <2>3, <3>1, <1>9
    <3>6. u.child[k][r] = (IF f = n THEN y ELSE f) /\ u.child[k][Opposite(r)] = (IF g = n THEN y ELSE g)
      <4>1. f = n => p = k /\ p # nil
        BY <3>2, <1>1, <1>3, <1>12
      <4>2. g = n => p = k /\ p # nil
        BY <3>2, <1>1, <1>3, <1>12
      <4> QED
        BY <2>0, <2>3, <3>1, <4>1, <4>2, <1>10
    <3>7. W[u.child[k][r]] = U[f] /\ W[u.child[k][Opposite(r)]] = U[g]
      BY <3>1, <3>4, <3>6, <1>9
    <3>8. u.child[k][r] # nil => u.child[k][r] \in T /\ u.parent[u.child[k][r]] = k
      <4>1. CASE f = n
        BY <4>1, <3>2, <3>6, <1>1, <1>3, <1>10
      <4>2. CASE f # n
        BY <4>2, <3>1, <3>2, <3>4, <3>6, <1>10
      <4> QED
        BY <4>1, <4>2
    <3> QED
      BY <3>3, <3>5, <3>7, <3>8, <1>11 DEF Kid
  <2> QED
    BY <2>1, <2>2, <2>3
<1>15. ASSUME NEW k \in T, k # u.root
       PROVE  \E r \in Side : u.child[u.parent[k]][r] = k
  <2>1. CASE k = n
    BY <2>1, <1>1, <1>10
  <2>2. CASE k = y
    <3>1. p # nil
      BY <2>2, <1>1, <1>10, <1>15
    <3>2. PICK e \in Side : t.child[p][e] = n
      BY <3>1, RotateApart
    <3>3. u.child[p][e] = y
      BY <3>1, <3>2, <1>1, <1>10
    <3> QED
      BY <2>2, <3>3, <1>1, <1>10
  <2>3. CASE k = b
    <3>1. u.child[n][o] = b /\ u.parent[k] = n
      BY <2>3, <1>1, <1>10, <1>12
    <3> QED
      BY <2>3, <3>1, <1>1
  <2>4. CASE k # n /\ k # y /\ k # b
    <3>1. k # t.root
      BY <2>4, <1>10, <1>15
    <3>2. t.parent[k] \in T
      BY <3>1, ShapeParent
    <3>3. PICK e \in Side : t.child[t.parent[k]][e] = k
      BY <3>1 DEF Shape
    <3>4. u.parent[k] = t.parent[k]
      BY <2>4, <1>10, <1>12
    <3>5. u.child[t.parent[k]][e] = k
      <4>1. ~(t.parent[k] = n /\ e = o) /\ ~(t.parent[k] = y /\ e = s)
        BY <2>4, <3>3, <1>3
      <4> QED
        BY <2>4, <3>2, <3>3, <4>1, <1>10, <1>12
    <3> QED
      BY <3>4, <3>5
  <2> QED
    BY <2>1, <2>2, <2>3, <2>4
<1>16. \A k \in T : \A m \in U[k] : U[m] \subseteq U[k] /\ (m # k => t.parent[m] \in U[k])
  BY ShapeClosed
<1>17. \A k \in T : k # n /\ k # y /\ y \in U[k] => n \in U[k] /\ U[n] \subseteq U[k] /\ (p # nil => p \in U[k])
  <2> SUFFICES ASSUME NEW k \in T, k # n, k # y, y \in U[k]
               PROVE  n \in U[k] /\ U[n] \subseteq U[k] /\ (p # nil => p \in U[k])
    OBVIOUS
  <2>1. n \in U[k]
    BY <1>1, <1>16
  <2> QED
    BY <2>1, <1>1, <1>3, <1>16
<1>18. ASSUME NEW k \in T, NEW m \in W[k]
       PROVE  W[m] \subseteq W[k]
  <2>0. m \in T /\ k \in Node /\ m \in Node
    BY <1>1, <1>6, <1>7, <1>9, <1>12
  <2>1. CASE k = y
    <3>1. W[y] = U[n]
      BY <1>9
    <3>2. U[m] \subseteq U[n]
      BY <2>1, <3>1, <1>1, <1>16
    <3>3. W[m] \subseteq U[n]
      BY <2>0, <3>2, <1>6, <1>7, <1>9
    <3> QED
      BY <2>1, <3>1, <3>3
  <2>2. CASE k = n
    <3>1. CASE m = n
      BY <2>2, <3>1
    <3>2. CASE m \in U[a]
      <4>1. m # n /\ m # y
        BY <3>2, <1>6, <1>8
      <4>2. a # nil
        BY <3>2, <1>4
      <4>3. U[m] \subseteq U[a]
        BY <3>2, <4>2, <1>8, <1>16
      <4> QED
        BY <2>0, <2>2, <4>1, <4>3, <1>9
    <3>3. CASE m \in U[b]
      <4>1. m # n /\ m # y
        BY <3>3, <1>1
      <4>2. b # nil
        BY <3>3, <1>4
      <4>3. U[m] \subseteq U[b]
        BY <3>3, <4>2, <1>1, <1>16
      <4> QED
        BY <2>0, <2>2, <4>1, <4>3, <1>9
    <3> QED
      BY <2>2, <3>1, <3>2, <3>3, <1>9
  <2>3. CASE k # n /\ k # y
    <3>1. W[k] = U[k] /\ U[m] \subseteq U[k]
      BY <2>0, <2>3, <1>9, <1>16
    <3>2. m = n => W[m] \subseteq U[k]
      BY <3>1, <1>6, <1>7, <1>9
    <3>3. m = y => W[m] \subseteq U[k]
      BY <2>3, <3>1, <1>9, <1>17
    <3> QED
      BY <2>0, <3>1, <3>2, <3>3, <1>9
  <2> QED
    BY <2>1, <2>2, <2>3
<1>19. ASSUME NEW k \in T, NEW m \in W[k], m # k
       PROVE  u.parent[m] \in W[k]
  <2>0. m \in T /\ k \in Node /\ m \in Node /\ m # nil
    BY <1>1, <1>6, <1>7, <1>9, <1>12
  <2>1. CASE m = n
    <3>1. CASE k = y
      BY <2>1, <3>1, <1>1, <1>9, <1>10
    <3>2. CASE k # y
      <4>1. W[k] = U[k]
        BY <2>0, <2>1, <3>2, <1>9, <1>19
      <4>2. y \in U[k]
        BY <2>1, <4>1, <1>1, <1>16, <1>19
      <4> QED
        BY <2>1, <4>1, <4>2, <1>1, <1>10
    <3> QED
      BY <3>1, <3>2
  <2>2. CASE m = y
    <3>1. k # n
      BY <2>2, <1>1, <1>6, <1>8, <1>9, <1>19
    <3>2. W[k] = U[k]
      BY <2>0, <2>2, <3>1, <1>9, <1>19
    <3>3. p # nil
      <4>1. SUFFICES ASSUME p = nil PROVE FALSE
        OBVIOUS
      <4>2. n \in U[k] /\ k # n
        BY <2>2, <3>1, <3>2, <1>17, <1>19
      <4>3. n = t.root /\ t.parent[n] \in U[k]
        BY <4>1, <4>2, <1>1, <1>16
      <4> QED
        BY <4>1, <4>3, <1>3, <1>12, NotNil
    <3> QED
      BY <2>2, <3>1, <3>2, <3>3, <1>1, <1>10, <1>17, <1>19
  <2>3. CASE m # n /\ m # y /\ m = b
    <3>1. u.parent[m] = n
      BY <2>0, <2>3, <1>10
    <3>2. CASE k = n \/ k = y
      BY <3>1, <3>2, <1>8, <1>9
    <3>3. CASE k # n /\ k # y
      <4>1. W[k] = U[k]
        BY <2>0, <3>3, <1>9
      <4>2. y \in U[k]
        BY <2>0, <2>3, <4>1, <1>1, <1>16, <1>19
      <4> QED
        BY <3>1, <3>3, <4>1, <4>2, <1>17
    <3> QED
      BY <3>2, <3>3
  <2>4. CASE m # n /\ m # y /\ m # b
    <3>1. u.parent[m] = t.parent[m]
      BY <2>0, <2>4, <1>10
    <3>2. CASE k = n
      <4>1. CASE m \in U[a]
        <5>1. a # nil
          BY <4>1, <1>4
        <5>2. m = a \/ t.parent[m] \in U[a]
          BY <4>1, <5>1, <1>8, <1>16
        <5> QED
          BY <3>1, <3>2, <5>1, <5>2, <1>8, <1>9
      <4>2. CASE m \in U[b]
        <5>1. b # nil
          BY <4>2, <1>4
        <5>2. t.parent[m] \in U[b]
          BY <2>4, <4>2, <5>1, <1>1, <1>16
        <5> QED
          BY <3>1, <3>2, <5>2, <1>9
      <4> QED
        BY <2>4, <3>2, <4>1, <4>2, <1>9
    <3>3. CASE k = y
      <4>1. m \in U[n]
        BY <3>3, <1>9
      <4>2. t.parent[m] \in U[n]
        BY <2>4, <4>1, <1>1, <1>16
      <4> QED
        BY <3>1, <3>3, <4>2, <1>9
    <3>4. CASE k # n /\ k # y
      BY <2>0, <3>1, <3>4, <1>9, <1>16, <1>19
    <3> QED
      BY <3>2, <3>3, <3>4
  <2> QED
    BY <2>1, <2>2, <2>3, <2>4
<1>20. QED
  <2> HIDE DEF T
  <2>1. W \in [Node -> SUBSET Nodes] /\ W[u.root] = T
    BY <1>9, <1>11
  <2> QED
    BY <2>1, <1>13, <1>14, <1>15, <1>18, <1>19 DEF Shape, Closed, T

-----------------------------------------------------------------------------
(* Order *)

\* The order of the keys, seen from either side.
LEMMA BeyondOrder ==
    ASSUME NEW s \in Side, NEW a \in Keys, NEW b \in Keys
    PROVE  /\ ~Beyond(s, a, a)
           /\ Beyond(s, a, b) => ~Beyond(s, b, a)
           /\ a # b => Beyond(s, a, b) \/ Beyond(s, b, a)
           /\ Beyond(s, a, b) <=> Beyond(Opposite(s), b, a)
BY KeysAssumption DEF Beyond, Side, Opposite

\* It is transitive.
LEMMA BeyondTrans ==
    ASSUME NEW s \in Side, NEW a \in Keys, NEW b \in Keys, NEW c \in Keys,
           Beyond(s, a, b), Beyond(s, b, c)
    PROVE  Beyond(s, a, c)
BY KeysAssumption DEF Beyond, Side

\* A rotation keeps the order.
LEMMA RotateOrdered ==
    ASSUME NEW t \in Tree, NEW U, Shape(t, U), NEW s \in Side, NEW n, NEW y, NEW b, NEW p,
           RotateNodes(t, U, s, n, y, b, p),
           NEW u, Rotated(u, t, s, n, y, b, p),
           NEW W, RotatedUnder(W, U, t, s, n, y, b),
           NEW val, Ordered(t, U, val)
    PROVE  Ordered(u, W, val)
<1> DEFINE o == Opposite(s)
           a == t.child[n][s]
           c == t.child[y][o]
           T == U[t.root]
<1>1. /\ n \in Nodes /\ n \in Node /\ y \in Nodes /\ y \in Node /\ b \in Node /\ p \in Node
      /\ n \in T /\ y \in T /\ o \in Side /\ o # s /\ Opposite(o) = s
      /\ n # y /\ n # nil /\ y # nil /\ b # n /\ b # y /\ p # n /\ p # y
      /\ t.parent[y] = n
      /\ b # nil => t.parent[b] = y
      /\ a # n /\ a # y /\ c # n /\ c # y
  BY RotateApart
<1>2. /\ y = t.child[n][o] /\ b = t.child[y][s] /\ p = t.parent[n]
  BY DEF RotateNodes
<1>3. W[u.root] = T
  BY RotateShape
<1>4. /\ U \in [Node -> SUBSET Nodes] /\ U[nil] = {}
  BY DEF Shape
<1>5. a \in Node /\ c \in Node
  BY <1>1, ReadType
<1>6. /\ W[n] = {n} \cup U[a] \cup U[b] /\ W[y] = U[n]
      /\ \A k \in Node : k # n /\ k # y => W[k] = U[k]
  BY <1>1, <1>4, <1>5 DEF RotatedUnder
<1>7. \A k \in Node : \A r \in Side :
              u.child[k][r] = IF k = n /\ r = o THEN b
                              ELSE IF k = y /\ r = s THEN n
                              ELSE IF k = p /\ p # nil /\ t.child[k][r] = n THEN y
                              ELSE t.child[k][r]
  BY DEF Rotated
<1>8. \A k \in T : k \in Nodes /\ k \in Node /\ k # nil /\ k \in U[k] /\ U[k] \subseteq T
  BY ShapeNode
<1>9. \A k \in T : val[k] \in Keys
  BY DEF Ordered
<1>10. \A k \in T : \A r \in Side : \A m \in U[t.child[k][r]] : Beyond(r, val[m], val[k])
  BY DEF Ordered
<1>11. U[b] \subseteq U[y] /\ U[y] \subseteq T /\ y \in U[y] /\ U[b] \subseteq T /\ U[a] \subseteq T
  <2>1. U[y] = {y} \cup U[t.child[y][s]] \cup U[c]
    BY <1>1, ShapeSplit
  <2>2. U[n] = {n} \cup U[a] \cup U[t.child[n][o]]
    BY <1>1, ShapeSplit
  <2> QED
    BY <2>1, <2>2, <1>1, <1>2, <1>8
<1>12. ASSUME NEW k \in T, NEW r \in Side, NEW m \in W[u.child[k][r]]
       PROVE  Beyond(r, val[m], val[k])
  <2>1. CASE k = n
    <3>1. CASE r = o
      <4>1. m \in U[b]
        BY <2>1, <3>1, <1>1, <1>6, <1>7, <1>12
      <4>2. m \in U[t.child[n][o]]
        BY <4>1, <1>2, <1>11
      <4> QED
        BY <2>1, <3>1, <4>2, <1>1, <1>10
    <3>2. CASE r = s
      <4>1. m \in U[a]
        BY <2>1, <3>2, <1>1, <1>5, <1>6, <1>7, <1>12
      <4> QED
        BY <2>1, <3>2, <4>1, <1>1, <1>10
    <3> QED
      BY <3>1, <3>2, OtherSide
  <2>2. CASE k = y
    <3>1. CASE r = s
      <4>1. m \in {n} \cup U[a] \cup U[b]
        BY <2>2, <3>1, <1>1, <1>6, <1>7, <1>12
      <4>2. Beyond(s, val[n], val[y])
        <5>1. Beyond(o, val[y], val[n])
          BY <1>1, <1>2, <1>10, <1>11
        <5> QED
          BY <5>1, <1>1, <1>9, BeyondOrder
      <4>3. CASE m \in U[a]
        <5>1. Beyond(s, val[m], val[n])
          BY <4>3, <1>1, <1>10
        <5>2. Beyond(s, val[m], val[y])
          BY <5>1, <4>2, <4>3, <1>1, <1>9, <1>11, BeyondTrans
        <5> QED
          BY <5>2, <2>2, <3>1
      <4>4. CASE m \in U[b]
        BY <4>4, <2>2, <3>1, <1>1, <1>2, <1>10
      <4> QED
        BY <4>1, <4>2, <4>3, <4>4, <2>2, <3>1
    <3>2. CASE r = o
      <4>1. m \in U[c]
        BY <2>2, <3>2, <1>1, <1>5, <1>6, <1>7, <1>12
      <4> QED
        BY <2>2, <3>2, <4>1, <1>1, <1>10
    <3> QED
      BY <3>1, <3>2, OtherSide
  <2>3. CASE k # n /\ k # y
    <3> DEFINE f == t.child[k][r]
    <3>1. f \in Node /\ (f # nil => t.parent[f] = k) /\ k \in Node
      BY <1>8, ReadType, ShapeChild
    <3>2. f # y
      BY <2>3, <3>1, <1>1
    <3>3. u.child[k][r] = IF f = n THEN y ELSE f
      <4>1. f = n => p = k /\ p # nil
        BY <3>1, <1>1, <1>2, <1>8
      <4> QED
        BY <2>3, <3>1, <4>1, <1>7
    <3>4. m \in U[f]
      BY <3>1, <3>2, <3>3, <1>1, <1>6, <1>12
    <3> QED
      BY <3>4, <1>10
  <2> QED
    BY <2>1, <2>2, <2>3
<1>13. QED
  <2> HIDE DEF T
  <2> QED
    BY <1>3, <1>9, <1>12 DEF Ordered

-----------------------------------------------------------------------------
(* Inserting a leaf *)

\* u is t with n as a red node without children under p.
LeafSet(u, t, n, p) ==
    /\ u \in Tree /\ u.root = t.root /\ u.failed = t.failed
    /\ \A k \in Node : \A r \in Side : u.child[k][r] = IF k = n THEN nil ELSE t.child[k][r]
    /\ \A k \in Node : u.parent[k] = IF k = n THEN p ELSE t.parent[k]
    /\ \A k \in Node : u.color[k] = IF k = n THEN BST_RED ELSE t.color[k]

\* Making a leaf.
LEMMA LeafFields ==
    ASSUME NEW t \in Tree, NEW n \in Node, NEW p \in Node
    PROVE  LeafSet(Leaf(t, n, p), t, n, p)
<1> DEFINE t1 == set_child(t, n, "left", nil)
           t2 == set_child(t1, n, "right", nil)
           t3 == bst_set_parent(t2, n, p)
           t4 == bst_set_color(t3, n, BST_RED)
<1>0. nil \in Node
  BY DEF Node
<1>1. ChildSet(t1, t, n, "left", nil)
  BY <1>0, Sides, SetChildFields
<1> HIDE DEF t1
<1>2. ChildSet(t2, t1, n, "right", nil)
  BY <1>0, <1>1, Sides, SetChildFields DEF ChildSet
<1> HIDE DEF t2
<1>3. ParentSet(t3, t2, n, p)
  BY <1>2, SetParentFields DEF ChildSet
<1> HIDE DEF t3
<1>4. ColorSet(t4, t3, n, BST_RED)
  BY <1>3, SetColorFields DEF ParentSet
<1> HIDE DEF t4
<1>5. t4 \in Tree /\ t4.root = t.root /\ t4.failed = t.failed
  BY <1>1, <1>2, <1>3, <1>4 DEF ChildSet, ParentSet, ColorSet
<1>6. ASSUME NEW k \in Node, NEW r \in Side
      PROVE  t4.child[k][r] = IF k = n THEN nil ELSE t.child[k][r]
  <2>1. t4.child = t2.child
    BY <1>3, <1>4 DEF ParentSet, ColorSet
  <2>2. t2.child[k][r] = IF k = n /\ r = "right" THEN nil ELSE t1.child[k][r]
    BY <1>2 DEF ChildSet
  <2>3. t1.child[k][r] = IF k = n /\ r = "left" THEN nil ELSE t.child[k][r]
    BY <1>1 DEF ChildSet
  <2> QED
    BY <2>1, <2>2, <2>3 DEF Side
<1>7. ASSUME NEW k \in Node
      PROVE  /\ t4.parent[k] = IF k = n THEN p ELSE t.parent[k]
             /\ t4.color[k] = IF k = n THEN BST_RED ELSE t.color[k]
  BY <1>1, <1>2, <1>3, <1>4 DEF ChildSet, ParentSet, ColorSet
<1>8. Leaf(t, n, p) = t4
  BY DEF Leaf, t1, t2, t3, t4
<1>9. QED
  BY <1>5, <1>6, <1>7, <1>8 DEF LeafSet

\* u is t with the leaf n at side s of p, or as the root.
Inserted(u, t, n, p, s) ==
    /\ u \in Tree /\ u.root = (IF p = nil THEN n ELSE t.root) /\ u.failed = t.failed
    /\ \A k \in Node : \A r \in Side :
           u.child[k][r] = IF k = n THEN nil ELSE IF p # nil /\ k = p /\ r = s THEN n
                           ELSE t.child[k][r]
    /\ \A k \in Node : u.parent[k] = IF k = n THEN p ELSE t.parent[k]
    /\ \A k \in Node : u.color[k] = IF k = n THEN BST_RED ELSE t.color[k]

\* The subtrees of Inserted.
InsertedUnder(W, U, n, p) ==
    W = [k \in Node |-> IF k = n THEN {n}
                        ELSE IF p # nil /\ p \in U[k] THEN U[k] \cup {n} ELSE U[k]]

\* A leaf at a free place keeps shape and order, if its key belongs there.
LEMMA InsertShape ==
    ASSUME NEW t \in Tree, NEW U, Shape(t, U), NEW s \in Side, NEW n \in Nodes \ U[t.root],
           NEW p \in U[t.root] \cup {nil}, p = nil => t.root = nil,
           p # nil => t.child[p][s] = nil,
           NEW u, Inserted(u, t, n, p, s),
           NEW W, InsertedUnder(W, U, n, p),
           NEW val, Ordered(t, U, val), val[n] \in Keys,
           p # nil => Beyond(s, val[n], val[p]),
           \A m \in U[t.root] \ {p} : \A r \in Side :
               p \in U[t.child[m][r]] => Beyond(r, val[n], val[m])
    PROVE  Shape(u, W) /\ W[u.root] = U[t.root] \cup {n} /\ Ordered(u, W, val)
<1> DEFINE T == U[t.root]
           V == T \cup {n}
<1>1. /\ U \in [Node -> SUBSET Nodes] /\ U[nil] = {} /\ t.root \in Node /\ nil \in Node
  BY DEF Shape, Tree, Node
<1>2. n \in Node /\ n # nil
  BY NotNil DEF Node
<1>3. \A k \in T : k \in Nodes /\ k \in Node /\ k # nil /\ k \in U[k] /\ U[k] \subseteq T /\ k # n /\ n \notin U[k]
  BY ShapeNode
<1>4. /\ W \in [Node -> SUBSET Nodes] /\ W[n] = {n} /\ W[nil] = {}
      /\ \A k \in Node : k # n => W[k] = IF p # nil /\ p \in U[k] THEN U[k] \cup {n} ELSE U[k]
  BY <1>1, <1>2 DEF InsertedUnder
<1>5. /\ u \in Tree /\ u.root = IF p = nil THEN n ELSE t.root
      /\ \A k \in Node : \A r \in Side :
             u.child[k][r] = IF k = n THEN nil ELSE IF p # nil /\ k = p /\ r = s THEN n
                             ELSE t.child[k][r]
      /\ \A k \in Node : u.parent[k] = IF k = n THEN p ELSE t.parent[k]
  BY DEF Inserted
<1>6. W[u.root] = V
  <2>1. CASE p = nil
    BY <2>1, <1>1, <1>4, <1>5
  <2>2. CASE p # nil
    <3>1. t.root \in T
      BY <2>2, ShapeNode DEF Shape
    <3> QED
      BY <2>2, <3>1, <1>1, <1>3, <1>4, <1>5
  <2> QED
    BY <2>1, <2>2
<1>7. u.root # nil => u.root \in W[u.root] /\ u.parent[u.root] = nil
  <2>1. CASE p = nil
    BY <2>1, <1>2, <1>5, <1>6
  <2>2. CASE p # nil
    <3>1. t.root # nil /\ t.root \in T /\ t.parent[t.root] = nil
      BY <2>2, ShapeNode DEF Shape
    <3> QED
      BY <2>2, <3>1, <1>1, <1>3, <1>5, <1>6
  <2> QED
    BY <2>1, <2>2
<1>8. ASSUME NEW k \in T, NEW r \in Side
      PROVE  /\ t.child[k][r] \in Node
             /\ t.child[k][r] # nil => t.child[k][r] \in T /\ t.parent[t.child[k][r]] = k
             /\ U[k] = {k} \cup U[t.child[k][r]] \cup U[t.child[k][Opposite(r)]]
             /\ k \notin U[t.child[k][r]]
             /\ U[t.child[k][r]] \cap U[t.child[k][Opposite(r)]] = {}
             /\ n \notin U[t.child[k][r]] /\ t.child[k][r] # n
  <2>1. t.child[k][r] \in Node
    BY <1>3, ReadType
  <2>2. t.child[k][r] # nil => t.child[k][r] \in T /\ t.parent[t.child[k][r]] = k
    BY ShapeChild
  <2>3. /\ U[k] = {k} \cup U[t.child[k][r]] \cup U[t.child[k][Opposite(r)]]
        /\ k \notin U[t.child[k][r]] /\ U[t.child[k][r]] \cap U[t.child[k][Opposite(r)]] = {}
    BY ShapeSplit
  <2> QED
    BY <2>1, <2>2, <2>3, <1>2, <1>3
<1>9. ASSUME NEW k \in V, NEW r \in Side
      PROVE  Kid(u, W, k, r)
  <2> DEFINE f == t.child[k][r]
             g == t.child[k][Opposite(r)]
  <2>0. Opposite(r) \in Side /\ Opposite(r) # r /\ Opposite(Opposite(r)) = r
    BY OtherSide
  <2>1. CASE k = n
    <3>1. u.child[k][r] = nil /\ u.child[k][Opposite(r)] = nil
      BY <2>0, <2>1, <1>2, <1>5
    <3> QED
      BY <2>1, <3>1, <1>4 DEF Kid
  <2>2. CASE k = p /\ k # n
    <3>1. k \in T /\ p # nil /\ k \in Node
      BY <2>2, <1>3
    <3>2. u.child[k][s] = n /\ u.child[k][Opposite(s)] = t.child[p][Opposite(s)]
      BY <2>2, <3>1, <1>5, OtherSide
    <3> DEFINE q == t.child[p][Opposite(s)]
    <3>3. U[p] = {p} \cup U[t.child[p][s]] \cup U[q] /\ p \notin U[q] /\ n \notin U[q] /\ q # n /\ q \in Node
      BY <2>2, <3>1, <1>8, OtherSide
    <3>4. q # nil => q \in T /\ t.parent[q] = p
      BY <2>2, <3>1, <1>8, OtherSide
    <3>5. W[q] = U[q]
      BY <3>3, <1>4
    <3>6. W[k] = U[p] \cup {n}
      BY <2>2, <3>1, <1>3, <1>4
    <3>7. U[p] = {p} \cup U[q]
      BY <3>1, <3>3, <1>1
    <3>8. CASE r = s
      BY <3>8, <2>2, <3>1, <3>2, <3>3, <3>4, <3>5, <3>6, <3>7, <1>2, <1>4, <1>5, <1>6 DEF Kid
    <3>9. CASE r = Opposite(s)
      <4>1. Opposite(r) = s
        BY <3>9, OtherSide
      <4>2. u.parent[q] = t.parent[q]
        BY <3>3, <1>5
      <4> QED
        BY <3>9, <4>1, <4>2, <2>2, <3>1, <3>2, <3>3, <3>4, <3>5, <3>6, <3>7, <1>2, <1>4, <1>6 DEF Kid
    <3> QED
      BY <3>8, <3>9, OtherSide
  <2>3. CASE k # n /\ k # p
    <3>1. k \in T /\ k \in Node
      BY <2>3, <1>3
    <3>2. u.child[k][r] = f /\ u.child[k][Opposite(r)] = g
      BY <2>0, <2>3, <3>1, <1>5
    <3>3. /\ f \in Node /\ g \in Node /\ f # n /\ g # n /\ n \notin U[f] /\ n \notin U[g]
          /\ f # nil => f \in T /\ t.parent[f] = k
          /\ U[k] = {k} \cup U[f] \cup U[g] /\ k \notin U[f] /\ k \notin U[g]
          /\ U[f] \cap U[g] = {}
      BY <2>0, <3>1, <1>8
    <3>4. W[f] = (IF p # nil /\ p \in U[f] THEN U[f] \cup {n} ELSE U[f])
      BY <3>3, <1>4
    <3>5. W[g] = (IF p # nil /\ p \in U[g] THEN U[g] \cup {n} ELSE U[g])
      BY <3>3, <1>4
    <3>6. W[k] = (IF p # nil /\ p \in U[k] THEN U[k] \cup {n} ELSE U[k])
      BY <2>3, <3>1, <1>4
    <3>7. p \in U[k] <=> p \in U[f] \/ p \in U[g]
      BY <2>3, <3>3
    <3>8. W[k] = {k} \cup W[f] \cup W[g] /\ k \notin W[f] /\ W[f] \cap W[g] = {}
      BY <2>3, <3>3, <3>4, <3>5, <3>6, <3>7
    <3>9. f # nil => f \in W[u.root] /\ u.parent[f] = k
      BY <3>3, <1>5, <1>6
    <3> QED
      BY <3>2, <3>8, <3>9 DEF Kid
  <2> QED
    BY <2>1, <2>2, <2>3
<1>10. ASSUME NEW k \in V, k # u.root
       PROVE  \E r \in Side : u.child[u.parent[k]][r] = k
  <2>1. CASE k = n
    <3>1. p # nil /\ p \in Node /\ p # n
      BY <2>1, <1>3, <1>5, <1>10
    <3> QED
      BY <2>1, <3>1, <1>2, <1>5
  <2>2. CASE k # n
    <3>1. k \in T /\ k # t.root /\ k \in Node
      BY <2>2, <1>1, <1>3, <1>5, <1>10
    <3>2. t.parent[k] \in T
      BY <3>1, ShapeParent
    <3>3. PICK r \in Side : t.child[t.parent[k]][r] = k
      BY <3>1, ShapeParent
    <3>4. ~(t.parent[k] = p /\ r = s)
      BY <3>1, <3>2, <3>3, <1>3
    <3>5. u.parent[k] = t.parent[k] /\ u.child[t.parent[k]][r] = k
      BY <2>2, <3>1, <3>2, <3>3, <3>4, <1>3, <1>5
    <3> QED
      BY <3>5
  <2> QED
    BY <2>1, <2>2
<1>11. ASSUME NEW k \in V
       PROVE  Closed(u, W, k)
  <2> SUFFICES ASSUME NEW m \in W[k]
               PROVE  W[m] \subseteq W[k] /\ (m # k => u.parent[m] \in W[k])
    BY DEF Closed
  <2>1. CASE k = n
    BY <2>1, <1>4
  <2>2. CASE k # n /\ m = n
    <3>1. k \in T /\ p # nil /\ p \in U[k] /\ W[k] = U[k] \cup {n}
      BY <2>2, <1>3, <1>4
    <3> QED
      BY <2>2, <3>1, <1>2, <1>4, <1>5
  <2>3. CASE k # n /\ m # n
    <3>1. k \in T /\ k \in Node /\ m \in U[k] /\ m \in Node
      BY <2>3, <1>3, <1>4
    <3>2. U[m] \subseteq U[k] /\ (m # k => t.parent[m] \in U[k])
      BY <3>1, ShapeClosed
    <3>3. W[m] \subseteq W[k]
      BY <2>3, <3>1, <3>2, <1>4
    <3>4. U[k] \subseteq W[k]
      BY <2>3, <3>1, <1>4
    <3> QED
      BY <2>3, <3>1, <3>2, <3>3, <3>4, <1>5
  <2> QED
    BY <2>1, <2>2, <2>3
<1>12. Shape(u, W)
  <2> HIDE DEF V
  <2> QED
    BY <1>4, <1>6, <1>7, <1>9, <1>10, <1>11 DEF Shape
<1>13. ASSUME NEW k \in V, NEW r \in Side, NEW m \in W[u.child[k][r]]
       PROVE  Beyond(r, val[m], val[k])
  <2>1. CASE k = n
    BY <2>1, <1>2, <1>4, <1>5, <1>13
  <2>2. CASE k # n /\ m # n
    <3>1. k \in T /\ k \in Node
      BY <2>2, <1>3
    <3>2. t.child[k][r] \in Node /\ t.child[k][r] # n
      BY <3>1, <1>8
    <3>3. u.child[k][r] = n \/ u.child[k][r] = t.child[k][r]
      BY <2>2, <3>1, <1>5
    <3>4. u.child[k][r] # n
      BY <2>2, <1>4, <1>13
    <3>5. m \in U[t.child[k][r]]
      BY <2>2, <3>2, <3>3, <3>4, <1>4, <1>13
    <3> QED
      BY <3>1, <3>5 DEF Ordered
  <2>3. CASE k # n /\ m = n
    <3>1. k \in T /\ k \in Node
      BY <2>3, <1>3
    <3>2. t.child[k][r] \in Node /\ t.child[k][r] # n /\ n \notin U[t.child[k][r]] /\ k \notin U[t.child[k][r]]
      BY <3>1, <1>8
    <3>3. CASE p # nil /\ k = p /\ r = s
      BY <2>3, <3>3
    <3>4. CASE ~(p # nil /\ k = p /\ r = s)
      <4>1. u.child[k][r] = t.child[k][r]
        BY <2>3, <3>1, <3>4, <1>5
      <4>2. p # nil /\ p \in U[t.child[k][r]]
        BY <2>3, <3>2, <4>1, <1>4, <1>13
      <4>3. k # p
        BY <3>2, <4>2
      <4> QED
        BY <2>3, <3>1, <4>2, <4>3
    <3> QED
      BY <3>3, <3>4
  <2> QED
    BY <2>1, <2>2, <2>3
<1>14. Ordered(u, W, val)
  <2>1. \A k \in V : val[k] \in Keys
    BY DEF Ordered
  <2> HIDE DEF V
  <2> QED
    BY <2>1, <1>6, <1>13 DEF Ordered
<1>15. QED
  BY <1>6, <1>12, <1>14

-----------------------------------------------------------------------------
(* Removing a node with at most one child *)

\* u is t with new in the place of old, the child of p on side e or the root.
Transplanted(u, t, old, new, p, e) ==
    /\ u \in Tree /\ u.root = (IF p = nil THEN new ELSE t.root)
    /\ u.color = t.color /\ u.failed = t.failed
    /\ \A k \in Node : \A r \in Side :
           u.child[k][r] = IF p # nil /\ k = p /\ r = e THEN new ELSE t.child[k][r]
    /\ \A k \in Node : u.parent[k] = IF k = new THEN p ELSE t.parent[k]

\* bst_transplant does that, and its assert holds.
LEMMA TransplantFields ==
    ASSUME NEW t \in Tree, NEW old \in Node, NEW new \in Node, t.root # nil, old # new,
           NEW p, p = t.parent[old], NEW e \in Side,
           p # nil => e = IF t.child[p]["left"] = old THEN "left" ELSE "right"
    PROVE  Transplanted(bst_transplant(t, old, new), t, old, new, p, e)
<1> DEFINE t1 == ReplaceChild(t, p, old, new)
           t2 == bst_set_parent(t1, new, p)
<1>0. p \in Node
  BY ReadType, Sides
<1>1. bst_transplant(t, old, new) = t2
  BY DEF bst_transplant, assert
<1>2. Relinked(t1, t, p, e, new)
  BY <1>0, ReplaceFields
<1> HIDE DEF t1
<1>3. ParentSet(t2, t1, new, p)
  BY <1>0, <1>2, SetParentFields DEF Relinked
<1> HIDE DEF t2
<1>4. t2 \in Tree /\ t2.root = (IF p = nil THEN new ELSE t.root)
      /\ t2.color = t.color /\ t2.failed = t.failed
  BY <1>2, <1>3 DEF Relinked, ParentSet
<1>5. /\ \A k \in Node : \A r \in Side :
             t2.child[k][r] = IF p # nil /\ k = p /\ r = e THEN new ELSE t.child[k][r]
  BY <1>2, <1>3 DEF Relinked, ParentSet
<1>6. \A k \in Node : t2.parent[k] = IF k = new THEN p ELSE t.parent[k]
  BY <1>2, <1>3 DEF Relinked, ParentSet
<1>7. QED
  BY <1>1, <1>4, <1>5, <1>6 DEF Transplanted

\* r, the only child of n or the sentinel, takes the place of n.
RemoveNodes(t, U, n, s, r, p, e) ==
    /\ n \in U[t.root] /\ s \in Side /\ t.child[n][s] = nil /\ r = t.child[n][Opposite(s)]
    /\ p = t.parent[n] /\ e \in Side
    /\ p # nil => e = IF t.child[p]["left"] = n THEN "left" ELSE "right"

\* The nodes that take part in a removal.
LEMMA RemoveApart ==
    ASSUME NEW t \in Tree, NEW U, Shape(t, U), NEW n, NEW s, NEW r, NEW p, NEW e,
           RemoveNodes(t, U, n, s, r, p, e)
    PROVE  /\ n \in Nodes /\ n \in Node /\ n # nil /\ r \in Node /\ p \in Node /\ e \in Side
           /\ t.root # nil /\ n # r /\ p # n /\ n \in U[t.root]
           /\ n = t.root <=> p = nil
           /\ p # nil => /\ p \in U[t.root] /\ t.child[p][e] = n /\ t.child[p][Opposite(e)] # n
                         /\ p \notin U[n] /\ p # r
           /\ r # nil => r \in U[t.root] /\ t.parent[r] = n
           /\ U[n] = {n} \cup U[r] /\ n \notin U[r]
<1>0. /\ n \in U[t.root] /\ s \in Side /\ t.child[n][s] = nil /\ r = t.child[n][Opposite(s)]
      /\ p = t.parent[n] /\ e \in Side
      /\ p # nil => e = IF t.child[p]["left"] = n THEN "left" ELSE "right"
  BY DEF RemoveNodes
<1>1. n \in Nodes /\ n \in Node /\ n # nil /\ t.root # nil /\ n \in U[n]
  BY <1>0, ShapeNode
<1>2. r \in Node /\ p \in Node /\ Opposite(s) \in Side
  BY <1>0, <1>1, Sides, ReadType
<1>3. r # nil => r \in U[t.root] /\ t.parent[r] = n /\ r \in U[n] /\ r # n
  BY <1>0, <1>2, ShapeChild
<1>4. U[n] = {n} \cup U[r] /\ n \notin U[r]
  <2>1. U[n] = {n} \cup U[t.child[n][s]] \cup U[t.child[n][Opposite(s)]] /\ n \notin U[t.child[n][Opposite(s)]]
    BY <1>0, ShapeSplit
  <2>2. U[nil] = {}
    BY DEF Shape
  <2> QED
    BY <2>1, <2>2, <1>0
<1>5. n = t.root => p = nil
  BY <1>0, <1>1 DEF Shape
<1>6. n # t.root => /\ p \in U[t.root] /\ p # nil /\ p \notin U[n]
                    /\ t.child[p][e] = n /\ t.child[p][Opposite(e)] # n
  BY <1>0, ShapeParent
<1>7. QED
  BY <1>0, <1>1, <1>2, <1>3, <1>4, <1>5, <1>6

\* The subtrees without n.
RemovedUnder(W, U, n) == W = [k \in Node |-> U[k] \ {n}]

\* A removal keeps shape and order.
LEMMA RemoveShape ==
    ASSUME NEW t \in Tree, NEW U, Shape(t, U), NEW n, NEW s, NEW r, NEW p, NEW e,
           RemoveNodes(t, U, n, s, r, p, e),
           NEW u, Transplanted(u, t, n, r, p, e),
           NEW W, RemovedUnder(W, U, n),
           NEW val, Ordered(t, U, val)
    PROVE  Shape(u, W) /\ W[u.root] = U[t.root] \ {n} /\ Ordered(u, W, val)
<1> DEFINE T == U[t.root]
           V == T \ {n}
<1>1. /\ n \in Nodes /\ n \in Node /\ n # nil /\ r \in Node /\ p \in Node /\ e \in Side
      /\ t.root # nil /\ n # r /\ p # n /\ n \in T
      /\ n = t.root <=> p = nil
      /\ p # nil => /\ p \in T /\ t.child[p][e] = n /\ t.child[p][Opposite(e)] # n
                    /\ p \notin U[n] /\ p # r
      /\ r # nil => r \in T /\ t.parent[r] = n
      /\ U[n] = {n} \cup U[r] /\ n \notin U[r]
  BY RemoveApart
<1>2. /\ U \in [Node -> SUBSET Nodes] /\ U[nil] = {} /\ t.root \in Node /\ nil \in Node
      /\ t.root \in T /\ t.parent[t.root] = nil
  BY <1>1 DEF Shape, Tree, Node
<1>3. \A k \in T : k \in Nodes /\ k \in Node /\ k # nil /\ k \in U[k] /\ U[k] \subseteq T
  BY ShapeNode
<1>4. W \in [Node -> SUBSET Nodes] /\ \A k \in Node : W[k] = U[k] \ {n}
  BY <1>2 DEF RemovedUnder
<1>5. /\ u \in Tree /\ u.root = (IF p = nil THEN r ELSE t.root)
      /\ \A k \in Node : \A q \in Side :
             u.child[k][q] = IF p # nil /\ k = p /\ q = e THEN r ELSE t.child[k][q]
      /\ \A k \in Node : u.parent[k] = IF k = r THEN p ELSE t.parent[k]
  BY DEF Transplanted
<1>6. W[u.root] = V
  BY <1>1, <1>2, <1>4, <1>5
<1>7. u.root # nil => u.root \in W[u.root] /\ u.parent[u.root] = nil
  <2>1. CASE p = nil
    BY <2>1, <1>1, <1>5, <1>6
  <2>2. CASE p # nil
    <3>1. t.root # n /\ t.root # r
      BY <2>2, <1>1, <1>2, NotNil
    <3> QED
      BY <2>2, <3>1, <1>2, <1>5, <1>6
  <2> QED
    BY <2>1, <2>2
<1>8. ASSUME NEW k \in T, NEW q \in Side
      PROVE  /\ t.child[k][q] \in Node
             /\ t.child[k][q] # nil => t.child[k][q] \in T /\ t.parent[t.child[k][q]] = k
             /\ U[k] = {k} \cup U[t.child[k][q]] \cup U[t.child[k][Opposite(q)]]
             /\ k \notin U[t.child[k][q]]
             /\ U[t.child[k][q]] \cap U[t.child[k][Opposite(q)]] = {}
  <2>1. t.child[k][q] \in Node
    BY <1>3, ReadType
  <2>2. t.child[k][q] # nil => t.child[k][q] \in T /\ t.parent[t.child[k][q]] = k
    BY ShapeChild
  <2> QED
    BY <2>1, <2>2, ShapeSplit
<1>9. ASSUME NEW k \in V, NEW q \in Side
      PROVE  /\ u.child[k][q] = (IF t.child[k][q] = n THEN r ELSE t.child[k][q])
             /\ W[u.child[k][q]] = U[t.child[k][q]] \ {n}
             /\ u.child[k][q] \in Node
             /\ u.child[k][q] # nil => u.child[k][q] \in V /\ u.parent[u.child[k][q]] = k
  <2>0. k \in T /\ k \in Node /\ k # n
    BY <1>3
  <2>1. t.child[k][q] = n => k = p /\ q = e /\ p # nil
    <3>1. ASSUME t.child[k][q] = n PROVE k = p /\ p # nil
      <4>1. k = t.parent[n]
        BY <2>0, <3>1, <1>1, <1>8
      <4> QED
        BY <4>1, <2>0, <1>3 DEF RemoveNodes
    <3>2. p # nil => \A i \in Side : t.child[p][i] = n => i = e
      BY <1>1, OtherSide
    <3> QED
      BY <3>1, <3>2
  <2>2. u.child[k][q] = (IF t.child[k][q] = n THEN r ELSE t.child[k][q])
    BY <2>0, <2>1, <1>1, <1>5
  <2>3. u.child[k][q] \in Node /\ t.child[k][q] \in Node
    BY <2>0, <2>2, <1>1, <1>8
  <2>4. W[u.child[k][q]] = U[t.child[k][q]] \ {n}
    <3>1. CASE t.child[k][q] = n
      BY <2>2, <3>1, <1>1, <1>4
    <3>2. CASE t.child[k][q] # n
      BY <2>2, <2>3, <3>2, <1>4
    <3> QED
      BY <3>1, <3>2
  <2>5. ASSUME u.child[k][q] # nil
        PROVE  u.child[k][q] \in V /\ u.parent[u.child[k][q]] = k
    <3>1. CASE t.child[k][q] = n
      BY <2>1, <2>2, <2>5, <3>1, <1>1, <1>5
    <3>2. CASE t.child[k][q] # n
      <4>1. t.child[k][q] \in T /\ t.parent[t.child[k][q]] = k
        BY <2>0, <2>2, <2>5, <3>2, <1>8
      <4>2. t.child[k][q] # r
        BY <2>0, <2>2, <2>5, <3>2, <4>1, <1>1
      <4> QED
        BY <2>2, <2>3, <3>2, <4>1, <4>2, <1>5
    <3> QED
      BY <3>1, <3>2
  <2> QED
    BY <2>2, <2>3, <2>4, <2>5
<1>10. ASSUME NEW k \in V, NEW q \in Side
       PROVE  Kid(u, W, k, q)
  <2>0. k \in T /\ k \in Node /\ k # n /\ Opposite(q) \in Side
    BY <1>3, Sides
  <2>1. /\ U[k] = {k} \cup U[t.child[k][q]] \cup U[t.child[k][Opposite(q)]]
        /\ k \notin U[t.child[k][q]]
        /\ U[t.child[k][q]] \cap U[t.child[k][Opposite(q)]] = {}
    BY <2>0, <1>8
  <2>2. /\ W[u.child[k][q]] = U[t.child[k][q]] \ {n}
        /\ W[u.child[k][Opposite(q)]] = U[t.child[k][Opposite(q)]] \ {n}
        /\ u.child[k][q] # nil => u.child[k][q] \in V /\ u.parent[u.child[k][q]] = k
    BY <2>0, <1>9
  <2>3. W[k] = U[k] \ {n}
    BY <2>0, <1>4
  <2> HIDE DEF V
  <2> QED
    BY <2>0, <2>1, <2>2, <2>3, <1>6 DEF Kid
<1>11. ASSUME NEW k \in V, k # u.root
       PROVE  \E q \in Side : u.child[u.parent[k]][q] = k
  <2>1. CASE k = r
    <3>1. p # nil
      BY <2>1, <1>5, <1>11
    <3> QED
      BY <2>1, <3>1, <1>1, <1>5
  <2>2. CASE k # r
    <3>1. k \in T /\ k # t.root /\ k \in Node
      BY <1>1, <1>3, <1>5, <1>11
    <3>2. t.parent[k] \in T
      BY <3>1, ShapeParent
    <3>3. PICK q \in Side : t.child[t.parent[k]][q] = k
      BY <3>1, ShapeParent
    <3>4. t.parent[k] # n
      <4>1. SUFFICES ASSUME t.parent[k] = n PROVE FALSE
        OBVIOUS
      <4>2. t.child[n][q] = k /\ k # nil
        BY <3>1, <3>3, <4>1, <1>3
      <4>3. q = s \/ q = Opposite(s)
        BY OtherSide DEF RemoveNodes
      <4> QED
        BY <2>2, <4>2, <4>3 DEF RemoveNodes
    <3>5. ~(p # nil /\ t.parent[k] = p /\ q = e)
      BY <3>3, <1>1
    <3>6. u.parent[k] = t.parent[k] /\ u.child[t.parent[k]][q] = k
      BY <2>2, <3>1, <3>2, <3>3, <3>5, <1>3, <1>5
    <3> QED
      BY <3>6
  <2> QED
    BY <2>1, <2>2
<1>12. ASSUME NEW k \in V
       PROVE  Closed(u, W, k)
  <2> SUFFICES ASSUME NEW m \in W[k]
               PROVE  W[m] \subseteq W[k] /\ (m # k => u.parent[m] \in W[k])
    BY DEF Closed
  <2>0. k \in T /\ k \in Node /\ k # n /\ m \in U[k] /\ m # n /\ m \in Node /\ m \in T
    BY <1>3, <1>4
  <2>1. U[m] \subseteq U[k] /\ (m # k => t.parent[m] \in U[k])
    BY <2>0, ShapeClosed
  <2>2. W[m] \subseteq W[k]
    BY <2>0, <2>1, <1>4
  <2>3. ASSUME m # k PROVE u.parent[m] \in W[k]
    <3>1. CASE m = r
      <4>1. n \in U[k]
        BY <2>0, <2>1, <2>3, <3>1, <1>1, <1>3
      <4>2. t.parent[n] \in U[k]
        BY <2>0, <4>1, ShapeClosed
      <4>3. p \in U[k] /\ p # n
        BY <4>2, <1>1 DEF RemoveNodes
      <4> QED
        BY <2>0, <3>1, <4>3, <1>4, <1>5
    <3>2. CASE m # r
      <4>1. t.parent[m] # n
        <5>1. SUFFICES ASSUME t.parent[m] = n PROVE FALSE
          OBVIOUS
        <5>2. m # t.root
          BY <2>0, <5>1, <1>1, <1>2
        <5>3. PICK q \in Side : t.child[n][q] = m
          BY <2>0, <5>1, <5>2, ShapeParent
        <5>4. q = s \/ q = Opposite(s)
          BY OtherSide DEF RemoveNodes
        <5> QED
          BY <2>0, <3>2, <5>3, <5>4, <1>3 DEF RemoveNodes
      <4> QED
        BY <2>0, <2>1, <2>3, <3>2, <4>1, <1>4, <1>5
    <3> QED
      BY <3>1, <3>2
  <2> QED
    BY <2>2, <2>3
<1>13. Shape(u, W)
  <2>1. W[nil] = {}
    BY <1>2, <1>4
  <2> HIDE DEF V
  <2> QED
    BY <2>1, <1>4, <1>6, <1>7, <1>10, <1>11, <1>12 DEF Shape
<1>14. Ordered(u, W, val)
  <2>1. \A k \in V : val[k] \in Keys
    BY DEF Ordered
  <2>2. ASSUME NEW k \in V, NEW q \in Side, NEW m \in W[u.child[k][q]]
        PROVE  Beyond(q, val[m], val[k])
    <3>1. m \in U[t.child[k][q]]
      BY <1>9, <2>2
    <3> QED
      BY <3>1 DEF Ordered
  <2> HIDE DEF V
  <2> QED
    BY <2>1, <2>2, <1>6 DEF Ordered
<1>15. QED
  BY <1>6, <1>13, <1>14

-----------------------------------------------------------------------------
(* Putting a node outside of the tree in the place of one inside *)

\* u is t with z, which is not in the tree, in the place of n.
Relabelled(u, t, T, n, z) ==
    /\ u \in Tree /\ u.root = (IF t.root = n THEN z ELSE t.root) /\ u.failed = t.failed
    /\ \A r \in Side : u.child[z][r] = t.child[n][r]
    /\ \A k \in T \ {n} : \A r \in Side :
           u.child[k][r] = IF t.child[k][r] = n THEN z ELSE t.child[k][r]
    /\ u.parent[z] = t.parent[n]
    /\ \A k \in T \ {n} : u.parent[k] = IF t.parent[k] = n THEN z ELSE t.parent[k]
    /\ u.color[z] = t.color[n] /\ u.color[nil] = t.color[nil]
    /\ \A k \in T \ {n} : u.color[k] = t.color[k]

\* The subtrees with z in the place of n.
RelabelledUnder(W, U, n, z) ==
    W = [k \in Node |-> IF k = z THEN (U[n] \ {n}) \cup {z}
                        ELSE IF n \in U[k] THEN (U[k] \ {n}) \cup {z} ELSE U[k]]

\* The key of z belongs in the place of n.
Belongs(t, U, n, z, val) ==
    /\ val[z] \in Keys
    /\ \A r \in Side : \A m \in U[t.child[n][r]] : Beyond(r, val[m], val[z])
    /\ \A k \in U[t.root] \ {n} : \A r \in Side :
           n \in U[t.child[k][r]] => Beyond(r, val[z], val[k])

\* That keeps shape and order, if the key of z belongs there.
LEMMA RelabelShape ==
    ASSUME NEW t \in Tree, NEW U, Shape(t, U), NEW n \in U[t.root], NEW z \in Nodes \ U[t.root],
           NEW u, Relabelled(u, t, U[t.root], n, z),
           NEW W, RelabelledUnder(W, U, n, z),
           NEW val, Ordered(t, U, val), Belongs(t, U, n, z, val)
    PROVE  Shape(u, W) /\ W[u.root] = (U[t.root] \ {n}) \cup {z} /\ Ordered(u, W, val)
<1> DEFINE T == U[t.root]
           V == (T \ {n}) \cup {z}
<1>a. val[z] \in Keys
  BY DEF Belongs
<1>b. \A r \in Side : \A m \in U[t.child[n][r]] : Beyond(r, val[m], val[z])
  BY DEF Belongs
<1>c. \A k \in T \ {n} : \A r \in Side : n \in U[t.child[k][r]] => Beyond(r, val[z], val[k])
  BY DEF Belongs
<1>1. /\ U \in [Node -> SUBSET Nodes] /\ U[nil] = {} /\ t.root \in Node /\ nil \in Node
  BY DEF Shape, Tree, Node
<1>2. z \in Node /\ z # nil /\ z \in Nodes
  BY NotNil DEF Node
<1>3. \A k \in T : k \in Nodes /\ k \in Node /\ k # nil /\ k \in U[k] /\ U[k] \subseteq T /\ k # z /\ z \notin U[k]
  BY ShapeNode
<1>4. /\ W \in [Node -> SUBSET Nodes] /\ W[z] = (U[n] \ {n}) \cup {z} /\ W[nil] = {}
      /\ \A k \in Node : k # z => W[k] = IF n \in U[k] THEN (U[k] \ {n}) \cup {z} ELSE U[k]
  <2>1. U[n] \in SUBSET Nodes
    BY <1>1, <1>3
  <2> QED
    BY <2>1, <1>1, <1>2 DEF RelabelledUnder
<1>5. /\ u \in Tree /\ u.root = (IF t.root = n THEN z ELSE t.root)
      /\ \A r \in Side : u.child[z][r] = t.child[n][r]
      /\ \A k \in T \ {n} : \A r \in Side :
             u.child[k][r] = IF t.child[k][r] = n THEN z ELSE t.child[k][r]
      /\ u.parent[z] = t.parent[n]
      /\ \A k \in T \ {n} : u.parent[k] = IF t.parent[k] = n THEN z ELSE t.parent[k]
  BY DEF Relabelled
<1>6. t.root \in T /\ t.parent[t.root] = nil
  BY ShapeNode DEF Shape
<1>7. W[u.root] = V
  BY <1>1, <1>3, <1>4, <1>5, <1>6
<1>8. u.root # nil => u.root \in W[u.root] /\ u.parent[u.root] = nil
  BY <1>3, <1>5, <1>6, <1>7
<1>9. ASSUME NEW k \in T, NEW q \in Side
      PROVE  /\ t.child[k][q] \in Node
             /\ t.child[k][q] # nil => t.child[k][q] \in T /\ t.parent[t.child[k][q]] = k
             /\ U[k] = {k} \cup U[t.child[k][q]] \cup U[t.child[k][Opposite(q)]]
             /\ k \notin U[t.child[k][q]]
             /\ U[t.child[k][q]] \cap U[t.child[k][Opposite(q)]] = {}
             /\ z \notin U[t.child[k][q]] /\ t.child[k][q] # z
  <2>1. t.child[k][q] \in Node
    BY <1>3, ReadType
  <2>2. t.child[k][q] # nil => t.child[k][q] \in T /\ t.parent[t.child[k][q]] = k
    BY ShapeChild
  <2>3. /\ U[k] = {k} \cup U[t.child[k][q]] \cup U[t.child[k][Opposite(q)]]
        /\ k \notin U[t.child[k][q]]
        /\ U[t.child[k][q]] \cap U[t.child[k][Opposite(q)]] = {}
    BY ShapeSplit
  <2> QED
    BY <2>1, <2>2, <2>3, <1>2, <1>3
\* What takes the place of a subtree.
<1> DEFINE Swap(S) == IF n \in S THEN (S \ {n}) \cup {z} ELSE S
<1>10. ASSUME NEW k \in T \ {n}, NEW q \in Side
       PROVE  W[u.child[k][q]] = Swap(U[t.child[k][q]])
  <2>1. CASE t.child[k][q] = n
    BY <2>1, <1>3, <1>4, <1>5
  <2>2. CASE t.child[k][q] # n
    <3>1. u.child[k][q] = t.child[k][q] /\ t.child[k][q] # z /\ t.child[k][q] \in Node
      BY <2>2, <1>5, <1>9
    <3> QED
      BY <3>1, <1>4
  <2> QED
    BY <2>1, <2>2
<1>11. ASSUME NEW q \in Side
       PROVE  W[u.child[z][q]] = U[t.child[n][q]]
  <2>1. u.child[z][q] = t.child[n][q] /\ n \notin U[t.child[n][q]] /\ t.child[n][q] \in Node /\ t.child[n][q] # z
    BY <1>5, <1>9
  <2> QED
    BY <2>1, <1>4
<1>12. ASSUME NEW k \in V, NEW q \in Side
       PROVE  Kid(u, W, k, q)
  <2>0. Opposite(q) \in Side
    BY Sides
  <2>1. CASE k = z
    <3> DEFINE f == t.child[n][q]
               g == t.child[n][Opposite(q)]
    <3>1. /\ f # nil => f \in T /\ t.parent[f] = n
          /\ U[n] = {n} \cup U[f] \cup U[g] /\ n \notin U[f] /\ n \notin U[g] /\ U[f] \cap U[g] = {}
          /\ z \notin U[f] /\ z \notin U[g]
      BY <2>0, <1>9
    <3>2. W[u.child[z][q]] = U[f] /\ W[u.child[z][Opposite(q)]] = U[g] /\ u.child[z][q] = f
      BY <2>0, <1>5, <1>11
    <3>3. f # nil => f # n /\ f \in V /\ u.parent[f] = z
      BY <3>1, <1>3, <1>5
    <3>4. W[z] = {z} \cup U[f] \cup U[g]
      BY <3>1, <1>4
    <3> HIDE DEF V
    <3> QED
      BY <2>1, <3>1, <3>2, <3>3, <3>4, <1>7 DEF Kid
  <2>2. CASE k # z
    <3> DEFINE f == t.child[k][q]
               g == t.child[k][Opposite(q)]
    <3>0. k \in T /\ k # n /\ k \in Node
      BY <2>2, <1>3
    <3>1. /\ f # nil => f \in T /\ t.parent[f] = k
          /\ U[k] = {k} \cup U[f] \cup U[g] /\ k \notin U[f] /\ k \notin U[g] /\ U[f] \cap U[g] = {}
          /\ z \notin U[f] /\ z \notin U[g]
      BY <2>0, <3>0, <1>9
    <3>2. W[u.child[k][q]] = Swap(U[f]) /\ W[u.child[k][Opposite(q)]] = Swap(U[g])
      BY <2>0, <3>0, <1>10
    <3>3. W[k] = Swap(U[k])
      BY <2>2, <3>0, <1>4
    <3>4. u.child[k][q] # nil => u.child[k][q] \in V /\ u.parent[u.child[k][q]] = k
      <4>1. CASE f = n
        BY <3>0, <3>1, <4>1, <1>3, <1>5
      <4>2. CASE f # n
        BY <3>0, <3>1, <4>2, <1>3, <1>5
      <4> QED
        BY <4>1, <4>2
    <3>5. /\ Swap(U[k]) = {k} \cup Swap(U[f]) \cup Swap(U[g])
          /\ k \notin Swap(U[f]) /\ Swap(U[f]) \cap Swap(U[g]) = {}
      BY <2>2, <3>0, <3>1
    <3> HIDE DEF V, Swap
    <3> QED
      BY <3>2, <3>3, <3>4, <3>5, <1>7 DEF Kid
  <2> QED
    BY <2>1, <2>2
<1>13. ASSUME NEW k \in V, k # u.root
       PROVE  \E q \in Side : u.child[u.parent[k]][q] = k
  <2>1. CASE k = z
    <3>1. n # t.root
      BY <2>1, <1>5, <1>13
    <3>2. t.parent[n] \in T /\ t.parent[n] # n /\ \E q \in Side : t.child[t.parent[n]][q] = n
      BY <3>1, ShapeParent
    <3> QED
      BY <2>1, <3>2, <1>5
  <2>2. CASE k # z
    <3>1. k \in T /\ k # n /\ k # t.root
      BY <2>2, <1>5, <1>13
    <3>2. t.parent[k] \in T
      BY <3>1, ShapeParent
    <3>3. PICK q \in Side : t.child[t.parent[k]][q] = k
      BY <3>1, ShapeParent
    <3>4. CASE t.parent[k] = n
      BY <3>1, <3>3, <3>4, <1>5
    <3>5. CASE t.parent[k] # n
      BY <3>1, <3>2, <3>3, <3>5, <1>5
    <3> QED
      BY <3>4, <3>5
  <2> QED
    BY <2>1, <2>2
<1>14. ASSUME NEW k \in V
       PROVE  Closed(u, W, k)
  <2> SUFFICES ASSUME NEW m \in W[k]
               PROVE  W[m] \subseteq W[k] /\ (m # k => u.parent[m] \in W[k])
    BY DEF Closed
  <2>1. CASE m = k
    BY <2>1
  <2>2. CASE m # k /\ k = z
    <3>1. m \in U[n] /\ m # n /\ m \in T /\ m # z /\ m \in Node
      BY <2>2, <1>3, <1>4
    <3>2. U[m] \subseteq U[n] /\ t.parent[m] \in U[n] /\ n \notin U[m]
      <4>1. U[m] \subseteq U[n] /\ t.parent[m] \in U[n]
        BY <3>1, ShapeClosed
      <4>2. n \notin U[m]
        <5>1. \A q \in Side : n \notin U[t.child[n][q]] /\ U[n] = {n} \cup U[t.child[n][q]] \cup U[t.child[n][Opposite(q)]]
          BY <1>9
        <5>2. PICK q \in Side : m \in U[t.child[n][q]]
          BY <3>1, <5>1, Sides
        <5>3. t.child[n][q] \in T
          BY <5>2, <1>1, <1>9
        <5>4. U[m] \subseteq U[t.child[n][q]]
          BY <5>2, <5>3, ShapeClosed
        <5> QED
          BY <5>1, <5>4
      <4> QED
        BY <4>1, <4>2
    <3>3. W[m] = U[m]
      BY <3>1, <3>2, <1>4
    <3> QED
      BY <2>2, <3>1, <3>2, <3>3, <1>4, <1>5
  <2>3. CASE m = z /\ k # z
    <3>1. k \in T /\ k # n /\ n \in U[k] /\ W[k] = (U[k] \ {n}) \cup {z}
      BY <2>3, <1>3, <1>4
    <3>2. U[n] \subseteq U[k] /\ t.parent[n] \in U[k]
      BY <3>1, ShapeClosed
    <3>3. t.parent[n] # n
      <4>1. n # t.root
        BY <3>1, <3>2, <1>3, <1>6
      <4> QED
        BY <4>1, ShapeParent
    <3> QED
      BY <2>3, <3>1, <3>2, <3>3, <1>4, <1>5
  <2>4. CASE m # k /\ k # z /\ m # z
    <3>1. k \in T /\ k # n /\ m \in U[k] /\ m # n /\ m \in T /\ m \in Node /\ k \in Node
      BY <2>4, <1>3, <1>4
    <3>2. U[m] \subseteq U[k] /\ t.parent[m] \in U[k]
      BY <2>4, <3>1, ShapeClosed
    <3>3. W[m] \subseteq W[k]
      BY <2>4, <3>1, <3>2, <1>4
    <3>4. u.parent[m] \in W[k]
      <4>1. W[k] = Swap(U[k])
        BY <2>4, <3>1, <1>4
      <4>2. u.parent[m] = IF t.parent[m] = n THEN z ELSE t.parent[m]
        BY <3>1, <1>5
      <4> QED
        BY <3>2, <4>1, <4>2
    <3> QED
      BY <3>3, <3>4
  <2> QED
    BY <2>1, <2>2, <2>3, <2>4
<1>15. Shape(u, W)
  <2> HIDE DEF V
  <2> QED
    BY <1>4, <1>7, <1>8, <1>12, <1>13, <1>14 DEF Shape
<1>16. ASSUME NEW k \in V, NEW q \in Side, NEW m \in W[u.child[k][q]]
       PROVE  Beyond(q, val[m], val[k])
  <2>1. CASE k = z
    BY <2>1, <1>11, <1>16, <1>b
  <2>2. CASE k # z
    <3>1. k \in T \ {n} /\ m \in Swap(U[t.child[k][q]])
      BY <2>2, <1>10, <1>16
    <3>2. CASE m = z
      <4>1. n \in U[t.child[k][q]]
        BY <3>1, <3>2, <1>9
      <4> QED
        BY <3>1, <3>2, <4>1, <1>c
    <3>3. CASE m # z
      <4>1. m \in U[t.child[k][q]]
        BY <3>1, <3>3
      <4> QED
        BY <3>1, <4>1 DEF Ordered
    <3> QED
      BY <3>2, <3>3
  <2> QED
    BY <2>1, <2>2
<1>17. Ordered(u, W, val)
  <2>1. \A k \in V : val[k] \in Keys
    BY <1>a DEF Ordered
  <2> HIDE DEF V
  <2> QED
    BY <2>1, <1>7, <1>16 DEF Ordered
<1>18. QED
  BY <1>7, <1>15, <1>17

-----------------------------------------------------------------------------
(* Colours and heights: inserting *)

\* Colours and heights are numbers.
LEMMA HeightTypes ==
    ASSUME NEW t \in Tree, NEW T, NEW H, NEW hole, NEW gap, Heights(t, T, H, hole, gap),
           NEW n \in Node
    PROVE  /\ H[n] \in Nat /\ H[n] >= 1 /\ t.color[n] \in {0, 1} /\ H[nil] = 1
           /\ BST_RED = 0 /\ BST_BLACK = 1
  BY ReadType, Sides DEF Heights, BST_RED, BST_BLACK

\* The new leaf is the only red node that may have a red parent.
LEMMA InsertColors ==
    ASSUME NEW t \in Tree, NEW U, Shape(t, U), NEW s \in Side, NEW n \in Nodes \ U[t.root],
           NEW p \in U[t.root] \cup {nil}, p # nil => t.child[p][s] = nil,
           NEW u, Inserted(u, t, n, p, s), t.color[nil] = BST_BLACK,
           NEW H, Heights(t, U[t.root], H, nil, "left"), RedApart(t, U[t.root], nil, nil)
    PROVE  /\ Heights(u, U[t.root] \cup {n}, [H EXCEPT ![n] = 1], nil, "left")
           /\ RedApart(u, U[t.root] \cup {n}, nil, n)
<1> DEFINE T == U[t.root]
           H2 == [H EXCEPT ![n] = 1]
<1>1. n \in Node /\ n # nil /\ nil \in Node
  BY NotNil DEF Node
<1>2. \A k \in T : k \in Node /\ k # nil /\ k # n
  BY ShapeNode
<1>3. \A k \in T : \A r \in Side : t.child[k][r] \in Node /\ t.child[k][r] # n
  BY <1>1, <1>2, ReadType, ShapeChild
<1>4. /\ \A k \in Node : \A r \in Side :
             u.child[k][r] = IF k = n THEN nil ELSE IF p # nil /\ k = p /\ r = s THEN n
                             ELSE t.child[k][r]
      /\ \A k \in Node : u.color[k] = IF k = n THEN BST_RED ELSE t.color[k]
  BY DEF Inserted
<1>5. H \in [Node -> Nat \ {0}] /\ H[nil] = 1
      /\ \A k \in T : \A r \in Side : H[k] = t.color[k] + H[t.child[k][r]]
  <2>1. ASSUME NEW k \in T, NEW r \in Side PROVE H[k] = t.color[k] + H[t.child[k][r]]
    <3>1. H[k] = t.color[k] + H[t.child[k][r]] + 0
      BY <1>2 DEF Heights
    <3>2. t.color[k] \in {0, 1} /\ H[t.child[k][r]] \in Nat
      BY <1>2, <1>3, HeightTypes
    <3> QED
      BY <3>1, <3>2
  <2> QED
    BY <2>1 DEF Heights
<1>6. H2 \in [Node -> Nat \ {0}] /\ H2[nil] = 1 /\ H2[n] = 1 /\ \A k \in Node : k # n => H2[k] = H[k]
  BY <1>1, <1>5
<1> HIDE DEF H2
<1>7. ASSUME NEW k \in T \cup {n}, NEW r \in Side
      PROVE  H2[k] = u.color[k] + H2[u.child[k][r]] + 0
  <2>1. CASE k = n
    BY <2>1, <1>1, <1>4, <1>6 DEF BST_RED
  <2>2. CASE k # n
    <3>1. k \in T /\ k \in Node /\ H[k] = t.color[k] + H[t.child[k][r]] /\ t.color[k] \in {0, 1}
      BY <2>2, <1>2, <1>5, HeightTypes
    <3>2. H[t.child[k][r]] \in Nat
      BY <3>1, <1>3, <1>5
    <3>3. H2[u.child[k][r]] = H[t.child[k][r]]
      BY <2>2, <3>1, <1>1, <1>3, <1>4, <1>5, <1>6
    <3> QED
      BY <2>2, <3>1, <3>2, <3>3, <1>4, <1>6
  <2> QED
    BY <2>1, <2>2
<1>8. Heights(u, T \cup {n}, H2, nil, "left")
  <2>1. \A k \in T \cup {n} : k # nil
    BY <1>1, <1>2
  <2> QED
    BY <2>1, <1>6, <1>7 DEF Heights
<1>9. ASSUME NEW k \in T \cup {n}, NEW r \in Side, u.color[k] = BST_RED, u.child[k][r] # n
      PROVE  u.color[u.child[k][r]] = BST_BLACK
  <2>1. CASE k = n
    BY <2>1, <1>1, <1>4
  <2>2. CASE k # n
    <3>1. k \in T /\ k \in Node /\ u.child[k][r] = t.child[k][r] /\ t.color[k] = BST_RED
      BY <2>2, <1>2, <1>4, <1>9
    <3>2. t.child[k][r] # nil => t.color[t.child[k][r]] = BST_BLACK
      BY <3>1, <1>2 DEF RedApart
    <3> QED
      BY <3>1, <3>2, <1>3, <1>4
  <2> QED
    BY <2>1, <2>2
<1>10. RedApart(u, T \cup {n}, nil, n)
  BY <1>9 DEF RedApart
<1>11. QED
  BY <1>8, <1>10 DEF H2

\* Heights without a gap, read at a node.
LEMMA HeightsRead ==
    ASSUME NEW t \in Tree, NEW U, Shape(t, U), NEW H, Heights(t, U[t.root], H, nil, "left"),
           NEW k \in U[t.root], NEW r \in Side
    PROVE  /\ H[k] = t.color[k] + H[t.child[k][r]]
           /\ H[k] \in Nat /\ H[t.child[k][r]] \in Nat /\ H[t.child[k][r]] >= 1
           /\ t.color[k] \in {0, 1} /\ t.child[k][r] \in Node /\ k \in Node /\ k # nil
<1>1. k \in Node /\ k # nil /\ t.child[k][r] \in Node
  BY ShapeNode, ReadType
<1>2. H[k] = t.color[k] + H[t.child[k][r]] + 0
  BY <1>1 DEF Heights
<1>3. /\ t.color[k] \in {0, 1} /\ H[t.child[k][r]] \in Nat /\ H[k] \in Nat
      /\ H[t.child[k][r]] >= 1
  BY <1>1, HeightTypes
<1>4. QED
  BY <1>1, <1>2, <1>3

\* Heights without a gap, from every node.
LEMMA HeightsFrom ==
    ASSUME NEW t \in Tree, NEW T, T \subseteq Nodes, NEW H \in [Node -> Nat \ {0}], H[nil] = 1,
           \A k \in T : \A r \in Side : H[k] = t.color[k] + H[t.child[k][r]]
    PROVE  Heights(t, T, H, nil, "left")
<1>1. ASSUME NEW k \in T, NEW r \in Side
      PROVE  H[k] = t.color[k] + H[t.child[k][r]] + (IF k = nil /\ r = "left" THEN 1 ELSE 0)
  <2>1. k # nil /\ k \in Node
    BY NotNil DEF Node
  <2>2. t.color[k] \in {0, 1} /\ t.child[k][r] \in Node
    BY <2>1, ReadType DEF BST_RED, BST_BLACK
  <2>3. H[t.child[k][r]] \in Nat
    BY <2>2
  <2>4. H[k] = t.color[k] + H[t.child[k][r]]
    OBVIOUS
  <2> QED
    BY <2>1, <2>2, <2>3, <2>4
<1>2. QED
  BY <1>1 DEF Heights

\* A red node z with a red parent, in the loop of bst_fixup_insert.
RedChild(t, U, H, z) ==
    /\ Heights(t, U[t.root], H, nil, "left") /\ RedApart(t, U[t.root], nil, z)
    /\ z \in U[t.root] /\ t.color[z] = BST_RED
    /\ z = t.root \/ t.color[t.root] = BST_BLACK
    /\ t.color[nil] = BST_BLACK /\ t.color[t.parent[z]] = BST_RED

\* Its parent, its grandparent and its uncle.
Family(t, z, p, g, s, w) ==
    /\ p = t.parent[z] /\ g = t.parent[p]
    /\ s = IF p = t.child[g]["left"] THEN "left" ELSE "right"
    /\ w = t.child[g][Opposite(s)]

\* The grandparent is there, and it is black.
LEMMA FamilyNodes ==
    ASSUME NEW t \in Tree, NEW U, Shape(t, U), NEW H, NEW z, RedChild(t, U, H, z),
           NEW p, NEW g, NEW s, NEW w, Family(t, z, p, g, s, w)
    PROVE  /\ z \in U[t.root] /\ p \in U[t.root] /\ g \in U[t.root] /\ s \in Side /\ w \in Node
           /\ z \in Node /\ p \in Node /\ g \in Node /\ z # nil /\ p # nil /\ g # nil
           /\ z # p /\ z # g /\ p # g /\ w # z /\ w # p /\ w # g
           /\ z # t.root /\ p # t.root
           /\ t.child[g][s] = p /\ t.child[g][Opposite(s)] = w /\ t.parent[p] = g /\ t.parent[z] = p
           /\ \E e \in Side : t.child[p][e] = z
           /\ t.color[z] = BST_RED /\ t.color[p] = BST_RED /\ t.color[g] = BST_BLACK
           /\ z \in U[p] /\ p \in U[g] /\ U[p] \subseteq U[g] /\ z \in U[g]
<1>0. /\ z \in U[t.root] /\ t.color[z] = BST_RED /\ t.color[p] = BST_RED
      /\ t.color[nil] = BST_BLACK /\ BST_RED # BST_BLACK
  BY DEF RedChild, Family, BST_RED, BST_BLACK
<1>z. z \in U[t.root] /\ p = t.parent[z]
  BY DEF RedChild, Family
<1>g. g = t.parent[p]
  BY DEF Family
<1>s. s = IF p = t.child[g]["left"] THEN "left" ELSE "right"
  BY DEF Family
<1>w. w = t.child[g][Opposite(s)]
  BY DEF Family
<1>1. p # nil
  BY <1>0
<1>2. z # t.root
  <2>1. SUFFICES ASSUME z = t.root PROVE FALSE
    OBVIOUS
  <2>2. t.root # nil
    BY <1>z, ShapeNode
  <2> QED
    BY <2>1, <2>2, <1>1, <1>z DEF Shape
<1>3. p \in U[t.root] /\ p # z /\ U[z] \subseteq U[p] /\ \E e \in Side : t.child[p][e] = z
  BY <1>z, <1>2, ShapeParent
<1>4. p # t.root
  BY <1>0, <1>2 DEF RedChild
<1>5. g \in U[t.root] /\ g # p /\ g # nil /\ g \notin U[p] /\ U[p] \subseteq U[g]
  BY <1>g, <1>3, <1>4, ShapeParent
<1>6. PICK e \in Side : /\ e = IF t.child[g]["left"] = p THEN "left" ELSE "right"
                        /\ t.child[g][e] = p /\ t.child[g][Opposite(e)] # p
  BY <1>g, <1>3, <1>4, ShapeParent
<1>7. s = e
  BY <1>s, <1>6
<1>8. z \in U[p] /\ z \in Node /\ z # nil
  BY <1>z, <1>3, ShapeNode
<1>9. p \in Node /\ g \in Node /\ p \in U[p]
  BY <1>3, <1>5, ShapeNode
<1>10. w \in Node
  BY <1>w, <1>6, <1>7, <1>9, Sides, ReadType
<1>11. w # nil => t.parent[w] = g /\ w # g
  BY <1>w, <1>5, <1>6, <1>7, Sides, ShapeChild
<1>12. t.color[g] = BST_BLACK
  <2>1. t.color[g] # BST_RED
    BY <1>0, <1>3, <1>5, <1>6 DEF RedChild, RedApart
  <2> QED
    BY <2>1, <1>9, ReadType, Sides
<1>13. z # g /\ w # z /\ w # p /\ w # g
  BY <1>z, <1>w, <1>5, <1>6, <1>7, <1>8, <1>11
<1>14. QED
  BY <1>0, <1>z, <1>g, <1>w, <1>1, <1>2, <1>3, <1>4, <1>5, <1>6, <1>7, <1>8, <1>9, <1>10, <1>12, <1>13

\* u is t with the colours of p, w and g exchanged.
Recolored(u, t, p, w, g) ==
    /\ u \in Tree /\ u.root = t.root /\ u.child = t.child /\ u.parent = t.parent
    /\ u.failed = t.failed
    /\ \A k \in Node : u.color[k] = IF k = g THEN BST_RED
                                    ELSE IF k = w \/ k = p THEN BST_BLACK ELSE t.color[k]

\* With a red uncle, the red node with a red parent moves up to the grandparent.
LEMMA RecolorColors ==
    ASSUME NEW t \in Tree, NEW U, Shape(t, U), NEW H, NEW z, RedChild(t, U, H, z),
           NEW p, NEW g, NEW s, NEW w, Family(t, z, p, g, s, w), t.color[w] = BST_RED,
           NEW u, Recolored(u, t, p, w, g)
    PROVE  \E H2 : /\ Heights(u, U[t.root], H2, nil, "left") /\ RedApart(u, U[t.root], nil, g)
                   /\ u.color[g] = BST_RED /\ u.color[nil] = BST_BLACK
                   /\ g = u.root \/ u.color[u.root] = BST_BLACK
<1> DEFINE T == U[t.root]
           H2 == [H EXCEPT ![p] = H[p] + 1, ![w] = H[w] + 1]
<1>0. /\ Heights(t, T, H, nil, "left") /\ RedApart(t, T, nil, z) /\ t.color[nil] = BST_BLACK
      /\ z = t.root \/ t.color[t.root] = BST_BLACK
      /\ BST_RED = 0 /\ BST_BLACK = 1
  BY DEF RedChild, BST_RED, BST_BLACK
<1>1. /\ p \in T /\ g \in T /\ s \in Side /\ w \in Node /\ p \in Node /\ g \in Node
      /\ z # nil /\ p # nil /\ g # nil /\ z # p /\ z # g /\ p # g /\ w # z /\ w # p /\ w # g
      /\ z # t.root /\ t.child[g][s] = p /\ t.child[g][Opposite(s)] = w
      /\ t.parent[p] = g /\ t.parent[z] = p
      /\ t.color[p] = BST_RED /\ t.color[g] = BST_BLACK
  BY FamilyNodes
<1>2. w # nil /\ w \in T /\ t.parent[w] = g
  BY <1>0, <1>1, Sides, ShapeChild
<1>3. /\ u \in Tree /\ u.root = t.root /\ u.child = t.child
      /\ \A k \in Node : u.color[k] = IF k = g THEN BST_RED
                                      ELSE IF k = w \/ k = p THEN BST_BLACK ELSE t.color[k]
  BY DEF Recolored
<1>4. H \in [Node -> Nat \ {0}] /\ H[nil] = 1
  BY <1>0 DEF Heights
<1>5. /\ H2 \in [Node -> Nat \ {0}] /\ H2[nil] = 1 /\ H2[p] = H[p] + 1 /\ H2[w] = H[w] + 1
      /\ \A k \in Node : k # p /\ k # w => H2[k] = H[k]
  BY <1>1, <1>2, <1>4 DEF Node
<1> HIDE DEF H2
<1>6. \A k \in T : k \in Nodes
  BY ShapeNode
<1>7. ASSUME NEW k \in T, NEW r \in Side, NEW c, c = t.child[k][r]
      PROVE  (c = p \/ c = w) <=> k = g
  <2>1. c # nil => t.parent[c] = k
    BY <1>7, ShapeChild
  <2>2. k = g => c = p \/ c = w
    BY <1>1, <1>7, OtherSide
  <2> QED
    BY <2>1, <2>2, <1>1, <1>2
<1>8. ASSUME NEW k \in T, NEW r \in Side
      PROVE  H2[k] = u.color[k] + H2[u.child[k][r]]
  <2> DEFINE c == t.child[k][r]
  <2>1. /\ H[k] = t.color[k] + H[c] /\ H[k] \in Nat /\ H[c] \in Nat /\ c \in Node /\ k \in Node
        /\ t.color[k] \in {0, 1}
    BY <1>0, HeightsRead
  <2>2. u.child[k][r] = c
    BY <1>3
  <2>3. (c = p \/ c = w) <=> k = g
    BY <1>7
  <2> HIDE DEF c
  <2>4. CASE k = g
    <3>1. H2[c] = H[c] + 1
      BY <2>3, <2>4, <1>1, <1>5
    <3> QED
      BY <2>1, <2>2, <2>4, <3>1, <1>0, <1>1, <1>3, <1>5
  <2>5. CASE k # g /\ (k = p \/ k = w)
    <3>1. H2[c] = H[c] /\ t.color[k] = 0 /\ u.color[k] = 1 /\ H2[k] = H[k] + 1
      BY <2>1, <2>3, <2>5, <1>0, <1>1, <1>3, <1>5
    <3> QED
      BY <2>1, <2>2, <3>1
  <2>6. CASE k # g /\ k # p /\ k # w
    <3>1. H2[c] = H[c] /\ u.color[k] = t.color[k] /\ H2[k] = H[k]
      BY <2>1, <2>3, <2>6, <1>3, <1>5
    <3> QED
      BY <2>1, <2>2, <3>1
  <2> QED
    BY <2>4, <2>5, <2>6
<1>9. Heights(u, T, H2, nil, "left")
  <2>1. T \subseteq Nodes
    BY <1>6
  <2> HIDE DEF T
  <2> QED
    BY <2>1, <1>3, <1>5, <1>8, HeightsFrom
<1>10. ASSUME NEW k \in T, NEW r \in Side, u.color[k] = BST_RED, u.child[k][r] # g
       PROVE  u.color[u.child[k][r]] = BST_BLACK
  <2> DEFINE c == t.child[k][r]
  <2>1. u.child[k][r] = c /\ c \in Node /\ k \in Node /\ c # g
    BY <1>0, <1>3, <1>10, HeightsRead
  <2>2. CASE k = g
    <3>1. c = p \/ c = w
      BY <2>2, <1>7
    <3> QED
      BY <2>1, <3>1, <1>1, <1>3
  <2>3. CASE k # g
    <3>1. k # p /\ k # w /\ t.color[k] = BST_RED
      BY <2>1, <2>3, <1>0, <1>3, <1>10
    <3>2. c # z
      <4>1. c # nil => t.parent[c] = k
        BY ShapeChild
      <4> QED
        BY <4>1, <3>1, <1>1
    <3>3. k # nil
      BY ShapeNode
    <3>4. t.color[c] = BST_BLACK
      BY <3>1, <3>2, <3>3, <1>0 DEF RedApart
    <3> QED
      BY <2>1, <3>4, <1>3
  <2> QED
    BY <2>2, <2>3
<1>11. RedApart(u, T, nil, g)
  BY <1>10 DEF RedApart
<1>12. u.color[g] = BST_RED /\ u.color[nil] = BST_BLACK /\ (g = u.root \/ u.color[u.root] = BST_BLACK)
  <2>1. nil \in Node /\ t.root \in Node
    BY DEF Node, Tree
  <2> QED
    BY <2>1, <1>0, <1>1, <1>2, <1>3
<1>13. QED
  BY <1>9, <1>11, <1>12

\* Shape and order depend on the links only.
LEMMA SameLinks ==
    ASSUME NEW t \in Tree, NEW u, u.root = t.root, u.child = t.child, u.parent = t.parent,
           NEW U, Shape(t, U)
    PROVE  /\ Shape(u, U) /\ u.root = t.root
           /\ \A val : Ordered(t, U, val) => Ordered(u, U, val)
<1>1. \A n : \A s : Kid(t, U, n, s) => Kid(u, U, n, s)
  BY DEF Kid
<1>2. \A n : Closed(t, U, n) => Closed(u, U, n)
  BY DEF Closed
<1>3. Shape(u, U)
  BY <1>1, <1>2 DEF Shape
<1>4. QED
  BY <1>3 DEF Ordered

\* The rotation that brings an inner grandchild to the outside.
LEMMA InnerColors ==
    ASSUME NEW t \in Tree, NEW U, Shape(t, U), NEW H, NEW z, RedChild(t, U, H, z),
           NEW p, NEW g, NEW s, NEW w, Family(t, z, p, g, s, w), z = t.child[p][Opposite(s)],
           NEW b, b = t.child[z][s], NEW u, Rotated(u, t, s, p, z, b, g),
           NEW W, W[u.root] = U[t.root]
    PROVE  RedChild(u, W, H, p) /\ Family(u, p, z, g, s, w) /\ p = u.child[z][s]
<1> DEFINE T == U[t.root]
<1>0. /\ Heights(t, T, H, nil, "left") /\ RedApart(t, T, nil, z) /\ t.color[nil] = BST_BLACK
      /\ z = t.root \/ t.color[t.root] = BST_BLACK
      /\ BST_RED = 0 /\ BST_BLACK = 1
  BY DEF RedChild, BST_RED, BST_BLACK
<1>1. /\ z \in T /\ p \in T /\ g \in T /\ s \in Side /\ z \in Node /\ p \in Node /\ g \in Node
      /\ z # nil /\ p # nil /\ g # nil /\ z # p /\ z # g /\ p # g /\ w # z /\ w # p
      /\ z # t.root /\ p # t.root /\ t.child[g][s] = p /\ t.child[g][Opposite(s)] = w
      /\ t.parent[p] = g /\ t.parent[z] = p
      /\ t.color[z] = BST_RED /\ t.color[p] = BST_RED /\ t.color[g] = BST_BLACK
  BY FamilyNodes
<1>2. /\ u \in Tree /\ u.color = t.color /\ u.root = t.root
      /\ \A k \in Node : \A r \in Side :
             u.child[k][r] = IF k = p /\ r = Opposite(s) THEN b
                             ELSE IF k = z /\ r = s THEN p
                             ELSE IF k = g /\ t.child[k][r] = p THEN z
                             ELSE t.child[k][r]
      /\ u.parent[p] = z /\ u.parent[z] = g
  BY <1>1 DEF Rotated
<1>3. H \in [Node -> Nat \ {0}] /\ H[nil] = 1 /\ T \subseteq Nodes
  BY <1>0, ShapeNode DEF Heights
<1>4. Opposite(s) \in Side /\ Opposite(s) # s
  BY <1>1, OtherSide
<1>5. b \in Node /\ (b # nil => t.parent[b] = z /\ b # z)
  BY <1>1, ReadType, ShapeChild
<1>6. ASSUME NEW k \in T, NEW r \in Side
      PROVE  H[k] = u.color[k] + H[u.child[k][r]]
  <2> DEFINE c == t.child[k][r]
  <2>1. H[k] = t.color[k] + H[c] /\ c \in Node /\ k \in Node
    BY <1>0, HeightsRead
  <2>2. H[p] = t.color[p] + H[z] /\ H[z] = t.color[z] + H[b]
    BY <1>0, <1>1, <1>4, HeightsRead
  <2>3. H[p] = H[z] /\ H[z] = H[b]
    <3>1. t.color[p] = 0 /\ t.color[z] = 0
      BY <1>0, <1>1
    <3>2. H[z] \in Nat /\ H[b] \in Nat
      BY <1>1, <1>3, <1>5
    <3> QED
      BY <2>2, <3>1, <3>2
  <2>4. H[u.child[k][r]] = H[c]
    <3>1. CASE k = p /\ r = Opposite(s)
      BY <2>1, <2>3, <3>1, <1>2, <1>4
    <3>2. CASE k = z /\ r = s
      BY <2>1, <2>3, <3>2, <1>1, <1>2
    <3>3. CASE ~(k = p /\ r = Opposite(s)) /\ ~(k = z /\ r = s)
      BY <2>1, <2>3, <3>3, <1>2
    <3> QED
      BY <3>1, <3>2, <3>3
  <2> QED
    BY <2>1, <2>4, <1>2
<1>7. Heights(u, T, H, nil, "left")
  <2> HIDE DEF T
  <2> QED
    BY <1>2, <1>3, <1>6, HeightsFrom
<1>8. ASSUME NEW k \in T, NEW r \in Side, u.color[k] = BST_RED, u.child[k][r] # p
      PROVE  u.color[u.child[k][r]] = BST_BLACK
  <2>1. k \in Node /\ k # nil /\ t.color[k] = BST_RED
    BY <1>0, <1>2, <1>8, HeightsRead
  <2>2. \A i \in T : \A j \in Side : t.color[i] = BST_RED /\ t.child[i][j] # z => t.color[t.child[i][j]] = BST_BLACK
    BY <1>0, <1>3, NotNil DEF RedApart
  <2>3. CASE k = p /\ r = Opposite(s)
    <3>1. b # z
      BY <1>1, <1>5
    <3>2. t.color[b] = BST_BLACK
      BY <3>1, <2>2, <1>1
    <3> QED
      BY <2>1, <2>3, <3>2, <1>2
  <2>4. CASE k = z /\ r = s
    BY <2>1, <2>4, <1>1, <1>2, <1>8
  <2>5. CASE ~(k = p /\ r = Opposite(s)) /\ ~(k = z /\ r = s)
    <3>1. k # g
      BY <2>1, <1>0, <1>1
    <3>2. u.child[k][r] = t.child[k][r]
      BY <2>1, <2>5, <3>1, <1>2
    <3>3. t.child[k][r] # z
      <4>1. t.child[k][r] = z => k = p
        BY <1>1, ShapeChild
      <4>2. t.child[p][s] # z
        <5>1. t.child[p][Opposite(s)] # t.child[p][Opposite(Opposite(s))]
          BY <1>1, <1>4, ShapeChild
        <5> QED
          BY <5>1, <1>1, OtherSide
      <4> QED
        BY <4>1, <4>2, <2>5, <1>1, <1>4, OtherSide
    <3> QED
      BY <2>1, <2>2, <3>2, <3>3, <1>2
  <2> QED
    BY <2>3, <2>4, <2>5
<1>9. RedApart(u, T, nil, p)
  BY <1>8 DEF RedApart
<1>10. RedChild(u, W, H, p)
  <2> HIDE DEF T
  <2>1. W[u.root] = T
    BY DEF T
  <2> QED
    BY <2>1, <1>0, <1>1, <1>2, <1>7, <1>9 DEF RedChild
<1>11. u.child[g][s] = z /\ u.child[g][Opposite(s)] = w /\ u.child[z][s] = p
  BY <1>1, <1>2, <1>4
<1>12. s = IF z = u.child[g]["left"] THEN "left" ELSE "right"
  BY <1>1, <1>4, <1>11 DEF Side, Opposite
<1>13. QED
  BY <1>2, <1>10, <1>11, <1>12 DEF Family

\* u is t with the colour c of m, and the colour e of n.
Painted(u, t, m, c, n, e) ==
    /\ u \in Tree /\ u.root = t.root /\ u.child = t.child /\ u.parent = t.parent
    /\ u.failed = t.failed
    /\ \A k \in Node : u.color[k] = IF k = m THEN c ELSE IF k = n THEN e ELSE t.color[k]

\* z is an outer grandchild with a black uncle; b is its sibling, q the parent of g.
OuterNodes(t, z, p, g, s, w, b, q) ==
    /\ z = t.child[p][s] /\ t.color[w] = BST_BLACK
    /\ b = t.child[p][Opposite(s)] /\ q = t.parent[g]

\* The rotation of an outer grandchild ends the loop.
LEMMA OuterColors ==
    ASSUME NEW t \in Tree, NEW U, Shape(t, U), NEW H, NEW z, RedChild(t, U, H, z),
           NEW p, NEW g, NEW s, NEW w, Family(t, z, p, g, s, w), NEW b, NEW q,
           OuterNodes(t, z, p, g, s, w, b, q),
           NEW v, Painted(v, t, g, BST_RED, p, BST_BLACK),
           NEW u, Rotated(u, v, Opposite(s), g, p, b, q)
    PROVE  \E H2 : Balanced(u, U[t.root], H2) /\ u.color[nil] = BST_BLACK
<1> DEFINE T == U[t.root]
           o == Opposite(s)
           H2 == [H EXCEPT ![p] = H[g], ![g] = H[p]]
<1>a. z = t.child[p][s] /\ t.color[w] = BST_BLACK /\ b = t.child[p][o] /\ q = t.parent[g]
  BY DEF OuterNodes
<1>0. /\ Heights(t, T, H, nil, "left") /\ RedApart(t, T, nil, z) /\ t.color[nil] = BST_BLACK
      /\ z = t.root \/ t.color[t.root] = BST_BLACK
      /\ BST_RED = 0 /\ BST_BLACK = 1
  BY DEF RedChild, BST_RED, BST_BLACK
<1>1. /\ z \in T /\ p \in T /\ g \in T /\ s \in Side /\ z \in Node /\ p \in Node /\ g \in Node
      /\ z # nil /\ p # nil /\ g # nil /\ z # p /\ z # g /\ p # g /\ w # z /\ w # p /\ w # g
      /\ z # t.root /\ p # t.root /\ t.child[g][s] = p /\ t.child[g][o] = w
      /\ t.parent[p] = g /\ t.parent[z] = p /\ w \in Node
      /\ t.color[z] = BST_RED /\ t.color[p] = BST_RED /\ t.color[g] = BST_BLACK
  BY FamilyNodes
<1>2. o \in Side /\ o # s /\ Opposite(o) = s
  BY <1>a, <1>1, OtherSide
<1>3. /\ u \in Tree /\ u.root = IF g = t.root THEN p ELSE t.root
      /\ \A k \in Node : u.color[k] = IF k = g THEN BST_RED ELSE IF k = p THEN BST_BLACK
                                      ELSE t.color[k]
      /\ \A k \in Node : \A r \in Side :
             u.child[k][r] = IF k = g /\ r = s THEN b
                             ELSE IF k = p /\ r = o THEN g
                             ELSE IF k = q /\ q # nil /\ t.child[k][r] = g THEN p
                             ELSE t.child[k][r]
  BY <1>2 DEF Rotated, Painted
<1>4. H \in [Node -> Nat \ {0}] /\ H[nil] = 1 /\ T \subseteq Nodes
  BY <1>0, ShapeNode DEF Heights
<1>5. /\ b \in Node /\ b # p /\ b # g /\ b # z
      /\ b # nil => t.parent[b] = p
  <2>1. b \in Node
    BY <1>a, <1>1, <1>2, ReadType
  <2>2. b # nil => t.parent[b] = p /\ b # p /\ b # t.child[p][Opposite(o)]
    BY <1>a, <1>1, <1>2, ShapeChild
  <2> QED
    BY <1>a, <2>1, <2>2, <1>1, <1>2, FamilyNodes, ShapeChild
<1>6. /\ H[g] = 1 + H[p] /\ H[g] = 1 + H[w] /\ H[p] = H[z] /\ H[p] = H[b]
  <2>1. H[g] = t.color[g] + H[p] /\ H[g] = t.color[g] + H[w]
    BY <1>a, <1>0, <1>1, <1>2, HeightsRead
  <2>2. H[p] = t.color[p] + H[z] /\ H[p] = t.color[p] + H[b]
    BY <1>a, <1>0, <1>1, <1>2, HeightsRead
  <2>3. H[p] \in Nat /\ H[w] \in Nat /\ H[z] \in Nat /\ H[b] \in Nat
    BY <1>a, <1>1, <1>4, <1>5
  <2> QED
    BY <1>a, <2>1, <2>2, <2>3, <1>0, <1>1
<1>7. /\ H2 \in [Node -> Nat \ {0}] /\ H2[nil] = 1 /\ H2[p] = H[g] /\ H2[g] = H[p]
      /\ \A k \in Node : k # p /\ k # g => H2[k] = H[k]
  BY <1>a, <1>1, <1>4 DEF Node
<1> HIDE DEF H2
<1>8. ASSUME NEW k \in T, NEW r \in Side
      PROVE  /\ t.child[k][r] = p => k = g /\ r = s
             /\ t.child[k][r] = g => k = q /\ q # nil
             /\ t.child[k][r] = z => k = p /\ r = s
  <2>1. t.child[k][r] # nil => t.parent[t.child[k][r]] = k /\ t.child[k][r] # t.child[k][Opposite(r)]
    BY ShapeChild
  <2>2. k # nil
    BY ShapeNode
  <2> QED
    BY <1>a, <2>1, <2>2, <1>1, <1>2, OtherSide
<1>9. ASSUME NEW k \in T, NEW r \in Side
      PROVE  H2[k] = u.color[k] + H2[u.child[k][r]]
  <2> DEFINE c == t.child[k][r]
  <2>1. /\ H[k] = t.color[k] + H[c] /\ c \in Node /\ k \in Node /\ t.color[k] \in {0, 1}
        /\ H[c] \in Nat
    BY <1>0, HeightsRead
  <2>2. CASE k = g
    <3>1. r = s \/ r = o
      BY <1>a, <1>1, OtherSide
    <3>2. u.child[g][r] = IF r = s THEN b ELSE w
      BY <1>a, <2>2, <3>1, <1>1, <1>2, <1>3
    <3>3. H2[u.child[g][r]] = H[p]
      BY <1>a, <3>2, <1>1, <1>5, <1>6, <1>7
    <3>4. u.color[g] = 0 /\ H[p] \in Nat
      BY <1>a, <1>0, <1>1, <1>3, <1>4
    <3> QED
      BY <2>2, <3>3, <3>4, <1>7
  <2>3. CASE k = p
    <3>1. r = s \/ r = o
      BY <1>a, <1>1, OtherSide
    <3>2. u.child[p][r] = IF r = o THEN g ELSE z
      BY <1>a, <2>3, <3>1, <1>1, <1>2, <1>3
    <3>3. H2[u.child[p][r]] = H[p]
      BY <1>a, <3>2, <1>1, <1>6, <1>7
    <3>4. u.color[p] = 1
      BY <1>a, <1>0, <1>1, <1>3
    <3> QED
      BY <2>3, <3>3, <3>4, <1>6, <1>7
  <2>4. CASE k # g /\ k # p
    <3>1. u.child[k][r] = IF c = g THEN p ELSE c
      BY <2>1, <2>4, <1>3, <1>8
    <3>2. c # p
      BY <2>4, <1>8
    <3>3. H2[u.child[k][r]] = H[c]
      BY <2>1, <3>1, <3>2, <1>7
    <3>4. u.color[k] = t.color[k] /\ H2[k] = H[k]
      BY <2>1, <2>4, <1>3, <1>7
    <3> QED
      BY <2>1, <3>3, <3>4
  <2> QED
    BY <2>2, <2>3, <2>4
<1>10. Heights(u, T, H2, nil, "left")
  <2> HIDE DEF T
  <2> QED
    BY <1>3, <1>4, <1>7, <1>9, HeightsFrom
<1>11. \A i \in T : \A j \in Side : t.color[i] = BST_RED /\ t.child[i][j] # z => t.color[t.child[i][j]] = BST_BLACK
  BY <1>0, <1>4, NotNil DEF RedApart
<1>12. ASSUME NEW k \in T, NEW r \in Side, u.color[k] = BST_RED
       PROVE  u.color[u.child[k][r]] = BST_BLACK
  <2> DEFINE c == t.child[k][r]
  <2>0. u.color[p] = BST_BLACK /\ BST_RED # BST_BLACK
    BY <1>a, <1>0, <1>1, <1>3
  <2>1. k \in Node /\ c \in Node /\ k # p
    BY <1>a, <2>0, <1>0, <1>12, HeightsRead
  <2>2. CASE k = g
    <3>1. r = s \/ r = o
      BY <1>a, <1>1, OtherSide
    <3>2. u.child[g][r] = IF r = s THEN b ELSE w
      BY <1>a, <2>2, <3>1, <1>1, <1>2, <1>3
    <3>3. t.color[b] = BST_BLACK
      BY <1>a, <1>1, <1>2, <1>5, <1>11
    <3> QED
      BY <1>a, <2>2, <3>2, <3>3, <1>1, <1>3, <1>5
  <2>3. CASE k # g
    <3>1. u.child[k][r] = IF c = g THEN p ELSE c
      BY <2>1, <2>3, <1>3, <1>8
    <3>2. c # p /\ c # z /\ t.color[k] = BST_RED
      BY <1>a, <2>1, <2>3, <1>3, <1>8, <1>12
    <3>3. t.color[c] = BST_BLACK
      BY <1>a, <3>2, <1>11
    <3> QED
      BY <1>a, <2>1, <3>1, <3>2, <3>3, <1>1, <1>3
  <2> QED
    BY <2>2, <2>3
<1>13. RedApart(u, T, nil, nil)
  BY <1>a, <1>12 DEF RedApart
<1>14. u.color[u.root] = BST_BLACK /\ u.color[nil] = BST_BLACK
  <2>1. nil \in Node /\ t.root \in Node
    BY DEF Node, Tree
  <2> QED
    BY <1>a, <2>1, <1>0, <1>1, <1>3
<1>15. QED
  BY <1>a, <1>10, <1>13, <1>14 DEF Balanced

-----------------------------------------------------------------------------
(* Colours and heights: deleting *)

\* Heights with a gap, read at a node.
LEMMA GapRead ==
    ASSUME NEW t \in Tree, NEW U, Shape(t, U), NEW H, NEW hole, NEW gap,
           Heights(t, U[t.root], H, hole, gap), NEW k \in U[t.root], NEW r \in Side
    PROVE  /\ k = hole /\ r = gap => H[k] = t.color[k] + H[t.child[k][r]] + 1
           /\ k # hole \/ r # gap => H[k] = t.color[k] + H[t.child[k][r]]
           /\ H[k] \in Nat /\ H[t.child[k][r]] \in Nat /\ H[t.child[k][r]] >= 1
           /\ t.color[k] \in {0, 1} /\ t.child[k][r] \in Node /\ k \in Node /\ k # nil
<1>1. k \in Node /\ k # nil /\ t.child[k][r] \in Node
  BY ShapeNode, ReadType
<1>2. H[k] = t.color[k] + H[t.child[k][r]] + (IF k = hole /\ r = gap THEN 1 ELSE 0)
  BY <1>1 DEF Heights
<1>3. /\ t.color[k] \in {0, 1} /\ H[t.child[k][r]] \in Nat /\ H[k] \in Nat
      /\ H[t.child[k][r]] >= 1
  BY <1>1, HeightTypes
<1>4. QED
  BY <1>1, <1>2, <1>3

\* Heights with a gap, from every node.
LEMMA GapFrom ==
    ASSUME NEW t \in Tree, NEW T, T \subseteq Nodes, NEW H \in [Node -> Nat \ {0}], H[nil] = 1,
           NEW hole, NEW gap,
           \A k \in T : \A r \in Side :
               /\ k = hole /\ r = gap => H[k] = t.color[k] + H[t.child[k][r]] + 1
               /\ k # hole \/ r # gap => H[k] = t.color[k] + H[t.child[k][r]]
    PROVE  Heights(t, T, H, hole, gap)
<1>1. ASSUME NEW k \in T, NEW r \in Side
      PROVE  H[k] = t.color[k] + H[t.child[k][r]] + (IF k = hole /\ r = gap THEN 1 ELSE 0)
  <2>1. k # nil /\ k \in Node
    BY NotNil DEF Node
  <2>2. t.color[k] \in {0, 1} /\ t.child[k][r] \in Node
    BY <2>1, ReadType DEF BST_RED, BST_BLACK
  <2>3. H[t.child[k][r]] \in Nat
    BY <2>2
  <2>4. /\ k = hole /\ r = gap => H[k] = t.color[k] + H[t.child[k][r]] + 1
        /\ k # hole \/ r # gap => H[k] = t.color[k] + H[t.child[k][r]]
    OBVIOUS
  <2> QED
    BY <2>1, <2>2, <2>3, <2>4
<1>2. QED
  BY <1>1 DEF Heights

\* No gap is at the sentinel.
LEMMA NoGap ==
    ASSUME NEW t \in Tree, NEW U, Shape(t, U), NEW H, NEW gap, Heights(t, U[t.root], H, nil, gap),
           NEW gap2
    PROVE  Heights(t, U[t.root], H, nil, gap2)
<1>1. \A k \in U[t.root] : k # nil
  BY ShapeNode
<1>2. QED
  BY <1>1 DEF Heights

\* The only child of a node is a red leaf; what the removal leaves behind.
LEMMA RemoveColors ==
    ASSUME NEW t \in Tree, NEW U, Shape(t, U), NEW n, NEW s, NEW r, NEW p, NEW e,
           RemoveNodes(t, U, n, s, r, p, e), NEW u, Transplanted(u, t, n, r, p, e),
           t.color[nil] = BST_BLACK,
           NEW H, Heights(t, U[t.root], H, nil, "left"), RedApart(t, U[t.root], nil, nil)
    PROVE  /\ r # nil => U[r] = {r}
           /\ t.color[n] = BST_RED => /\ Heights(u, U[t.root] \ {n}, H, nil, "left")
                                      /\ RedApart(u, U[t.root] \ {n}, nil, nil)
           /\ t.color[n] = BST_BLACK => /\ Heights(u, U[t.root] \ {n}, H, p, e)
                                        /\ RedApart(u, U[t.root] \ {n}, nil, r)
<1> DEFINE T == U[t.root]
           V == T \ {n}
<1>0. BST_RED = 0 /\ BST_BLACK = 1
  BY DEF BST_RED, BST_BLACK
<1>1. /\ n \in Nodes /\ n \in Node /\ n # nil /\ r \in Node /\ p \in Node /\ e \in Side
      /\ n # r /\ p # n /\ n \in T
      /\ p # nil => p \in T /\ t.child[p][e] = n /\ t.child[p][Opposite(e)] # n
      /\ r # nil => r \in T /\ t.parent[r] = n
  BY RemoveApart
<1>2. s \in Side /\ t.child[n][s] = nil /\ r = t.child[n][Opposite(s)] /\ p = t.parent[n]
  BY DEF RemoveNodes
<1>3. H \in [Node -> Nat \ {0}] /\ H[nil] = 1 /\ T \subseteq Nodes
  BY ShapeNode DEF Heights
<1>4. H[r] = 1 /\ H[n] = t.color[n] + 1 /\ t.color[n] \in {0, 1}
  <2>1. H[n] = t.color[n] + H[nil] /\ H[n] = t.color[n] + H[r] /\ H[r] \in Nat /\ t.color[n] \in {0, 1}
    BY <1>1, <1>2, Sides, HeightsRead
  <2> QED
    BY <2>1, <1>3
<1>5. \A i \in T : \A j \in Side : t.color[i] = BST_RED => t.color[t.child[i][j]] = BST_BLACK
  <2>1. \A i \in T : i # nil
    BY ShapeNode
  <2> QED
    BY <2>1 DEF RedApart
<1>6. ASSUME r # nil PROVE U[r] = {r}
  <2>1. ASSUME NEW j \in Side PROVE t.child[r][j] = nil
    <3>1. H[r] = t.color[r] + H[t.child[r][j]] /\ H[t.child[r][j]] \in Nat /\ H[t.child[r][j]] >= 1
          /\ t.color[r] \in {0, 1} /\ t.child[r][j] \in Node
      BY <1>1, <1>6, HeightsRead
    <3>2. t.color[r] = 0 /\ H[t.child[r][j]] = 1
      BY <3>1, <1>4
    <3>3. t.color[t.child[r][j]] = 1
      BY <3>2, <1>0, <1>1, <1>5, <1>6
    <3>4. SUFFICES ASSUME t.child[r][j] # nil PROVE FALSE
      OBVIOUS
    <3>5. t.child[r][j] \in T
      BY <3>4, <1>1, <1>6, ShapeChild
    <3>6. H[t.child[r][j]] = t.color[t.child[r][j]] + H[t.child[t.child[r][j]][j]]
          /\ H[t.child[t.child[r][j]][j]] \in Nat /\ H[t.child[t.child[r][j]][j]] >= 1
      BY <3>5, HeightsRead
    <3> QED
      BY <3>2, <3>3, <3>6
  <2>2. U[r] = {r} \cup U[t.child[r]["left"]] \cup U[t.child[r][Opposite("left")]]
    BY <1>1, <1>6, Sides, ShapeSplit
  <2>3. t.child[r]["left"] = nil /\ t.child[r][Opposite("left")] = nil /\ U[nil] = {}
    BY <2>1, Sides DEF Shape
  <2> QED
    BY <2>2, <2>3
<1>7. /\ u \in Tree /\ u.color = t.color
      /\ \A k \in Node : \A q \in Side :
             u.child[k][q] = IF p # nil /\ k = p /\ q = e THEN r ELSE t.child[k][q]
  BY DEF Transplanted
<1>8. ASSUME NEW k \in V, NEW q \in Side
      PROVE  /\ (t.child[k][q] = n) <=> (p # nil /\ k = p /\ q = e)
             /\ k \in Node /\ k # nil /\ k \in T
  <2>1. k \in Node /\ k # nil /\ k \in T
    BY ShapeNode
  <2>2. t.child[k][q] = n => k = p /\ p # nil
    BY <2>1, <1>1, <1>2, ShapeChild
  <2>3. p # nil => (t.child[p][q] = n <=> q = e)
    BY <1>1, OtherSide
  <2> QED
    BY <2>1, <2>2, <2>3
<1>9. ASSUME NEW k \in V, NEW q \in Side
      PROVE  /\ t.child[k][q] # n => H[k] = u.color[k] + H[u.child[k][q]]
             /\ t.child[k][q] = n => H[k] = u.color[k] + H[u.child[k][q]] + t.color[n]
  <2>1. k \in T /\ k \in Node /\ ((t.child[k][q] = n) <=> (p # nil /\ k = p /\ q = e))
    BY <1>8
  <2>2. /\ H[k] = t.color[k] + H[t.child[k][q]] /\ t.color[k] \in {0, 1} /\ H[t.child[k][q]] \in Nat
    BY <2>1, HeightsRead
  <2>3. CASE t.child[k][q] # n
    BY <2>1, <2>2, <2>3, <1>7
  <2>4. CASE t.child[k][q] = n
    <3>1. u.child[k][q] = r
      BY <2>1, <2>4, <1>7
    <3>2. H[k] = t.color[k] + (t.color[n] + 1)
      BY <2>2, <2>4, <1>4
    <3> QED
      BY <2>2, <2>4, <3>1, <3>2, <1>4, <1>7
  <2> QED
    BY <2>3, <2>4
<1>10. ASSUME NEW k \in V, NEW q \in Side, u.color[k] = BST_RED, u.child[k][q] # r
       PROVE  u.color[u.child[k][q]] = BST_BLACK
  <2>1. k \in T /\ k \in Node
    BY <1>8
  <2>2. u.child[k][q] = t.child[k][q]
    BY <2>1, <1>7, <1>10
  <2> QED
    BY <2>1, <2>2, <1>5, <1>7, <1>10
<1>11. ASSUME t.color[n] = BST_RED
       PROVE  Heights(u, V, H, nil, "left") /\ RedApart(u, V, nil, nil)
  <2>1. ASSUME NEW k \in V, NEW q \in Side PROVE H[k] = u.color[k] + H[u.child[k][q]]
    <3>1. u.color[k] \in {0, 1} /\ u.child[k][q] \in Node
      BY <1>7, <1>8, ReadType DEF BST_RED, BST_BLACK
    <3>2. H[u.child[k][q]] \in Nat
      BY <3>1, <1>3
    <3> QED
      BY <3>1, <3>2, <1>0, <1>9, <1>11
  <2>2. V \subseteq Nodes
    BY <1>3
  <2>3. Heights(u, V, H, nil, "left")
    <3> HIDE DEF V
    <3> QED
      BY <2>1, <2>2, <1>3, <1>7, HeightsFrom
  <2>4. t.color[r] = BST_BLACK
    BY <1>1, <1>2, <1>5, <1>11, Sides
  <2>5. RedApart(u, V, nil, nil)
    BY <2>4, <1>7, <1>10 DEF RedApart
  <2> QED
    BY <2>3, <2>5
<1>12. ASSUME t.color[n] = BST_BLACK
       PROVE  Heights(u, V, H, p, e) /\ RedApart(u, V, nil, r)
  <2>1. ASSUME NEW k \in V, NEW q \in Side
        PROVE  /\ k = p /\ q = e => H[k] = u.color[k] + H[u.child[k][q]] + 1
               /\ k # p \/ q # e => H[k] = u.color[k] + H[u.child[k][q]]
    BY <1>0, <1>8, <1>9, <1>12
  <2>2. V \subseteq Nodes
    BY <1>3
  <2>3. Heights(u, V, H, p, e)
    <3> HIDE DEF V
    <3> QED
      BY <2>1, <2>2, <1>3, <1>7, GapFrom
  <2>4. RedApart(u, V, nil, r)
    BY <1>10 DEF RedApart
  <2> QED
    BY <2>3, <2>4
<1>13. QED
  BY <1>6, <1>11, <1>12

\* Putting z in the place of n keeps heights and colours.
LEMMA RelabelColors ==
    ASSUME NEW t \in Tree, NEW U, Shape(t, U), NEW n \in U[t.root], NEW z \in Nodes \ U[t.root],
           NEW u, Relabelled(u, t, U[t.root], n, z),
           NEW H, NEW hole, NEW gap, Heights(t, U[t.root], H, hole, gap),
           NEW up, NEW down, RedApart(t, U[t.root], up, down),
           up # n, up # z, down # n, down # z, hole # z
    PROVE  /\ Heights(u, (U[t.root] \ {n}) \cup {z}, [H EXCEPT ![z] = H[n]],
                      IF hole = n THEN z ELSE hole, gap)
           /\ RedApart(u, (U[t.root] \ {n}) \cup {z}, up, down)
<1> DEFINE T == U[t.root]
           V == (T \ {n}) \cup {z}
           H2 == [H EXCEPT ![z] = H[n]]
           hole2 == IF hole = n THEN z ELSE hole
<1>0. ASSUME NEW k \in U[t.root], NEW r \in Side
      PROVE  /\ k = hole /\ r = gap => H[k] = t.color[k] + H[t.child[k][r]] + 1
             /\ k # hole \/ r # gap => H[k] = t.color[k] + H[t.child[k][r]]
  <2> HIDE DEF hole2, H2, V
  <2>1. k \in Node /\ k # nil /\ t.child[k][r] \in Node
    BY ShapeNode, ReadType
  <2>2. H[k] = t.color[k] + H[t.child[k][r]] + (IF k = hole /\ r = gap THEN 1 ELSE 0)
    BY DEF Heights
  <2>3. t.color[k] \in {0, 1} /\ H[t.child[k][r]] \in Nat
    BY <2>1, HeightTypes
  <2> QED
    BY <2>2, <2>3
<1>1. /\ u \in Tree
      /\ \A r \in Side : u.child[z][r] = t.child[n][r]
      /\ \A k \in T \ {n} : \A r \in Side :
             u.child[k][r] = IF t.child[k][r] = n THEN z ELSE t.child[k][r]
      /\ u.color[z] = t.color[n] /\ u.color[nil] = t.color[nil]
      /\ \A k \in T \ {n} : u.color[k] = t.color[k]
  BY DEF Relabelled
<1>2. H \in [Node -> Nat \ {0}] /\ H[nil] = 1
  BY DEF Heights
<1>3. z \in Node /\ z # nil /\ n \in Node /\ n # nil /\ T \subseteq Nodes
  BY NotNil, ShapeNode DEF Node
<1>4. H2 \in [Node -> Nat \ {0}] /\ H2[nil] = 1 /\ H2[z] = H[n] /\ \A k \in Node : k # z => H2[k] = H[k]
  BY <1>2, <1>3
<1> HIDE DEF H2
<1>5. \A k \in T : \A r \in Side : t.child[k][r] \in T \cup {nil} /\ t.child[k][r] \in Node /\ t.child[k][r] # z
  <2>1. \A k \in T : \A r \in Side : t.child[k][r] \in T \cup {nil} /\ t.child[k][r] \in Node
    BY ShapeNode, ShapeChild, ReadType
  <2> QED
    BY <2>1, <1>3
<1>6. \A r \in Side : t.child[n][r] # n
  BY <1>3, ShapeChild
<1>7. ASSUME NEW k \in V, NEW r \in Side
      PROVE  /\ k = hole2 /\ r = gap => H2[k] = u.color[k] + H2[u.child[k][r]] + 1
             /\ k # hole2 \/ r # gap => H2[k] = u.color[k] + H2[u.child[k][r]]
  <2>1. CASE k = z
    <3>1. u.child[z][r] = t.child[n][r] /\ t.child[n][r] # z /\ t.child[n][r] \in Node
      BY <1>1, <1>5
    <3>2. H2[u.child[z][r]] = H[t.child[n][r]]
      BY <3>1, <1>4
    <3>3. z = hole2 <=> n = hole
      OBVIOUS
    <3>4. /\ n = hole /\ r = gap => H[n] = t.color[n] + H[t.child[n][r]] + 1
          /\ n # hole \/ r # gap => H[n] = t.color[n] + H[t.child[n][r]]
      BY <1>0
    <3> HIDE DEF hole2
    <3> QED
      BY <2>1, <3>2, <3>3, <3>4, <1>1, <1>4
  <2>2. CASE k # z
    <3>0. k \in T \ {n} /\ k \in T /\ k \in Node
      BY <2>2, ShapeNode
    <3>1. u.child[k][r] = IF t.child[k][r] = n THEN z ELSE t.child[k][r]
      BY <3>0, <1>1
    <3>2. H2[u.child[k][r]] = H[t.child[k][r]]
      BY <3>0, <3>1, <1>4, <1>5
    <3>3. k = hole2 <=> k = hole
      BY <2>2, <3>0
    <3>4. /\ k = hole /\ r = gap => H[k] = t.color[k] + H[t.child[k][r]] + 1
          /\ k # hole \/ r # gap => H[k] = t.color[k] + H[t.child[k][r]]
      BY <3>0, <1>0
    <3>5. H2[k] = H[k] /\ u.color[k] = t.color[k]
      BY <2>2, <3>0, <1>1, <1>4
    <3> HIDE DEF hole2
    <3> QED
      BY <3>2, <3>3, <3>4, <3>5
  <2> QED
    BY <2>1, <2>2
<1>8. Heights(u, V, H2, hole2, gap)
  <2>1. V \subseteq Nodes
    BY <1>3
  <2> HIDE DEF V, hole2
  <2> QED
    BY <2>1, <1>1, <1>4, <1>7, GapFrom
<1>9. \A k \in T : \A r \in Side :
          t.color[k] = BST_RED /\ k # up /\ t.child[k][r] # down => t.color[t.child[k][r]] = BST_BLACK
  BY DEF RedApart
<1>10. ASSUME NEW k \in V, NEW r \in Side, u.color[k] = BST_RED, k # up, u.child[k][r] # down
       PROVE  u.color[u.child[k][r]] = BST_BLACK
  <2>0. \A c \in (T \ {n}) \cup {nil} : u.color[c] = t.color[c]
    BY <1>1
  <2>1. CASE k = z
    <3>1. u.child[z][r] = t.child[n][r] /\ t.child[n][r] \in (T \ {n}) \cup {nil}
      BY <1>1, <1>5, <1>6
    <3>2. t.color[t.child[n][r]] = BST_BLACK
      BY <2>1, <3>1, <1>1, <1>9, <1>10
    <3> QED
      BY <2>0, <2>1, <3>1, <3>2
  <2>2. CASE k # z
    <3>0. k \in T \ {n} /\ t.color[k] = BST_RED
      BY <2>2, <1>1, <1>10
    <3>1. CASE t.child[k][r] = n
      BY <3>0, <3>1, <1>1, <1>9, <1>10
    <3>2. CASE t.child[k][r] # n
      <4>1. u.child[k][r] = t.child[k][r] /\ t.child[k][r] \in (T \ {n}) \cup {nil}
        BY <3>0, <3>2, <1>1, <1>5
      <4> QED
        BY <2>0, <3>0, <4>1, <1>9, <1>10
    <3> QED
      BY <3>1, <3>2
  <2> QED
    BY <2>1, <2>2
<1>11. RedApart(u, V, up, down)
  BY <1>10 DEF RedApart
<1>12. QED
  BY <1>8, <1>11 DEF H2

\* A black node is missing above z, the black child of p on side s.
Missing(t, U, H, z, p, s) ==
    /\ Heights(t, U[t.root], H, p, s) /\ RedApart(t, U[t.root], z, z)
    /\ p \in U[t.root] /\ s \in Side /\ z = t.child[p][s] /\ p = t.parent[z] /\ z # t.root
    /\ t.color[z] = BST_BLACK /\ t.color[t.root] = BST_BLACK /\ t.color[nil] = BST_BLACK

\* Then its sibling w is there, and no red node has a red child.
LEMMA MissingNodes ==
    ASSUME NEW t \in Tree, NEW U, Shape(t, U), NEW H, NEW z, NEW p, NEW s, Missing(t, U, H, z, p, s),
           NEW w, w = t.child[p][Opposite(s)]
    PROVE  /\ p \in U[t.root] /\ p \in Node /\ p # nil /\ s \in Side /\ z \in Node /\ z # p
           /\ w \in U[t.root] /\ w \in Node /\ w # nil /\ w # z /\ w # p /\ w # t.root /\ t.parent[w] = p
           /\ s = IF z = t.child[p]["left"] THEN "left" ELSE "right"
           /\ H \in [Node -> Nat \ {0}] /\ H[nil] = 1 /\ U[t.root] \subseteq Nodes
           /\ H[w] = H[z] + 1 /\ H[p] = t.color[p] + H[w]
           /\ \A k \in U[t.root] : \A r \in Side :
                  /\ t.color[k] = BST_RED => t.color[t.child[k][r]] = BST_BLACK
                  /\ k # p => H[k] = t.color[k] + H[t.child[k][r]]
                  /\ t.child[k][r] \in Node /\ k \in Node /\ t.color[k] \in {0, 1}
                  /\ H[t.child[k][r]] \in Nat
<1> DEFINE T == U[t.root]
<1>1. /\ Heights(t, T, H, p, s) /\ RedApart(t, T, z, z)
      /\ p \in T /\ s \in Side /\ z = t.child[p][s] /\ z # t.root
      /\ t.color[z] = BST_BLACK /\ BST_RED = 0 /\ BST_BLACK = 1
  BY DEF Missing, BST_RED, BST_BLACK
<1>2. p \in Node /\ p # nil /\ Opposite(s) \in Side /\ Opposite(s) # s
  BY <1>1, ShapeNode, OtherSide
<1>3. z \in Node /\ w \in Node
  BY <1>1, <1>2, ReadType
<1>4. H \in [Node -> Nat \ {0}] /\ H[nil] = 1 /\ T \subseteq Nodes
  BY <1>1, ShapeNode DEF Heights
<1>5. H[p] = t.color[p] + H[z] + 1 /\ H[p] = t.color[p] + H[w] + 0
  <2>1. \A r \in Side : H[p] = t.color[p] + H[t.child[p][r]] + (IF r = s THEN 1 ELSE 0)
    BY <1>1 DEF Heights
  <2>2. H[p] = t.color[p] + H[t.child[p][s]] + (IF s = s THEN 1 ELSE 0)
    BY <2>1, <1>1
  <2>3. H[p] = t.color[p] + H[t.child[p][Opposite(s)]] + (IF Opposite(s) = s THEN 1 ELSE 0)
    BY <2>1, <1>2
  <2> QED
    BY <2>2, <2>3, <1>1, <1>2
<1>6. t.color[p] \in {0, 1} /\ H[z] \in Nat /\ H[z] >= 1 /\ H[w] \in Nat
  BY <1>1, <1>2, <1>3, HeightTypes
<1>7. H[w] = H[z] + 1 /\ H[p] = t.color[p] + H[w]
  BY <1>5, <1>6
<1>8. w # nil /\ w # z
  BY <1>4, <1>6, <1>7
<1>9. w \in T /\ t.parent[w] = p /\ w # p /\ w # t.root
  BY <1>1, <1>2, <1>8, ShapeChild
<1>10. z # p
  BY <1>1, <1>2, ShapeChild
<1>11. s = IF z = t.child[p]["left"] THEN "left" ELSE "right"
  BY <1>1, <1>8 DEF Side, Opposite
<1>12. ASSUME NEW k \in T, NEW r \in Side
       PROVE  /\ t.color[k] = BST_RED => t.color[t.child[k][r]] = BST_BLACK
              /\ k # p => H[k] = t.color[k] + H[t.child[k][r]]
              /\ t.child[k][r] \in Node /\ k \in Node /\ t.color[k] \in {0, 1}
              /\ H[t.child[k][r]] \in Nat
  <2>1. k \in Node /\ t.child[k][r] \in Node
    BY ShapeNode, ReadType
  <2>2. t.color[k] \in {0, 1} /\ H[t.child[k][r]] \in Nat
    BY <2>1, <1>1, HeightTypes
  <2>3. k # p => H[k] = t.color[k] + H[t.child[k][r]] + 0
    BY <1>1 DEF Heights
  <2>4. t.color[k] = BST_RED => t.color[t.child[k][r]] = BST_BLACK
    BY <1>1 DEF RedApart
  <2> QED
    BY <2>1, <2>2, <2>3, <2>4
<1>13. QED
  BY <1>1, <1>2, <1>3, <1>4, <1>7, <1>8, <1>9, <1>10, <1>11, <1>12

\* The sibling w of the child of p on side s is red.
RedSibling(t, p, s, w) == w = t.child[p][Opposite(s)] /\ t.color[w] = BST_RED

\* A red sibling is rotated above the parent: the new sibling is black.
LEMMA RedSiblingColors ==
    ASSUME NEW t \in Tree, NEW U, Shape(t, U), NEW H, NEW z, NEW p, NEW s, Missing(t, U, H, z, p, s),
           NEW w, RedSibling(t, p, s, w),
           NEW v, Painted(v, t, p, BST_RED, w, BST_BLACK),
           NEW b, NEW g, RotateNodes(v, U, s, p, w, b, g),
           NEW u, Rotated(u, v, s, p, w, b, g), NEW W, W[u.root] = U[t.root]
    PROVE  \E H2 : /\ Missing(u, W, H2, z, p, s)
                   /\ u.child[p][Opposite(s)] = b /\ u.color[b] = BST_BLACK
<1> DEFINE T == U[t.root]
           o == Opposite(s)
           d == t.child[w][o]
           H2 == [H EXCEPT ![w] = H[p], ![p] = H[w]]
<1>y. w = t.child[p][o] /\ t.color[w] = BST_RED
  BY DEF RedSibling
<1>a. BST_RED = 0 /\ BST_BLACK = 1
  BY DEF BST_RED, BST_BLACK
<1>b. z = t.child[p][s] /\ p = t.parent[z] /\ z # t.root
  BY DEF Missing
<1>c. t.color[z] = BST_BLACK /\ t.color[t.root] = BST_BLACK /\ t.color[nil] = BST_BLACK
  BY DEF Missing
<1>d. p \in T /\ p \in Node /\ p # nil /\ s \in Side /\ z \in Node /\ z # p
  BY <1>y, MissingNodes
<1>e. w \in T /\ w \in Node /\ w # nil /\ w # z /\ w # p /\ w # t.root /\ t.parent[w] = p
  BY <1>y, MissingNodes
<1>f. H \in [Node -> Nat \ {0}] /\ H[nil] = 1 /\ T \subseteq Nodes
  BY <1>y, MissingNodes
<1>g. H[w] = H[z] + 1 /\ H[p] = t.color[p] + H[w]
  BY <1>y, MissingNodes
<1>h. \A k \in T : \A r \in Side : k # p => H[k] = t.color[k] + H[t.child[k][r]]
  BY <1>y, MissingNodes
<1>i. \A k \in T : \A r \in Side : t.color[k] = BST_RED => t.color[t.child[k][r]] = BST_BLACK
  BY <1>y, MissingNodes
<1>j. \A k \in T : \A r \in Side : t.child[k][r] \in Node /\ k \in Node /\ t.color[k] \in {0, 1}
  BY <1>y, MissingNodes
<1>k. o \in Side /\ o # s /\ Opposite(o) = s
  BY <1>d, OtherSide
<1>l. u \in Tree /\ u.root = IF p = t.root THEN w ELSE t.root
  BY DEF Rotated, Painted
<1>m. \A k \in Node : u.color[k] = IF k = p THEN BST_RED ELSE IF k = w THEN BST_BLACK ELSE t.color[k]
  BY DEF Rotated, Painted
<1>n. \A k \in Node : \A r \in Side :
             u.child[k][r] = IF k = p /\ r = o THEN b
                             ELSE IF k = w /\ r = s THEN p
                             ELSE IF k = g /\ g # nil /\ t.child[k][r] = p THEN w
                             ELSE t.child[k][r]
  BY DEF Rotated, Painted
<1>o. \A k \in Node :
             u.parent[k] = IF k = p THEN w ELSE IF k = w THEN g
                           ELSE IF k = b /\ b # nil THEN p ELSE t.parent[k]
  BY DEF Rotated, Painted
<1>p. b = t.child[w][s] /\ g = t.parent[p]
  BY DEF RotateNodes, Painted
<1>1. t.color[p] = BST_BLACK
  <2>1. t.color[p] = BST_RED => t.color[t.child[p][o]] = BST_BLACK
    BY <1>y, <1>d, <1>i, <1>k
  <2>2. t.color[p] # BST_RED
    BY <1>y, <2>1, <1>a
  <2> QED
    BY <1>y, <2>2, <1>a, <1>d, <1>j
<1>2. b \in Node /\ d \in Node /\ t.color[b] = BST_BLACK
  BY <1>y, <1>d, <1>e, <1>i, <1>j, <1>k, <1>p
<1>3. H[p] \in Nat /\ H[w] \in Nat /\ H[z] \in Nat /\ H[b] \in Nat /\ H[d] \in Nat /\ H[z] >= 1
  BY <1>y, <1>2, <1>d, <1>e, <1>f
<1>4. H[w] = H[b] /\ H[w] = H[d] /\ H[p] = 1 + H[w]
  <2>1. H[w] = t.color[w] + H[b] /\ H[w] = t.color[w] + H[d]
    BY <1>y, <1>d, <1>e, <1>h, <1>k, <1>p
  <2>2. t.color[w] = 0 /\ t.color[p] = 1
    BY <1>y, <1>1, <1>a
  <2> HIDE DEF d
  <2>3. H[w] = H[b] /\ H[w] = H[d]
    BY <2>1, <2>2, <1>3
  <2>4. H[p] = 1 + H[w]
    BY <2>2, <1>g
  <2> QED
    BY <2>3, <2>4
<1>5. b # nil /\ b # z
  <2>1. H[b] = H[z] + 1
    BY <1>4, <1>g
  <2>2. H[b] # 1 /\ H[b] # H[z]
    BY <2>1, <1>3
  <2> QED
    BY <2>2, <1>f
<1>6. ASSUME NEW k \in T, NEW r \in Side
      PROVE  /\ t.child[k][r] = w => k = p /\ r = o
             /\ t.child[k][r] = p => k = g /\ g # nil
  <2>1. t.child[k][r] # nil => t.parent[t.child[k][r]] = k /\ t.child[k][r] # t.child[k][Opposite(r)]
    BY ShapeChild
  <2>2. k # nil
    BY ShapeNode
  <2> QED
    BY <1>y, <2>1, <2>2, <1>d, <1>e, <1>k, <1>p, OtherSide
<1>7. p \notin U[w]
  BY <1>y, <1>d, <1>e, <1>k, ShapeChild
<1>8. b # p /\ b # w
  BY <1>y, <1>5, <1>7, <1>d, <1>e, <1>p, ShapeChild
<1>9. d # p /\ d # w
  BY <1>y, <1>7, <1>d, <1>e, <1>k, ShapeChild
<1>10. /\ H2 \in [Node -> Nat \ {0}] /\ H2[nil] = 1 /\ H2[p] = H[w] /\ H2[w] = H[p]
       /\ \A k \in Node : k # p /\ k # w => H2[k] = H[k]
  BY <1>y, <1>d, <1>e, <1>f DEF Node
<1> HIDE DEF H2
<1>11. /\ u.child[p][s] = z /\ u.child[p][o] = b /\ u.child[w][s] = p /\ u.child[w][o] = d
  BY <1>y, <1>9, <1>b, <1>d, <1>e, <1>k, <1>n
<1> HIDE DEF d
<1>12. u.color[p] = 0 /\ u.color[w] = 1 /\ u.color[b] = 1 /\ u.color[z] = 1
  BY <1>y, <1>2, <1>8, <1>a, <1>c, <1>d, <1>e, <1>m
<1>13. ASSUME NEW k \in T, NEW r \in Side, k # p, k # w
       PROVE  u.child[k][r] = (IF t.child[k][r] = p THEN w ELSE t.child[k][r]) /\ t.child[k][r] # w
  BY <1>6, <1>13, <1>j, <1>n
<1>14. ASSUME NEW k \in T, NEW r \in Side
       PROVE  /\ k = p /\ r = s => H2[k] = u.color[k] + H2[u.child[k][r]] + 1
              /\ k # p \/ r # s => H2[k] = u.color[k] + H2[u.child[k][r]]
  <2> DEFINE c == t.child[k][r]
  <2>1. CASE k = p
    <3>0. H2[p] = H[w] /\ H2[z] = H[z] /\ H2[b] = H[b]
      BY <1>y, <1>2, <1>8, <1>10, <1>d, <1>e
    <3>1. H2[p] = 0 + H2[z] + 1 /\ H2[p] = 0 + H2[b]
      BY <3>0, <1>3, <1>4, <1>g
    <3> QED
      BY <1>y, <2>1, <3>1, <1>11, <1>12, <1>d, <1>k, OtherSide
  <2>2. CASE k = w
    <3>1. H2[w] = 1 + H2[p] /\ H2[w] = 1 + H2[d]
      BY <1>2, <1>3, <1>4, <1>9, <1>10
    <3>2. CASE r = s
      BY <1>y, <2>2, <3>1, <3>2, <1>11, <1>12, <1>e
    <3>3. CASE r = o
      BY <1>y, <2>2, <3>1, <3>3, <1>11, <1>12, <1>e
    <3> QED
      BY <3>2, <3>3, <1>d, OtherSide
  <2>3. CASE k # p /\ k # w
    <3>1. c \in Node /\ k \in Node /\ H[k] = t.color[k] + H[c]
      BY <2>3, <1>h, <1>j
    <3>2. H2[u.child[k][r]] = H[c]
      BY <2>3, <3>1, <1>10, <1>13
    <3>3. H2[k] = H[k] /\ u.color[k] = t.color[k]
      BY <2>3, <3>1, <1>10, <1>m
    <3> QED
      BY <2>3, <3>1, <3>2, <3>3
  <2> QED
    BY <2>1, <2>2, <2>3
<1>15. Heights(u, T, H2, p, s)
  <2> HIDE DEF T
  <2> QED
    BY <1>10, <1>14, <1>f, <1>l, GapFrom
<1>16. ASSUME NEW k \in T, NEW r \in Side, u.color[k] = BST_RED
       PROVE  u.color[u.child[k][r]] = BST_BLACK
  <2> DEFINE c == t.child[k][r]
  <2>1. k # w
    BY <1>y, <1>12, <1>16, <1>a
  <2>2. CASE k = p
    BY <1>y, <2>2, <1>11, <1>12, <1>a, <1>d, OtherSide
  <2>3. CASE k # p
    <3>1. t.color[k] = BST_RED /\ c \in Node
      BY <2>1, <2>3, <1>16, <1>j, <1>m
    <3>2. t.color[c] = BST_BLACK
      BY <3>1, <1>i
    <3>3. u.child[k][r] = (IF c = p THEN w ELSE c) /\ c # w
      BY <2>1, <2>3, <1>13
    <3> QED
      BY <1>y, <3>1, <3>2, <3>3, <1>12, <1>a, <1>m
  <2> QED
    BY <2>2, <2>3
<1>17. RedApart(u, T, z, z)
  BY <1>16 DEF RedApart
<1>18. u.parent[z] = p /\ z # u.root
  BY <1>y, <1>5, <1>b, <1>d, <1>e, <1>l, <1>o
<1>19. u.color[z] = BST_BLACK /\ u.color[u.root] = BST_BLACK /\ u.color[nil] = BST_BLACK
  <2>1. nil \in Node /\ t.root \in Node
    BY DEF Node, Tree
  <2>2. u.color[nil] = BST_BLACK
    BY <1>y, <2>1, <1>c, <1>d, <1>e, <1>m
  <2>3. u.color[u.root] = BST_BLACK
    BY <1>y, <2>1, <1>12, <1>a, <1>c, <1>e, <1>l, <1>m
  <2> QED
    BY <1>y, <2>2, <2>3, <1>12, <1>a
<1>20. Missing(u, W, H2, z, p, s)
  <2>1. W[u.root] = T
    OBVIOUS
  <2> HIDE DEF T
  <2> QED
    BY <2>1, <1>11, <1>15, <1>17, <1>18, <1>19, <1>d DEF Missing
<1>21. QED
  BY <1>y, <1>11, <1>12, <1>20, <1>a

\* A black sibling without red children turns red: the gap moves up to the parent.
LEMMA PaleSiblingColors ==
    ASSUME NEW t \in Tree, NEW U, Shape(t, U), NEW H, NEW z, NEW p, NEW s, Missing(t, U, H, z, p, s),
           NEW w, w = t.child[p][Opposite(s)], t.color[w] = BST_BLACK,
           \A r \in Side : t.color[t.child[w][r]] = BST_BLACK,
           NEW u, ColorSet(u, t, w, BST_RED)
    PROVE  \E H2 : /\ RedApart(u, U[t.root], p, p) /\ u.color[nil] = BST_BLACK
                   /\ u.color[u.root] = BST_BLACK
                   /\ p = u.root => Heights(u, U[t.root], H2, nil, "left")
                   /\ p # u.root =>
                        /\ u.parent[p] \in U[t.root]
                        /\ \E e \in Side : /\ u.child[u.parent[p]][e] = p
                                           /\ Heights(u, U[t.root], H2, u.parent[p], e)
<1> DEFINE T == U[t.root]
           o == Opposite(s)
           q == t.parent[p]
           H2 == [H EXCEPT ![w] = H[w] - 1, ![p] = H[p] - 1]
<1>a. BST_RED = 0 /\ BST_BLACK = 1
  BY DEF BST_RED, BST_BLACK
<1>b. z = t.child[p][s]
  BY DEF Missing
<1>c. t.color[t.root] = BST_BLACK /\ t.color[nil] = BST_BLACK
  BY DEF Missing
<1>d. p \in T /\ p \in Node /\ p # nil /\ s \in Side /\ z \in Node /\ z # p
  BY MissingNodes
<1>e. w \in T /\ w \in Node /\ w # nil /\ w # z /\ w # p /\ w # t.root /\ t.parent[w] = p
  BY MissingNodes
<1>f. H \in [Node -> Nat \ {0}] /\ H[nil] = 1 /\ T \subseteq Nodes
  BY MissingNodes
<1>g. H[w] = H[z] + 1 /\ H[p] = t.color[p] + H[w]
  BY MissingNodes
<1>h. \A k \in T : \A r \in Side : k # p => H[k] = t.color[k] + H[t.child[k][r]]
  BY MissingNodes
<1>i. \A k \in T : \A r \in Side : t.color[k] = BST_RED => t.color[t.child[k][r]] = BST_BLACK
  BY MissingNodes
<1>j. \A k \in T : \A r \in Side : t.child[k][r] \in Node /\ k \in Node /\ t.color[k] \in {0, 1}
  BY MissingNodes
<1>k. o \in Side /\ o # s /\ Opposite(o) = s
  BY <1>d, OtherSide
<1>l. u \in Tree /\ u.root = t.root /\ u.child = t.child /\ u.parent = t.parent
  BY DEF ColorSet
<1>m. \A k \in Node : u.color[k] = IF k = w THEN BST_RED ELSE t.color[k]
  BY DEF ColorSet
<1>1. /\ H[w] \in Nat /\ H[z] \in Nat /\ H[p] \in Nat /\ H[z] >= 1 /\ t.color[p] \in {0, 1}
  BY <1>d, <1>e, <1>f, <1>j
<1>2. H[w] - 1 \in Nat \ {0} /\ H[p] - 1 \in Nat \ {0}
  BY <1>1, <1>g
<1>3. /\ H2 \in [Node -> Nat \ {0}] /\ H2[nil] = 1 /\ H2[p] = H[p] - 1 /\ H2[w] = H[w] - 1
      /\ \A k \in Node : k # p /\ k # w => H2[k] = H[k]
  BY <1>2, <1>d, <1>e, <1>f DEF Node
<1> HIDE DEF H2
<1>4. ASSUME NEW k \in T, NEW r \in Side
      PROVE  /\ t.child[k][r] = w => k = p /\ r = o
             /\ t.child[k][r] = p => k = q /\ q # nil
  <2>1. t.child[k][r] # nil => t.parent[t.child[k][r]] = k /\ t.child[k][r] # t.child[k][Opposite(r)]
    BY ShapeChild
  <2>2. k # nil
    BY ShapeNode
  <2> QED
    BY <2>1, <2>2, <1>d, <1>e, <1>k, OtherSide
<1>5. ASSUME NEW k \in T, NEW r \in Side
      PROVE  /\ t.child[k][r] # p => H2[k] = u.color[k] + H2[u.child[k][r]]
             /\ t.child[k][r] = p => H2[k] = u.color[k] + H2[u.child[k][r]] + 1
  <2> DEFINE c == t.child[k][r]
  <2>0. u.child[k][r] = c
    BY <1>l
  <2>1. CASE k = p
    <3>1. u.color[p] = t.color[p] /\ H2[z] = H[z]
      BY <1>3, <1>d, <1>e, <1>m
    <3>2. H2[p] = t.color[p] + H2[w] /\ H2[p] = t.color[p] + H2[z]
      BY <3>1, <1>1, <1>3, <1>g
    <3>3. (c = w \/ c = z) /\ c # p
      BY <2>1, <1>b, <1>d, <1>e, OtherSide
    <3> QED
      BY <2>0, <2>1, <3>1, <3>2, <3>3
  <2>2. CASE k = w
    <3>1. u.color[w] = 0 /\ t.color[w] = 1
      BY <1>a, <1>e, <1>m
    <3>2. c # p /\ c # w
      <4>1. c = p => p \in U[w]
        BY <2>2, <1>d, <1>e, ShapeChild
      <4>2. p \notin U[w]
        BY <1>d, <1>e, <1>k, ShapeChild
      <4> QED
        BY <2>2, <4>1, <4>2, <1>4, <1>e
    <3>3. H[w] = 1 + H[c] /\ c \in Node
      BY <2>2, <3>1, <1>e, <1>h, <1>j
    <3>4. H2[c] = H[c] /\ H[c] \in Nat
      BY <3>2, <3>3, <1>3, <1>f
    <3> HIDE DEF c
    <3>5. H2[w] = 0 + H2[c]
      BY <3>3, <3>4, <1>3
    <3> QED
      BY <2>0, <2>2, <3>1, <3>2, <3>5 DEF c
  <2>3. CASE k # p /\ k # w
    <3>1. c \in Node /\ k \in Node /\ H[k] = t.color[k] + H[c] /\ t.color[k] \in {0, 1}
      BY <2>3, <1>h, <1>j
    <3>2. c # w
      BY <2>3, <1>4
    <3>3. H2[k] = H[k] /\ u.color[k] = t.color[k]
      BY <2>3, <3>1, <1>3, <1>m
    <3>4. CASE c = p
      BY <2>0, <3>1, <3>3, <3>4, <1>1, <1>3
    <3>5. CASE c # p
      BY <2>0, <3>1, <3>2, <3>3, <3>5, <1>3
    <3> QED
      BY <3>4, <3>5
  <2> QED
    BY <2>1, <2>2, <2>3
<1>6. RedApart(u, T, p, p)
  <2>1. ASSUME NEW k \in T, NEW r \in Side, u.color[k] = BST_RED, k # p
        PROVE  u.color[u.child[k][r]] = BST_BLACK
    <3>1. k \in Node /\ t.child[k][r] \in Node
      BY <1>j
    <3>2. t.child[k][r] # w
      BY <2>1, <1>4
    <3>3. CASE k = w
      BY <3>1, <3>2, <3>3, <1>l, <1>m
    <3>4. CASE k # w
      <4>1. t.color[k] = BST_RED
        BY <2>1, <3>1, <3>4, <1>m
      <4>2. t.color[t.child[k][r]] = BST_BLACK
        BY <4>1, <1>i
      <4> QED
        BY <3>1, <3>2, <4>2, <1>l, <1>m
    <3> QED
      BY <3>3, <3>4
  <2> QED
    BY <2>1 DEF RedApart
<1>7. u.color[u.root] = BST_BLACK /\ u.color[nil] = BST_BLACK
  <2>1. nil \in Node /\ t.root \in Node
    BY DEF Node, Tree
  <2> QED
    BY <2>1, <1>c, <1>e, <1>l, <1>m
<1>8. ASSUME p = u.root PROVE Heights(u, T, H2, nil, "left")
  <2>1. \A k \in T : \A r \in Side : t.child[k][r] # p
    BY <1>8, <1>d, <1>l, ShapeChild
  <2>2. \A k \in T : \A r \in Side : H2[k] = u.color[k] + H2[u.child[k][r]]
    BY <2>1, <1>5
  <2> HIDE DEF T
  <2> QED
    BY <2>2, <1>3, <1>f, <1>l, HeightsFrom
<1>9. ASSUME p # u.root
      PROVE  /\ u.parent[p] \in T
             /\ \E e \in Side : u.child[u.parent[p]][e] = p /\ Heights(u, T, H2, u.parent[p], e)
  <2>1. q \in T
    BY <1>9, <1>d, <1>l, ShapeParent
  <2>2. PICK e \in Side : t.child[q][e] = p /\ t.child[q][Opposite(e)] # p
    BY <1>9, <1>d, <1>l, ShapeParent
  <2>3. ASSUME NEW k \in T, NEW r \in Side
        PROVE  /\ k = q /\ r = e => H2[k] = u.color[k] + H2[u.child[k][r]] + 1
               /\ k # q \/ r # e => H2[k] = u.color[k] + H2[u.child[k][r]]
    <3>1. t.child[k][r] = p <=> k = q /\ r = e
      BY <2>2, <1>4, OtherSide
    <3> QED
      BY <3>1, <1>5
  <2>4. Heights(u, T, H2, q, e)
    <3> HIDE DEF T, q
    <3> QED
      BY <2>3, <1>3, <1>f, <1>l, GapFrom
  <2> QED
    BY <2>1, <2>2, <2>4, <1>l
<1>10. QED
  BY <1>6, <1>7, <1>8, <1>9

\* The black sibling w of the child of p on side s has one red child c, on that side.
NearRed(t, p, s, w, c) ==
    /\ w = t.child[p][Opposite(s)] /\ t.color[w] = BST_BLACK
    /\ c = t.child[w][s] /\ t.color[c] = BST_RED
    /\ t.color[t.child[w][Opposite(s)]] = BST_BLACK

\* A black sibling whose far child is black: its red near child is rotated above it.
LEMMA NearRedColors ==
    ASSUME NEW t \in Tree, NEW U, Shape(t, U), NEW H, NEW z, NEW p, NEW s, Missing(t, U, H, z, p, s),
           NEW w, NEW c, NearRed(t, p, s, w, c),
           NEW v, Painted(v, t, w, BST_RED, c, BST_BLACK),
           NEW b, NEW g, RotateNodes(v, U, Opposite(s), w, c, b, g),
           NEW u, Rotated(u, v, Opposite(s), w, c, b, g), NEW W, W[u.root] = U[t.root]
    PROVE  \E H2 : /\ Missing(u, W, H2, z, p, s)
                   /\ u.child[p][Opposite(s)] = c /\ u.color[c] = BST_BLACK
                   /\ u.child[c][Opposite(s)] = w /\ u.color[w] = BST_RED
<1> DEFINE T == U[t.root]
           o == Opposite(s)
<1>y. w = t.child[p][o] /\ t.color[w] = BST_BLACK
  BY DEF NearRed
<1>z. c = t.child[w][s] /\ t.color[c] = BST_RED /\ t.color[t.child[w][o]] = BST_BLACK
  BY DEF NearRed
<1>a. BST_RED = 0 /\ BST_BLACK = 1
  BY DEF BST_RED, BST_BLACK
<1>b. z = t.child[p][s] /\ p = t.parent[z] /\ z # t.root
  BY DEF Missing
<1>c. t.color[z] = BST_BLACK /\ t.color[t.root] = BST_BLACK /\ t.color[nil] = BST_BLACK
  BY DEF Missing
<1>d. p \in T /\ p \in Node /\ p # nil /\ s \in Side /\ z \in Node /\ z # p
  BY <1>y, MissingNodes
<1>e. w \in T /\ w \in Node /\ w # nil /\ w # z /\ w # p /\ w # t.root /\ t.parent[w] = p
  BY <1>y, MissingNodes
<1>f. H \in [Node -> Nat \ {0}] /\ H[nil] = 1 /\ T \subseteq Nodes
  BY <1>y, MissingNodes
<1>g. H[w] = H[z] + 1 /\ H[p] = t.color[p] + H[w]
  BY <1>y, MissingNodes
<1>h. \A k \in T : \A r \in Side : k # p => H[k] = t.color[k] + H[t.child[k][r]]
  BY <1>y, MissingNodes
<1>i. \A k \in T : \A r \in Side : t.color[k] = BST_RED => t.color[t.child[k][r]] = BST_BLACK
  BY <1>y, MissingNodes
<1>j. \A k \in T : \A r \in Side : t.child[k][r] \in Node /\ k \in Node /\ t.color[k] \in {0, 1}
  BY <1>y, MissingNodes
<1>k. o \in Side /\ o # s /\ Opposite(o) = s
  BY <1>d, OtherSide
<1> DEFINE d == t.child[w][o]
           a == t.child[c][s]
           H2 == [H EXCEPT ![w] = H[c], ![c] = H[w]]
<1>p. b = t.child[c][o] /\ g = p
  BY <1>e DEF RotateNodes, Painted
<1>l. u \in Tree /\ u.root = t.root
  BY <1>e DEF Rotated, Painted
<1>m. \A k \in Node : u.color[k] = IF k = w THEN BST_RED ELSE IF k = c THEN BST_BLACK ELSE t.color[k]
  BY DEF Rotated, Painted
<1>n. \A k \in Node : \A r \in Side :
             u.child[k][r] = IF k = w /\ r = s THEN b
                             ELSE IF k = c /\ r = o THEN w
                             ELSE IF k = p /\ t.child[k][r] = w THEN c
                             ELSE t.child[k][r]
  BY <1>d, <1>k, <1>p DEF Rotated, Painted
<1>o. \A k \in Node :
             u.parent[k] = IF k = w THEN c ELSE IF k = c THEN p
                           ELSE IF k = b /\ b # nil THEN w ELSE t.parent[k]
  BY <1>p DEF Rotated, Painted
<1>1. c # nil
  <2>1. t.color[c] # t.color[nil]
    BY <1>z, <1>a, <1>c
  <2> QED
    BY <2>1
<1>2. c \in T /\ t.parent[c] = w /\ c \in U[w] /\ c # w /\ c # d
  BY <1>z, <1>1, <1>d, <1>e, ShapeChild
<1>3. p \notin U[w] /\ w \notin U[c]
  <2>1. p \notin U[w]
    BY <1>y, <1>d, <1>e, <1>k, ShapeChild
  <2>2. w \notin U[c]
    BY <1>z, <1>1, <1>d, <1>e, ShapeChild
  <2> QED
    BY <2>1, <2>2
<1>4. c # p /\ c \in Node /\ c # z
  <2>1. c # p
    BY <1>2, <1>3
  <2>2. c # z
    BY <1>2, <1>b, <1>e
  <2> QED
    BY <2>1, <2>2, <1>2, ShapeNode
<1>5. b \in Node /\ d \in Node /\ a \in Node /\ t.color[b] = BST_BLACK
  BY <1>y, <1>z, <1>2, <1>d, <1>e, <1>i, <1>j, <1>k, <1>p
<1>6. /\ b # w /\ b # c /\ b # p /\ a # w /\ a # c
      /\ b # nil => t.parent[b] = c
  <2>1. b # nil => b \in U[c] /\ b # c /\ t.parent[b] = c
    BY <1>2, <1>k, <1>p, ShapeChild
  <2>2. a # nil => a \in U[c] /\ a # c
    BY <1>2, <1>d, ShapeChild
  <2>3. U[c] \subseteq U[w]
    BY <1>z, <1>1, <1>d, <1>e, ShapeChild
  <2> QED
    BY <2>1, <2>2, <2>3, <1>1, <1>3, <1>d, <1>e
<1>7. d # w /\ d # c
  <2>1. d # nil => d # w
    BY <1>e, <1>k, ShapeChild
  <2> QED
    BY <2>1, <1>2, <1>e
<1>8. H[w] \in Nat /\ H[z] \in Nat /\ H[b] \in Nat /\ H[d] \in Nat /\ H[a] \in Nat /\ H[c] \in Nat
  BY <1>4, <1>5, <1>d, <1>e, <1>f
<1>9. H[w] = 1 + H[c] /\ H[w] = 1 + H[d] /\ H[c] = H[a] /\ H[c] = H[b]
  <2>1. H[w] = t.color[w] + H[c] /\ H[w] = t.color[w] + H[d]
    BY <1>y, <1>z, <1>d, <1>e, <1>h, <1>k
  <2>2. H[c] = t.color[c] + H[a] /\ H[c] = t.color[c] + H[b]
    BY <1>2, <1>4, <1>d, <1>h, <1>k, <1>p
  <2>3. t.color[w] = 1 /\ t.color[c] = 0
    BY <1>y, <1>z, <1>a
  <2> HIDE DEF d, a
  <2> QED
    BY <2>1, <2>2, <2>3, <1>8
<1>10. /\ H2 \in [Node -> Nat \ {0}] /\ H2[nil] = 1 /\ H2[w] = H[c] /\ H2[c] = H[w]
       /\ \A k \in Node : k # c /\ k # w => H2[k] = H[k]
  BY <1>1, <1>4, <1>e, <1>f DEF Node
<1> HIDE DEF H2
<1>11. /\ u.child[w][s] = b /\ u.child[w][o] = d /\ u.child[c][o] = w /\ u.child[c][s] = a
  BY <1>7, <1>2, <1>4, <1>d, <1>e, <1>k, <1>n
<1> HIDE DEF d, a
<1>12. u.color[w] = 0 /\ u.color[c] = 1 /\ u.color[b] = 1 /\ u.color[z] = 1
  BY <1>2, <1>4, <1>5, <1>6, <1>a, <1>c, <1>d, <1>e, <1>m
<1>13. ASSUME NEW k \in T, NEW r \in Side
       PROVE  t.child[k][r] = w => k = p /\ r = o
  <2>1. t.child[k][r] # nil => t.parent[t.child[k][r]] = k /\ t.child[k][r] # t.child[k][Opposite(r)]
    BY ShapeChild
  <2> QED
    BY <2>1, <1>d, <1>e, <1>k, <1>y, OtherSide
<1>14. ASSUME NEW k \in T, NEW r \in Side, k # w, k # c
       PROVE  /\ u.child[k][r] = (IF t.child[k][r] = w THEN c ELSE t.child[k][r])
              /\ t.child[k][r] # c
  <2>1. t.child[k][r] = c => t.parent[c] = k
    BY <1>1, ShapeChild
  <2> QED
    BY <2>1, <1>2, <1>13, <1>14, <1>j, <1>n
<1>15. ASSUME NEW k \in T, NEW r \in Side
       PROVE  /\ k = p /\ r = s => H2[k] = u.color[k] + H2[u.child[k][r]] + 1
              /\ k # p \/ r # s => H2[k] = u.color[k] + H2[u.child[k][r]]
  <2>1. CASE k = w
    <3>1. H2[b] = H[b] /\ H2[d] = H[d]
      BY <1>5, <1>6, <1>7, <1>10
    <3>2. H2[w] = 0 + H2[b] /\ H2[w] = 0 + H2[d]
      BY <3>1, <1>8, <1>9, <1>10
    <3>3. CASE r = s
      BY <2>1, <3>2, <3>3, <1>11, <1>12, <1>e
    <3>4. CASE r = o
      BY <2>1, <3>2, <3>4, <1>11, <1>12, <1>e
    <3> QED
      BY <3>3, <3>4, <1>d, OtherSide
  <2>2. CASE k = c
    <3>1. H2[a] = H[a]
      BY <1>5, <1>6, <1>10
    <3>2. H2[c] = 1 + H2[w] /\ H2[c] = 1 + H2[a]
      BY <3>1, <1>8, <1>9, <1>10
    <3>3. CASE r = s
      BY <2>2, <3>2, <3>3, <1>4, <1>11, <1>12
    <3>4. CASE r = o
      BY <2>2, <3>2, <3>4, <1>4, <1>11, <1>12
    <3> QED
      BY <3>3, <3>4, <1>d, OtherSide
  <2>3. CASE k # w /\ k # c
    <3> DEFINE f == t.child[k][r]
    <3>1. f \in Node /\ k \in Node /\ t.color[k] \in {0, 1}
      BY <1>j
    <3>2. H2[u.child[k][r]] = H[f]
      BY <2>3, <3>1, <1>10, <1>14
    <3>3. H2[k] = H[k] /\ u.color[k] = t.color[k]
      BY <2>3, <3>1, <1>10, <1>m
    <3>4. CASE k # p
      <4>1. H[k] = t.color[k] + H[f]
        BY <3>4, <1>h
      <4> QED
        BY <3>2, <3>3, <3>4, <4>1
    <3>5. CASE k = p
      <4>1. H[p] = t.color[p] + H[z] + 1 /\ H[p] = t.color[p] + H[w]
        BY <3>1, <3>5, <1>8, <1>g
      <4>2. r = s => f = z
        BY <3>5, <1>b
      <4>3. r # s => f = w
        BY <3>5, <1>d, <1>y, OtherSide
      <4> HIDE DEF f
      <4> QED
        BY <3>2, <3>3, <3>5, <4>1, <4>2, <4>3
    <3> QED
      BY <3>4, <3>5
  <2> QED
    BY <2>1, <2>2, <2>3
<1>16. Heights(u, T, H2, p, s)
  <2> HIDE DEF T
  <2> QED
    BY <1>10, <1>15, <1>f, <1>l, GapFrom
<1>17. ASSUME NEW k \in T, NEW r \in Side, u.color[k] = BST_RED
       PROVE  u.color[u.child[k][r]] = BST_BLACK
  <2>1. k # c
    BY <1>12, <1>17, <1>a
  <2>2. CASE k = w
    <3>1. u.color[d] = 1
      BY <1>5, <1>7, <1>a, <1>m, <1>z DEF d
    <3> QED
      BY <2>2, <3>1, <1>11, <1>12, <1>a, <1>d, OtherSide
  <2>3. CASE k # w
    <3>1. t.color[k] = BST_RED /\ t.child[k][r] \in Node
      BY <2>1, <2>3, <1>17, <1>j, <1>m
    <3>2. t.color[t.child[k][r]] = BST_BLACK
      BY <3>1, <1>i
    <3>3. /\ u.child[k][r] = (IF t.child[k][r] = w THEN c ELSE t.child[k][r])
          /\ t.child[k][r] # c
      BY <2>1, <2>3, <1>14
    <3> QED
      BY <3>1, <3>2, <3>3, <1>12, <1>a, <1>m
  <2> QED
    BY <2>2, <2>3
<1>18. RedApart(u, T, z, z)
  BY <1>17 DEF RedApart
<1>19. u.child[p][s] = z /\ u.child[p][o] = c
  BY <1>y, <1>4, <1>b, <1>d, <1>e, <1>k, <1>n
<1>20. u.parent[z] = p
  <2>1. z = b => b = nil
    BY <1>6, <1>4, <1>b
  <2> QED
    BY <2>1, <1>4, <1>b, <1>d, <1>e, <1>o
<1>21. u.color[z] = BST_BLACK /\ u.color[u.root] = BST_BLACK /\ u.color[nil] = BST_BLACK
  <2>1. nil \in Node /\ t.root \in Node
    BY DEF Node, Tree
  <2>2. u.color[nil] = BST_BLACK
    BY <2>1, <1>1, <1>c, <1>e, <1>m
  <2>3. u.color[u.root] = BST_BLACK
    BY <2>1, <1>c, <1>e, <1>l, <1>m
  <2> QED
    BY <2>2, <2>3, <1>12, <1>a
<1>22. Missing(u, W, H2, z, p, s)
  <2>1. W[u.root] = T
    OBVIOUS
  <2> HIDE DEF T
  <2> QED
    BY <2>1, <1>16, <1>18, <1>19, <1>20, <1>21, <1>b, <1>d, <1>l DEF Missing
<1>23. QED
  BY <1>11, <1>12, <1>19, <1>22, <1>a

\* The black sibling w of the child of p on side s has a red child f on the other side.
FarRed(t, p, s, w, f) ==
    /\ w = t.child[p][Opposite(s)] /\ t.color[w] = BST_BLACK
    /\ f = t.child[w][Opposite(s)] /\ t.color[f] = BST_RED

\* u is t with w in the colour of p, and p and f black.
Handed(u, t, p, w, f) ==
    /\ u \in Tree /\ u.root = t.root /\ u.child = t.child /\ u.parent = t.parent
    /\ u.failed = t.failed
    /\ \A k \in Node : u.color[k] = IF k = w THEN t.color[p]
                                    ELSE IF k = p \/ k = f THEN BST_BLACK ELSE t.color[k]

\* The last rotation of bst_fixup_delete fills the gap.
LEMMA FarRedColors ==
    ASSUME NEW t \in Tree, NEW U, Shape(t, U), NEW H, NEW z, NEW p, NEW s, Missing(t, U, H, z, p, s),
           NEW w, NEW f, FarRed(t, p, s, w, f),
           NEW v, Handed(v, t, p, w, f),
           NEW b, NEW g, RotateNodes(v, U, s, p, w, b, g),
           NEW u, Rotated(u, v, s, p, w, b, g)
    PROVE  \E H2 : Balanced(u, U[t.root], H2) /\ u.color[nil] = BST_BLACK
<1> DEFINE T == U[t.root]
           o == Opposite(s)
<1>y. w = t.child[p][o] /\ t.color[w] = BST_BLACK
  BY DEF FarRed
<1>z. f = t.child[w][o] /\ t.color[f] = BST_RED
  BY DEF FarRed
<1>a. BST_RED = 0 /\ BST_BLACK = 1
  BY DEF BST_RED, BST_BLACK
<1>b. z = t.child[p][s] /\ p = t.parent[z] /\ z # t.root
  BY DEF Missing
<1>c. t.color[z] = BST_BLACK /\ t.color[t.root] = BST_BLACK /\ t.color[nil] = BST_BLACK
  BY DEF Missing
<1>d. p \in T /\ p \in Node /\ p # nil /\ s \in Side /\ z \in Node /\ z # p
  BY <1>y, MissingNodes
<1>e. w \in T /\ w \in Node /\ w # nil /\ w # z /\ w # p /\ w # t.root /\ t.parent[w] = p
  BY <1>y, MissingNodes
<1>f. H \in [Node -> Nat \ {0}] /\ H[nil] = 1 /\ T \subseteq Nodes
  BY <1>y, MissingNodes
<1>g. H[w] = H[z] + 1 /\ H[p] = t.color[p] + H[w]
  BY <1>y, MissingNodes
<1>h. \A k \in T : \A r \in Side : k # p => H[k] = t.color[k] + H[t.child[k][r]]
  BY <1>y, MissingNodes
<1>i. \A k \in T : \A r \in Side : t.color[k] = BST_RED => t.color[t.child[k][r]] = BST_BLACK
  BY <1>y, MissingNodes
<1>j. \A k \in T : \A r \in Side : t.child[k][r] \in Node /\ k \in Node /\ t.color[k] \in {0, 1}
  BY <1>y, MissingNodes
<1>k. o \in Side /\ o # s /\ Opposite(o) = s
  BY <1>d, OtherSide
<1>l. u \in Tree /\ u.root = IF p = t.root THEN w ELSE t.root
  BY DEF Rotated, Handed
<1>m. \A k \in Node : u.color[k] = IF k = w THEN t.color[p]
                                   ELSE IF k = p \/ k = f THEN BST_BLACK ELSE t.color[k]
  BY DEF Rotated, Handed
<1>n. \A k \in Node : \A r \in Side :
             u.child[k][r] = IF k = p /\ r = o THEN b
                             ELSE IF k = w /\ r = s THEN p
                             ELSE IF k = g /\ g # nil /\ t.child[k][r] = p THEN w
                             ELSE t.child[k][r]
  BY DEF Rotated, Handed
<1>p. b = t.child[w][s] /\ g = t.parent[p]
  BY DEF RotateNodes, Handed
<1> DEFINE H2 == [H EXCEPT ![w] = H[p], ![p] = H[w], ![f] = H[w]]
<1>1. f # nil
  <2>1. t.color[f] # t.color[nil]
    BY <1>z, <1>a, <1>c
  <2> QED
    BY <2>1
<1>2. f \in T /\ t.parent[f] = w /\ f \in U[w] /\ f # w
  BY <1>z, <1>1, <1>e, <1>k, ShapeChild
<1>3. p \notin U[w]
  BY <1>y, <1>d, <1>e, <1>k, ShapeChild
<1>4. f # p /\ f \in Node /\ f # z
  <2>1. f # p
    BY <1>2, <1>3
  <2>2. f # z
    BY <1>2, <1>b, <1>e
  <2> QED
    BY <2>1, <2>2, <1>2, ShapeNode
<1>5. b \in Node /\ b # f
  <2>1. b \in Node
    BY <1>d, <1>e, <1>j, <1>p
  <2>2. f # t.child[w][Opposite(o)]
    BY <1>z, <1>1, <1>e, <1>k, ShapeChild
  <2> QED
    BY <2>1, <2>2, <1>k, <1>p
<1>6. b # p /\ b # w
  <2>1. b # nil => b \in U[w] /\ b # w
    BY <1>d, <1>e, <1>p, ShapeChild
  <2> QED
    BY <2>1, <1>3, <1>d, <1>e
<1>7. /\ H[w] \in Nat /\ H[z] \in Nat /\ H[b] \in Nat /\ H[f] \in Nat /\ H[p] \in Nat
      /\ t.color[p] \in {0, 1}
  BY <1>4, <1>5, <1>d, <1>e, <1>f, <1>j
<1>8. H[w] = 1 + H[f] /\ H[w] = 1 + H[b]
  <2>1. H[w] = t.color[w] + H[f] /\ H[w] = t.color[w] + H[b]
    BY <1>d, <1>e, <1>h, <1>k, <1>p, <1>z
  <2>2. t.color[w] = 1
    BY <1>a, <1>y
  <2> QED
    BY <2>1, <2>2
<1>9. /\ H2 \in [Node -> Nat \ {0}] /\ H2[nil] = 1 /\ H2[w] = H[p] /\ H2[p] = H[w] /\ H2[f] = H[w]
      /\ \A k \in Node : k # p /\ k # w /\ k # f => H2[k] = H[k]
  BY <1>1, <1>2, <1>4, <1>d, <1>e, <1>f DEF Node
<1> HIDE DEF H2
<1>10. u.child[p][s] = z /\ u.child[p][o] = b /\ u.child[w][s] = p /\ u.child[w][o] = f
  BY <1>4, <1>b, <1>d, <1>e, <1>k, <1>n, <1>z
<1>11. u.color[p] = 1 /\ u.color[w] = t.color[p] /\ u.color[f] = 1
  BY <1>2, <1>4, <1>a, <1>d, <1>e, <1>m
<1>12. ASSUME NEW k \in T, NEW r \in Side
       PROVE  /\ t.child[k][r] = w => k = p /\ r = o
              /\ t.child[k][r] = f => k = w
              /\ t.child[k][r] = p => k = g /\ g # nil
  <2>1. t.child[k][r] # nil => t.parent[t.child[k][r]] = k /\ t.child[k][r] # t.child[k][Opposite(r)]
    BY ShapeChild
  <2>2. k # nil
    BY ShapeNode
  <2>3. t.child[k][r] = w => k = p /\ r = o
    BY <2>1, <1>d, <1>e, <1>k, <1>y, OtherSide
  <2>4. t.child[k][r] = f => k = w
    BY <2>1, <1>1, <1>2
  <2>5. t.child[k][r] = p => k = g /\ g # nil
    BY <2>1, <2>2, <1>d, <1>p
  <2> QED
    BY <2>3, <2>4, <2>5
<1>13. ASSUME NEW k \in T, NEW r \in Side, k # p, k # w
       PROVE  /\ u.child[k][r] = (IF t.child[k][r] = p THEN w ELSE t.child[k][r])
              /\ t.child[k][r] # w /\ t.child[k][r] # f
  BY <1>12, <1>13, <1>j, <1>n
<1>14. ASSUME NEW k \in T, NEW r \in Side
       PROVE  H2[k] = u.color[k] + H2[u.child[k][r]]
  <2>1. CASE k = p
    <3>1. H2[z] = H[z] /\ H2[b] = H[b]
      BY <1>4, <1>5, <1>6, <1>9, <1>d, <1>e
    <3>2. H2[p] = 1 + H2[z] /\ H2[p] = 1 + H2[b]
      BY <3>1, <1>7, <1>8, <1>9, <1>g
    <3>3. CASE r = s
      BY <2>1, <3>2, <3>3, <1>10, <1>11
    <3>4. CASE r = o
      BY <2>1, <3>2, <3>4, <1>10, <1>11
    <3> QED
      BY <3>3, <3>4, <1>d, OtherSide
  <2>2. CASE k = w
    <3>1. H2[w] = t.color[p] + H2[p] /\ H2[w] = t.color[p] + H2[f]
      BY <1>9, <1>g
    <3>3. CASE r = s
      BY <2>2, <3>1, <3>3, <1>10, <1>11
    <3>4. CASE r = o
      BY <2>2, <3>1, <3>4, <1>10, <1>11
    <3> QED
      BY <3>3, <3>4, <1>d, OtherSide
  <2>3. CASE k # p /\ k # w
    <3> DEFINE c == t.child[k][r]
    <3>1. c \in Node /\ k \in Node /\ t.color[k] \in {0, 1} /\ H[k] = t.color[k] + H[c]
      BY <2>3, <1>h, <1>j
    <3>2. u.child[k][r] = (IF c = p THEN w ELSE c) /\ c # w /\ c # f
      BY <2>3, <1>13
    <3>3. H2[u.child[k][r]] = H[c] /\ H[c] \in Nat
      BY <3>1, <3>2, <1>9, <1>f
    <3>4. CASE k = f
      <4>1. t.color[k] = 0 /\ u.color[k] = 1
        BY <3>4, <1>11, <1>a, <1>z
      <4>2. H2[k] = H[w] /\ H[w] = 1 + H[k]
        BY <3>4, <1>8, <1>9
      <4> HIDE DEF c
      <4>3. H2[k] = 1 + H[c]
        BY <3>1, <3>3, <4>1, <4>2
      <4> QED
        BY <3>3, <4>1, <4>3
    <3>5. CASE k # f
      <4>1. H2[k] = H[k] /\ u.color[k] = t.color[k]
        BY <2>3, <3>1, <3>5, <1>9, <1>m
      <4> HIDE DEF c
      <4> QED
        BY <3>1, <3>3, <4>1
    <3> QED
      BY <3>4, <3>5
  <2> QED
    BY <2>1, <2>2, <2>3
<1>15. Heights(u, T, H2, nil, "left")
  <2> HIDE DEF T
  <2> QED
    BY <1>9, <1>14, <1>f, <1>l, HeightsFrom
<1>16. ASSUME NEW k \in T, NEW r \in Side, u.color[k] = BST_RED
       PROVE  u.color[u.child[k][r]] = BST_BLACK
  <2>1. k # p /\ k # f
    BY <1>11, <1>16, <1>a
  <2>2. CASE k = w
    BY <2>2, <1>10, <1>11, <1>a, <1>d, OtherSide
  <2>3. CASE k # w
    <3>1. t.color[k] = BST_RED /\ t.child[k][r] \in Node
      BY <2>1, <2>3, <1>16, <1>j, <1>m
    <3>2. t.color[t.child[k][r]] = BST_BLACK
      BY <3>1, <1>i
    <3>3. /\ u.child[k][r] = (IF t.child[k][r] = p THEN w ELSE t.child[k][r])
          /\ t.child[k][r] # w /\ t.child[k][r] # f
      BY <2>1, <2>3, <1>13
    <3>4. CASE t.child[k][r] = p
      BY <3>2, <3>3, <3>4, <1>11
    <3>5. CASE t.child[k][r] # p
      BY <3>1, <3>2, <3>3, <3>5, <1>m
    <3> QED
      BY <3>4, <3>5
  <2> QED
    BY <2>2, <2>3
<1>17. RedApart(u, T, nil, nil)
  BY <1>16 DEF RedApart
<1>18. u.color[u.root] = BST_BLACK /\ u.color[nil] = BST_BLACK
  <2>1. nil \in Node /\ t.root \in Node
    BY DEF Node, Tree
  <2>2. u.color[nil] = BST_BLACK
    BY <2>1, <1>1, <1>c, <1>d, <1>e, <1>m
  <2>3. u.color[u.root] = BST_BLACK
    BY <2>1, <1>11, <1>c, <1>e, <1>l, <1>m
  <2> QED
    BY <2>2, <2>3
<1>19. QED
  BY <1>15, <1>17, <1>18 DEF Balanced
=============================================================================
