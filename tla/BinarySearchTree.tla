------------------------- MODULE BinarySearchTree -------------------------
(***************************************************************************)
(* The red-black tree of src/src/binary_search_tree.c on top of the free   *)
(* list of src/src/free_list.c.                                            *)
(*                                                                         *)
(* A call of the interface (puts, takes, get_largest, get_smallest) is a   *)
(* sequence of steps: the code up to its first loop, one step for every    *)
(* iteration of a loop, and the code behind the loop.  pc says where the   *)
(* call is; only one call runs at a time, the tree has no lock.            *)
(*                                                                         *)
(* The two mirror images the code writes out (left/right, smallest/        *)
(* largest) are one definition with a side as its parameter.  A value is   *)
(* abstracted to the key that cmp finds in it.  The asserts of the source  *)
(* do not stop the model: tree.failed collects those of Asserts that fail, *)
(* and a build without NDEBUG aborts at the first of them.  One does fail: *)
(* assert(node == tree->root) when the last node is removed.               *)
(***************************************************************************)
EXTENDS Integers, Sequences, FiniteSets

CONSTANTS
    Nodes,          \* the nodes of the component given to jfs_bst_init
    nil,            \* &tree->nil_storage, the sentinel
    NULL,           \* the null pointer
    Keys,           \* the keys callers use
    CmpMagnitudes   \* how far from 0 the caller's cmp answers

ASSUME NodesAssumption ==
    IsFiniteSet(Nodes) /\ nil \notin Nodes /\ NULL \notin Nodes \cup {nil}
ASSUME KeysAssumption  == Keys \subseteq Int /\ NULL \notin Keys
ASSUME CmpAssumption   == CmpMagnitudes \subseteq Nat \ {0} /\ 1 \in CmpMagnitudes

VARIABLES
    tree,       \* root, links, colours, and the asserts that have failed
    value,      \* the key of the value packed into each node
    list,       \* the values attached behind a value with an equal key
    cache,      \* tree->cache
    free,       \* tree->free_list, its head first
    pc,         \* where the running call is
    op,         \* the running call: function, key, node it works on
    loc,        \* bst_location_t of bst_find
    x,          \* the loop variable: node of the fixups, start of the minimum
    ret         \* what the last call returned

vars == <<tree, value, list, cache, free, pc, op, loc, x, ret>>

Node == Nodes \cup {nil}
Side == {"left", "right"}
Opposite(s) == IF s = "left" THEN "right" ELSE "left"

BST_RED   == 0
BST_BLACK == 1

NoOp  == [fn |-> "none", key |-> NULL, node |-> nil]
NoLoc == [node |-> nil, parent |-> nil, parent_cmp |-> 0]
NoRet == [err |-> "none", out |-> NULL]

-----------------------------------------------------------------------------
(* Operators on the tree *)

\* The asserts on the shape of the tree.  Those of lines 213, 223, 235 and 325-327
\* restate the guard or the assignment before them, the others exclude NULL.
Asserts == {"rotate", "transplant", "insert", "grandparent", "delete from empty",
            "extreme has no outer child", "last node is root"}

\* None but assert(node == tree->root) of bst_update_cache_delete is in failed.
OnlyLastNode(failed) == failed \subseteq {"last node is root"}

Failed(t, line) == [t EXCEPT !.failed = @ \cup {line}]
assert(t, line, holds) == IF holds THEN t ELSE Failed(t, line)

\* node->left = m or node->right = m, and the assignment to tree->root.
set_child(t, n, s, m) == [t EXCEPT !.child[n][s] = m]
set_root(t, n) == [t EXCEPT !.root = n]

bst_set_parent(t, n, p) == [t EXCEPT !.parent[n] = p]

\* Mutant: the root is never repainted.
bst_set_color_not_root(t, n, c) == IF n = t.root THEN t ELSE [t EXCEPT !.color[n] = c]

bst_set_color(t, n, c) == [t EXCEPT !.color[n] = c]

\* n without children, red, under p.
Leaf(t, n, p) ==
    bst_set_color(bst_set_parent(set_child(set_child(t, n, "left", nil), n, "right", nil),
                                 n, p),
                  n, BST_RED)

\* Mutant: the case of the root is missing.
ReplaceChild_no_root(t, p, old, new) ==
    [t EXCEPT !.child[p] = [s \in Side |-> IF @[s] = old THEN new ELSE @[s]]]

\* Makes new the child of p that old is, or the root if p is the sentinel.
ReplaceChild(t, p, old, new) ==
    IF p = nil THEN set_root(t, new)
    ELSE set_child(t, p, IF t.child[p]["left"] = old THEN "left" ELSE "right", new)

\* bst_rotate_left(n) for s = "left", bst_rotate_right(n) for s = "right".
bst_rotate(t, s, n) ==
    LET o  == Opposite(s)
        y  == t.child[n][o]
        b  == t.child[y][s]
        p  == t.parent[n]
        t1 == set_child(assert(t, "rotate", n # nil /\ y # nil), n, o, b)
        t2 == IF b # nil THEN bst_set_parent(t1, b, n) ELSE t1
        t3 == ReplaceChild(bst_set_parent(t2, y, p), p, n, y)
    IN  bst_set_parent(set_child(t3, y, s, n), n, y)

\* Mutants: the new child keeps its old parent, or loses it.
bst_transplant_orphan(t, old, new) == ReplaceChild(t, t.parent[old], old, new)
bst_transplant_null(t, old, new) ==
    bst_set_parent(ReplaceChild(t, t.parent[old], old, new), new, NULL)

bst_transplant(t, old, new) ==
    LET p  == t.parent[old]
        t0 == assert(t, "transplant", t.root # nil /\ old # new)
    IN  bst_set_parent(ReplaceChild(t0, p, old, new), new, p)

\* The field of the cache that holds the outermost node on side s.
Extreme(s) == IF s = "left" THEN "smallest" ELSE "largest"

(* The caller's cmp: only the sign of its answer is told by the keys. *)
cmp(key, v) ==
    IF key = v THEN {0}
    ELSE {IF key < v THEN -m ELSE m : m \in CmpMagnitudes}

\* Mutants: attach forgets the values already chained, detach does not unlink.
attach_drops(l, base, new) == [l EXCEPT ![base] = new]
detach_keeps(l, base) == [node |-> IF l[base] = NULL THEN base ELSE l[base], list |-> l]

(* The caller's attach and detach: values with equal keys are chained.     *)
(* The link is part of the caller's value, so packing a value clears it.   *)
attach(l, base, new) == [l EXCEPT ![new] = l[base], ![base] = new]
detach(l, base) ==
    IF l[base] = NULL THEN [node |-> base, list |-> l]
    ELSE [node |-> l[base], list |-> [l EXCEPT ![base] = l[l[base]]]]

bst_check_cache(val, key) ==
    LET hits(n) == n # nil /\ cmp(key, val[n]) = {0}
    IN  IF hits(cache.previous) THEN cache.previous
        ELSE IF hits(cache.largest) THEN cache.largest
        ELSE IF hits(cache.smallest) THEN cache.smallest
        ELSE nil

\* Mutant: only the first insert reaches the cache.
bst_update_cache_insert_first(t) ==
    IF cache.largest = nil THEN [cache EXCEPT !.largest = t.root, !.smallest = t.root] ELSE cache

bst_update_cache_insert(t) ==
    IF loc.parent_cmp = -1 /\ loc.parent = cache.smallest
    THEN [cache EXCEPT !.smallest = t.child[loc.parent]["left"]]
    ELSE IF loc.parent_cmp = 1 /\ loc.parent = cache.largest
    THEN [cache EXCEPT !.largest = t.child[loc.parent]["right"]]
    ELSE IF cache.largest = nil
    THEN [cache EXCEPT !.largest = t.root, !.smallest = t.root]
    ELSE cache

(* jfs_fl_free: the link of the free list overwrites parent_color; left,   *)
(* right and the link in the value are dead until the node is used again.  *)
(* The dead fields read as nil and NULL here.  The key stays readable.     *)
jfs_fl_free(t, l, n) ==
    /\ free' = <<n>> \o free
    /\ tree' = Leaf(t, n, nil)
    /\ list' = [l EXCEPT ![n] = NULL]

-----------------------------------------------------------------------------
(* Returning from a call *)

Return(err, out) ==
    /\ ret' = [err |-> err, out |-> out]
    /\ pc' = "idle"
    /\ op' = NoOp /\ loc' = NoLoc /\ x' = nil

-----------------------------------------------------------------------------
(* jfs_bst_init *)

Init ==
    /\ tree = [root   |-> nil,
               child  |-> [n \in Node |-> [s \in Side |-> nil]],
               parent |-> [n \in Node |-> nil],
               color  |-> [n \in Node |-> IF n = nil THEN BST_BLACK ELSE BST_RED],
               failed |-> {}]
    /\ value = [n \in Nodes |-> NULL]
    /\ list = [n \in Nodes |-> NULL]
    /\ cache = [smallest |-> nil, largest |-> nil, previous |-> nil]
    /\ free \in {f \in [1..Cardinality(Nodes) -> Nodes] :
                    \A i, j \in DOMAIN f : f[i] = f[j] => i = j}
    /\ pc = "idle" /\ op = NoOp /\ loc = NoLoc /\ x = nil /\ ret = NoRet

-----------------------------------------------------------------------------
(* bst_find *)

StartFind(fn, key, node) ==
    /\ pc' = "find"
    /\ op' = [fn |-> fn, key |-> key, node |-> node]
    /\ loc' = [node |-> tree.root, parent |-> nil, parent_cmp |-> 0]
    /\ ret' = NoRet
    /\ UNCHANGED <<x, cache, tree>>

bst_find_step ==
    /\ pc = "find" /\ loc.node # nil /\ op.key # value[loc.node]
    /\ \E c \in cmp(op.key, value[loc.node]) :
           loc' = [node |-> tree.child[loc.node][IF c < 0 THEN "left" ELSE "right"],
                   parent |-> loc.node,
                   parent_cmp |-> c]
    /\ UNCHANGED <<tree, value, list, cache, free, pc, op, x, ret>>

Found    == pc = "find" /\ loc.node # nil /\ op.key = value[loc.node]
NotFound == pc = "find" /\ loc.node = nil

-----------------------------------------------------------------------------
(* jfs_bst_puts *)

jfs_bst_puts(key) ==
    /\ pc = "idle"
    /\ IF free = <<>>
       THEN /\ Return("FULL", NULL)
            /\ UNCHANGED <<tree, value, list, cache, free>>
       ELSE LET node   == Head(free)
                packed == [value EXCEPT ![node] = key]
                fresh  == [list EXCEPT ![node] = NULL]
                cached == bst_check_cache(packed, key)
            IN  /\ free' = Tail(free)
                /\ value' = packed
                /\ IF cached # nil
                   THEN /\ list' = attach(fresh, cached, node)
                        /\ cache' = [cache EXCEPT !.previous = cached]
                        /\ Return("OK", NULL)
                        /\ UNCHANGED tree
                   ELSE /\ list' = fresh
                        /\ StartFind("puts", key, node)

puts_duplicate ==
    /\ Found /\ op.fn = "puts"
    /\ list' = attach(list, loc.node, op.node)
    /\ cache' = [cache EXCEPT !.previous = op.node]
    /\ Return("OK", NULL)
    /\ UNCHANGED <<tree, value, free>>

bst_insert ==
    /\ NotFound /\ op.fn = "puts"
    /\ LET s  == IF loc.parent_cmp = -1 THEN "left" ELSE "right"
           t1 == Leaf(tree, op.node, loc.parent)
       IN  tree' = IF loc.parent = nil
                   THEN set_root(assert(t1, "insert", t1.root = nil), op.node)
                   ELSE set_child(t1, loc.parent, s, op.node)
    /\ x' = op.node
    /\ pc' = "fixup_insert"
    /\ UNCHANGED <<value, list, cache, free, op, loc, ret>>

Parent == tree.parent[x]
Grandparent == tree.parent[Parent]
ParentSide == IF Parent = tree.child[Grandparent]["left"] THEN "left" ELSE "right"
Uncle == tree.child[Grandparent][Opposite(ParentSide)]
InsertLoop == pc = "fixup_insert" /\ tree.color[Parent] = BST_RED

bst_fixup_insert_recolor ==
    /\ InsertLoop /\ tree.color[Uncle] = BST_RED
    /\ LET t0 == assert(tree, "grandparent", Grandparent # nil)
           t1 == bst_set_color(bst_set_color(t0, Parent, BST_BLACK), Uncle, BST_BLACK)
       IN  tree' = bst_set_color(t1, Grandparent, BST_RED)
    /\ x' = Grandparent
    /\ UNCHANGED <<value, list, cache, free, pc, op, loc, ret>>

bst_fixup_insert_rotate ==
    /\ InsertLoop /\ tree.color[Uncle] = BST_BLACK
    /\ LET s     == ParentSide
           inner == x = tree.child[Parent][Opposite(s)]
           t0    == assert(tree, "grandparent", Grandparent # nil)
           t1    == IF inner THEN bst_rotate(t0, s, Parent) ELSE t0
           n     == IF inner THEN Parent ELSE x
           t2    == bst_set_color(bst_set_color(t1, t1.parent[n], BST_BLACK),
                                  Grandparent, BST_RED)
       IN  /\ tree' = bst_rotate(t2, Opposite(s), Grandparent)
           /\ x' = n
    /\ pc' = "insert_done"
    /\ UNCHANGED <<value, list, cache, free, op, loc, ret>>

puts_done ==
    /\ \/ pc = "insert_done"
       \/ pc = "fixup_insert" /\ tree.color[Parent] = BST_BLACK
    /\ tree' = bst_set_color(tree, tree.root, BST_BLACK)
    /\ cache' = [bst_update_cache_insert(tree') EXCEPT !.previous = op.node]
    /\ Return("OK", NULL)
    /\ UNCHANGED <<value, list, free>>

-----------------------------------------------------------------------------
(* bst_delete *)

\* Mutant: the fixup runs for the wrong colour.
AfterDelete_red(color) == IF color = BST_RED THEN "fixup_delete" ELSE "update_cache"

AfterDelete(color) == IF color = BST_BLACK THEN "fixup_delete" ELSE "update_cache"

bst_delete(n, t) ==
    IF t.child[n]["left"] = nil \/ t.child[n]["right"] = nil
    THEN LET r == IF t.child[n]["left"] = nil THEN t.child[n]["right"]
                                              ELSE t.child[n]["left"]
         IN  /\ tree' = bst_transplant(t, n, r)
             /\ x' = r
             /\ pc' = AfterDelete(t.color[n])
    ELSE /\ tree' = t
         /\ x' = t.child[n]["right"]
         /\ pc' = "successor"

\* Mutant: the loop does not advance.
bst_delete_minimum_step_stuck ==
    pc = "successor" /\ tree.child[x]["left"] # nil /\ UNCHANGED vars

bst_delete_minimum_step ==
    /\ pc = "successor" /\ tree.child[x]["left"] # nil
    /\ x' = tree.child[x]["left"]
    /\ UNCHANGED <<tree, value, list, cache, free, pc, op, loc, ret>>

bst_delete_splice ==
    /\ pc = "successor" /\ tree.child[x]["left"] = nil
    /\ LET n  == op.node
           r  == tree.child[x]["right"]
           t1 == IF x # tree.child[n]["right"]
                 THEN bst_transplant(tree, x, r) ELSE bst_set_parent(tree, r, x)
           t2 == IF x # tree.child[n]["right"]
                 THEN bst_set_parent(set_child(t1, x, "right", t1.child[n]["right"]),
                                     t1.child[n]["right"], x)
                 ELSE t1
           t3 == bst_transplant(t2, n, x)
           t4 == bst_set_parent(set_child(t3, x, "left", t3.child[n]["left"]),
                                t3.child[n]["left"], x)
       IN  /\ tree' = bst_set_color(t4, x, t4.color[n])
           /\ x' = r
           /\ pc' = AfterDelete(tree.color[x])
    /\ UNCHANGED <<value, list, cache, free, op, loc, ret>>

DeleteLoop == pc = "fixup_delete" /\ x # tree.root /\ tree.color[x] = BST_BLACK
NodeSide == IF x = tree.child[Parent]["left"] THEN "left" ELSE "right"

\* Mutant: the case of a red sibling is missing.
BlackSibling_missing == tree

\* The tree once a red sibling of x has been rotated above their parent.
BlackSibling ==
    LET w == tree.child[Parent][Opposite(NodeSide)]
    IN  IF tree.color[w] = BST_RED
        THEN bst_rotate(bst_set_color(bst_set_color(tree, w, BST_BLACK), Parent, BST_RED),
                        NodeSide, Parent)
        ELSE tree

bst_fixup_delete_recolor ==
    /\ DeleteLoop
    /\ LET t1 == BlackSibling
           w  == t1.child[Parent][Opposite(NodeSide)]
       IN  /\ \A s \in Side : t1.color[t1.child[w][s]] = BST_BLACK
           /\ tree' = bst_set_color(t1, w, BST_RED)
    /\ x' = Parent
    /\ UNCHANGED <<value, list, cache, free, pc, op, loc, ret>>

bst_fixup_delete_rotate ==
    /\ DeleteLoop
    /\ LET s  == NodeSide
           o  == Opposite(s)
           t1 == BlackSibling
           w1 == t1.child[Parent][o]
           t2 == IF t1.color[t1.child[w1][o]] = BST_BLACK
                 THEN bst_rotate(bst_set_color(bst_set_color(t1, t1.child[w1][s], BST_BLACK),
                                               w1, BST_RED), o, w1)
                 ELSE t1
           w2 == t2.child[Parent][o]
           t3 == bst_set_color(bst_set_color(t2, w2, t2.color[Parent]), Parent, BST_BLACK)
           t4 == bst_set_color(t3, t3.child[w2][o], BST_BLACK)
       IN  /\ \E d \in Side : t1.color[t1.child[w1][d]] # BST_BLACK
           /\ tree' = bst_rotate(t4, s, Parent)
    /\ x' = tree'.root
    /\ UNCHANGED <<value, list, cache, free, pc, op, loc, ret>>

bst_fixup_delete_done ==
    /\ pc = "fixup_delete" /\ (x = tree.root \/ tree.color[x] = BST_RED)
    /\ tree' = bst_set_color(tree, x, BST_BLACK)
    /\ pc' = "update_cache"
    /\ UNCHANGED <<value, list, cache, free, op, loc, x, ret>>

-----------------------------------------------------------------------------
(* bst_detach_and_delete, bst_update_cache_delete *)

bst_detach_and_delete(fn, key, node) ==
    LET t == assert(tree, "delete from empty", tree.root # nil)
        d == detach(list, node)
    IN  /\ UNCHANGED <<value, cache>>
        /\ IF d.node = node
           THEN /\ bst_delete(node, t)
                /\ op' = [fn |-> fn, key |-> key, node |-> node]
                /\ ret' = [err |-> "none", out |-> value[node]]
                /\ loc' = NoLoc
                /\ UNCHANGED <<list, free>>
           ELSE /\ jfs_fl_free(t, d.list, d.node)
                /\ Return("OK", value[d.node])

\* Mutant: the replacement is freed instead of the node it replaces.
FreeAndReturn_replacement(t) == jfs_fl_free(t, list, x) /\ Return("OK", ret.out)

\* The end of a call that removed op.node from the tree.
FreeAndReturn(t) ==
    /\ jfs_fl_free(t, list, op.node)
    /\ Return("OK", ret.out)

OnlyOne == cache.smallest = cache.largest

update_cache_last ==
    /\ pc = "update_cache" /\ OnlyOne
    /\ cache' = [cache EXCEPT !.smallest = nil, !.largest = nil]
    /\ FreeAndReturn(assert(tree, "last node is root", op.node = tree.root))
    /\ UNCHANGED value

\* The removed node was the outermost one on side s.
RemovedExtreme(s) ==
    pc = "update_cache" /\ ~OnlyOne /\ op.node = cache[Extreme(s)]

update_cache_descend(s) ==
    /\ RemovedExtreme(s) /\ tree.child[op.node][Opposite(s)] # nil
    /\ tree' = assert(tree, "extreme has no outer child", tree.child[op.node][s] = nil)
    /\ x' = tree.child[op.node][Opposite(s)]
    /\ pc' = Extreme(s)
    /\ UNCHANGED <<value, list, cache, free, op, loc, ret>>

update_cache_parent(s) ==
    /\ RemovedExtreme(s) /\ tree.child[op.node][Opposite(s)] = nil
    /\ cache' = [cache EXCEPT ![Extreme(s)] = tree.parent[op.node]]
    /\ FreeAndReturn(assert(tree, "extreme has no outer child", tree.child[op.node][s] = nil))
    /\ UNCHANGED value

\* bst_local_minimum and bst_local_maximum, an iteration or the end.
update_cache_walk(s) ==
    /\ pc = Extreme(s)
    /\ IF tree.child[x][s] # nil
       THEN /\ x' = tree.child[x][s]
            /\ UNCHANGED <<tree, list, cache, free, pc, op, loc, ret>>
       ELSE /\ cache' = [cache EXCEPT ![Extreme(s)] = x]
            /\ FreeAndReturn(tree)
    /\ UNCHANGED value

update_cache_inner ==
    /\ pc = "update_cache" /\ ~OnlyOne
    /\ op.node \notin {cache.smallest, cache.largest}
    /\ FreeAndReturn(tree)
    /\ UNCHANGED <<value, cache>>

-----------------------------------------------------------------------------
(* jfs_bst_takes, jfs_bst_get_largest, jfs_bst_get_smallest *)

jfs_bst_takes(key) ==
    /\ pc = "idle"
    /\ IF tree.root = nil
       THEN Return("EMPTY", NULL) /\ UNCHANGED <<tree, cache>>
       ELSE LET cached == bst_check_cache(value, key)
            IN  IF cached # nil
                THEN Return("OK", value[cached]) /\ UNCHANGED <<tree, cache>>
                ELSE StartFind("takes", key, nil)
    /\ UNCHANGED <<value, list, free>>

\* Mutant: the parent of the location is tested instead of its node.
takes_bad_key_parent ==
    /\ Found \/ NotFound
    /\ op.fn = "takes" /\ loc.parent = nil
    /\ Return("BAD_KEY", NULL)
    /\ UNCHANGED <<tree, value, list, cache, free>>

takes_bad_key ==
    /\ NotFound /\ op.fn = "takes"
    /\ Return("BAD_KEY", NULL)
    /\ UNCHANGED <<tree, value, list, cache, free>>

takes_found ==
    /\ Found /\ op.fn = "takes"
    /\ bst_detach_and_delete("takes", op.key, loc.node)

\* jfs_bst_get_smallest for s = "left", jfs_bst_get_largest for s = "right".
jfs_bst_get(s) ==
    /\ pc = "idle"
    /\ IF cache[Extreme(s)] = nil
       THEN /\ Return("EMPTY", NULL)
            /\ UNCHANGED <<tree, value, list, cache, free>>
       ELSE bst_detach_and_delete("get", NULL, cache[Extreme(s)])

-----------------------------------------------------------------------------
Call ==
    \/ \E k \in Keys : jfs_bst_puts(k) \/ jfs_bst_takes(k)
    \/ \E s \in Side : jfs_bst_get(s)

Step ==
    \/ bst_find_step
    \/ puts_duplicate
    \/ bst_insert
    \/ bst_fixup_insert_recolor
    \/ bst_fixup_insert_rotate
    \/ puts_done
    \/ takes_bad_key
    \/ takes_found
    \/ bst_delete_minimum_step
    \/ bst_delete_splice
    \/ bst_fixup_delete_recolor
    \/ bst_fixup_delete_rotate
    \/ bst_fixup_delete_done
    \/ update_cache_last
    \/ update_cache_inner
    \/ \E s \in Side :
           \/ update_cache_descend(s)
           \/ update_cache_parent(s)
           \/ update_cache_walk(s)

Next == Call \/ Step

Spec == Init /\ [][Next]_vars

-----------------------------------------------------------------------------
(* What the tree holds *)

\* n and everything linked below it.
Below(n) ==
    LET down[i \in 0..Cardinality(Nodes)] ==
            IF i = 0 THEN {n} \ {nil}
            ELSE LET above == down[i-1]
                 IN  above \cup ({tree.child[m][s] : m \in above, s \in Side} \ {nil})
    IN  down[Cardinality(Nodes)]

InTree == Below(tree.root)

\* Everything attached behind n, directly or not.
Behind(n) ==
    LET chain[i \in 0..Cardinality(Nodes)] ==
            IF i = 0 THEN {list[n]} \ {NULL}
            ELSE LET before == chain[i-1]
                 IN  before \cup ({list[m] : m \in before} \ {NULL})
    IN  chain[Cardinality(Nodes)]

Chained == UNION {Behind(n) : n \in InTree}
Stored  == InTree \cup Chained
OnFreeList == {free[i] : i \in DOMAIN free}

-----------------------------------------------------------------------------
(* Properties *)

Tree == [root: Node, child: [Node -> [Side -> Node]], parent: [Node -> Node],
         color: [Node -> {BST_RED, BST_BLACK}], failed: SUBSET Asserts]

Cache == [smallest: Node, largest: Node, previous: Node]
Lists == [Nodes -> Nodes \cup {NULL}]
Op    == [fn: {"none", "puts", "takes", "get"}, key: Keys \cup {NULL}, node: Node]
Loc   == [node: Node, parent: Node, parent_cmp: Int]
Ret   == [err: {"none", "OK", "FULL", "EMPTY", "BAD_KEY"}, out: Keys \cup {NULL}]
Places == {"idle", "find", "fixup_insert", "insert_done", "successor", "fixup_delete",
           "update_cache", "smallest", "largest"}

\* Every variable stays within its type: no link ever leads outside the nodes
\* of the component and the sentinel.
TypeOK ==
    /\ tree \in Tree
    /\ value \in [Nodes -> Keys \cup {NULL}]
    /\ list \in Lists
    /\ cache \in Cache
    /\ free \in Seq(Nodes)
    /\ pc \in Places
    /\ op \in Op
    /\ loc \in Loc
    /\ x \in Node
    /\ ret \in Ret

\* Between calls the links form a search tree: bst_find's walk by cmp meets
\* every key, parents and children agree, and no key is linked twice.
SearchTree ==
    pc = "idle" =>
        /\ tree.root # nil => tree.parent[tree.root] = nil
        /\ \A n \in InTree :
               /\ \A s \in Side : tree.child[n][s] # nil => tree.parent[tree.child[n][s]] = n
               /\ \A m \in Below(tree.child[n]["left"])  : value[m] < value[n]
               /\ \A m \in Below(tree.child[n]["right"]) : value[m] > value[n]

\* Between calls the fixups have restored the red-black rules: black root,
\* no red child of a red node, as many black nodes above every missing child
\* as above every other.
BlackDepths ==
    LET down[i \in 0..Cardinality(Nodes)] ==  \* <<node, black nodes up to it>> on level i
            IF i = 0 THEN {<<tree.root, tree.color[tree.root]>>}
            ELSE {<<tree.child[w[1]][s], w[2] + tree.color[tree.child[w[1]][s]]>> :
                      w \in {v \in down[i-1] : v[1] # nil}, s \in Side}
    IN  {w[2] : w \in {v \in UNION {down[i] : i \in DOMAIN down} : v[1] = nil}}
RedBlack ==
    pc = "idle" =>
        /\ tree.color[nil] = BST_BLACK /\ tree.color[tree.root] = BST_BLACK
        /\ \A n \in InTree :
               tree.color[n] = BST_RED => \A s \in Side : tree.color[tree.child[n][s]] = BST_BLACK
        /\ Cardinality(BlackDepths) = 1

\* Between calls cache.smallest and cache.largest, which bst_update_cache_insert
\* and bst_update_cache_delete maintain from links the fixup has already
\* rotated, are the nodes with the least and the greatest key, or nil when the
\* tree is empty.
CacheIsExtreme ==
    pc = "idle" =>
        IF tree.root = nil THEN cache.smallest = nil /\ cache.largest = nil
        ELSE /\ {cache.smallest, cache.largest} \subseteq InTree
             /\ \A n \in Stored : value[cache.smallest] <= value[n] /\ value[n] <= value[cache.largest]

\* The free list never holds a node twice, nor one that is linked in the tree
\* or chained behind a linked one; a chained node carries the key of the one
\* node it is chained behind.
NodesApart ==
    /\ Cardinality(OnFreeList) = Len(free)
    /\ OnFreeList \cap Stored = {}
    /\ \A n \in InTree :
           /\ Behind(n) \cap InTree = {}
           /\ \A m \in Behind(n) : value[m] = value[n]
           /\ \A k \in InTree \ {n} : Behind(n) \cap Behind(k) = {}

\* No loop of a running call walks off the tree into a node that has been freed.
WalkStaysInTree ==
    {loc.node, loc.parent, x} \ {nil} \subseteq InTree

\* The asserts on the shape of the tree hold in every step of every call: a
\* red parent has a parent, a rotation has a child to lift, the extreme nodes
\* have no outer child, the tree a node is removed from is not empty.  All but
\* one: line 302, assert(node == tree->root), fails whenever the last node has
\* been removed (LastNodeIsRoot).
AssertsHold == OnlyLastNode(tree.failed)

\* bst_update_cache_delete: assert(node == tree->root).
LastNodeIsRoot == pc = "update_cache" /\ OnlyOne => op.node = tree.root

\* bst_update_cache_delete, on cache.smallest == cache.largest: "only one node
\* in tree".
OnlyOneNodeInTree ==
    pc = "update_cache" /\ OnlyOne => InTree = {}

\* A node put back on the free list held a stored value, and that value is the
\* one handed to the caller.
FreedIsReturned ==
    [][Len(free') > Len(free) =>
           /\ Head(free') \in Stored \cup {op.node} /\ Head(free') \notin Stored'
           /\ ret'.out = value[Head(free')] /\ ret'.err = "OK"]_vars

\* Nodes that are neither free, nor stored, nor held by the running call.
Lost == Nodes \ (OnFreeList \cup Stored \cup {op.node})

\* A node and the value in it get lost only when jfs_bst_puts trusts a
\* cache.previous that is no longer (or not) in the tree: bst_update_cache_delete
\* never resets that field.
LostOnlyThroughPrevious ==
    [][Lost' # Lost =>
           /\ pc = "idle" /\ cache.previous # nil /\ cache.previous \notin Stored
           /\ Lost' = Lost \cup {Head(free)}]_vars

\* Between calls the tree is a search tree and red-black with the right extremes
\* in its cache, and inside a call no walk leaves it and no assert but that of
\* line 302 fails: in trees deep enough for every case of both fixups.
TreeIsSound == SearchTree /\ RedBlack /\ CacheIsExtreme /\ WalkStaysInTree /\ AssertsHold

\* Every call returns: no fixup, walk or search loops for ever.
EveryCallReturns == pc # "idle" ~> pc = "idle"

-----------------------------------------------------------------------------
(* The tree as an ordered bag *)

\* cache.previous still answers for k, but its value has left the tree.
Stale(k) == cache.previous # nil /\ cache.previous \notin Stored /\ value[cache.previous] = k

\* jfs_bst_puts packs the value into the first free node before it looks at
\* the cache.
StaleForPut(k) == Stale(k) \/ (free # <<>> /\ Head(free) = cache.previous)

TrustsStale ==
    \E k \in Keys : \/ StaleForPut(k) /\ jfs_bst_puts(k)
                    \/ Stale(k) /\ jfs_bst_takes(k)

\* Whether the running call has put its value into the tree or taken it out.
TookEffect == pc \in {"fixup_insert", "insert_done", "fixup_delete", "update_cache",
                      "smallest", "largest"}

\* How many values are stored of each key, and what has been answered so far.
Counts ==
    LET S == Stored
    IN  [k \in Keys |-> Cardinality({n \in S : value[n] = k})]
Answered ==
    IF pc = "idle" THEN ret
    ELSE IF TookEffect THEN [err |-> "OK", out |-> ret.out]
    ELSE NoRet

Bag == INSTANCE OrderedBag
    WITH Capacity <- Cardinality(Nodes), bag <- Counts, size <- Cardinality(Stored),
         answer <- Answered

\* A step is the abstract operation of the very call that takes it, with its key.
StepOfCall ==
    /\ \A k \in Keys : /\ jfs_bst_puts(k)  => Bag!Begin \/ Bag!Put(k)
                       /\ jfs_bst_takes(k) => Bag!Begin \/ Bag!Empty \/ Bag!Take(k)
    /\ jfs_bst_get("left")  => Bag!Empty \/ Bag!GetSmallest
    /\ jfs_bst_get("right") => Bag!Empty \/ Bag!GetLargest
    /\ Step => \/ UNCHANGED Bag!vars
               \/ op.fn = "puts"  /\ Bag!Put(op.key)
               \/ op.fn = "takes" /\ Bag!Take(op.key)

\* Every call takes effect at one moment between its begin and its return, and
\* answers as an ordered bag does: an extreme is the extreme, a bad key is absent,
\* a full tree is full, and a value that is handed out is held.  The exceptions
\* are a call that trusts a cache.previous that has left the tree, and the room
\* that is missing once such a call has lost a node.
ImplementsOrderedBag ==
    Bag!Init /\ [][~TrustsStale /\ Lost = {} => [Bag!Next]_(Bag!vars) /\ StepOfCall]_vars
=============================================================================
