-------------------------- MODULE RedBlackProofs --------------------------
(***************************************************************************)
(* For every set of nodes and of keys, when the caller's cmp answers -1, 0 *)
(* or 1: the links always form one search tree, between calls it is a      *)
(* red-black tree whose cache names the extremes, inside a call no loop    *)
(* leaves it, no assert on its shape but that of line 302 fails, and the   *)
(* nodes of the tree, of the chains behind it and of the free list never   *)
(* mix.  What is freed was stored and is handed to the caller, nodes get   *)
(* lost in one way only, and the tree implements OrderedBag.               *)
(*                                                                         *)
(* The invariant names three functions that the code does not store:       *)
(* under[n], the nodes of the subtree of n; height[n], the black nodes on  *)
(* every way down from n; owner[m], the linked node that m is chained      *)
(* behind.  An action changes each of them in a few places only.           *)
(*                                                                         *)
(* For the bag, what is stored is the least set that contains the tree and *)
(* the links of its members: each action keeps it, adds or removes a node. *)
(***************************************************************************)
EXTENDS BinarySearchTreeProofs, WellFoundedInduction

-----------------------------------------------------------------------------
(* The invariant, part by part *)

\* Between calls and until a call has changed the tree, the cache c names the
\* outermost nodes of T.
CacheHolds(c, T, val) ==
    \A s \in Side :
        IF T = {} THEN c[Extreme(s)] = nil
        ELSE Outermost(s, c[Extreme(s)], T, val)

\* The cache of the state does.
CacheOK(T) == CacheHolds(cache, T, value)

\* What a cmp that answers -1, 0 or 1 says of a key on side s.
Sign(s) == IF s = "left" THEN -1 ELSE 1

\* bst_find has come from loc.parent, and on its way it passed the extreme node
\* only if the key lies inside of it or the node is loc.parent.
FindOK(T, under) ==
    /\ IF loc.parent = nil THEN loc.node = tree.root /\ loc.parent_cmp = 0
       ELSE \E s \in Side :
                /\ loc.parent_cmp = Sign(s)
                /\ loc.node = tree.child[loc.parent][s]
                /\ Beyond(s, op.key, value[loc.parent])
    /\ op.key \in Keys
    /\ \A m \in T \ {loc.parent} : \A s \in Side :
           loc.parent \in under[tree.child[m][s]] => Beyond(s, op.key, value[m])
    /\ \A s \in Side :
           LET e == cache[Extreme(s)]
           IN  \/ e \in under[loc.node]
               \/ e \in T /\ Beyond(s, value[e], op.key)
               \/ e = loc.parent /\ loc.parent_cmp = (IF e = nil THEN 0 ELSE Sign(s))

\* The node that jfs_bst_puts has allocated.
Allocated(owner) ==
    /\ op.node \in Nodes /\ owner[op.node] = nil
    /\ op.node \notin OnFreeList
    /\ list[op.node] = NULL /\ value[op.node] = op.key

\* op.node is linked; the cache does not know of it yet.
CacheBehind(T, under) ==
    /\ op.node \in T
    /\ \A s \in Side :
        LET e == cache[Extreme(s)]
        IN  IF T = {op.node} THEN e = nil /\ loc.parent = nil /\ loc.parent_cmp = 0
            ELSE /\ Outermost(s, e, T \ {op.node}, value)
                 /\ IF loc.parent_cmp = Sign(s) /\ loc.parent = e
                    THEN /\ tree.child[e][s] = op.node
                         /\ pc = "fixup_insert" => x = op.node \/ e \in under[x] \ {x}
                    ELSE Beyond(s, value[e], value[op.node])

\* The walk to the successor of op.node: x is left of all it has passed.
SuccessorOK(T, under) ==
    LET r == tree.child[op.node]["right"]
    IN  /\ op.node \in T /\ list[op.node] = NULL /\ loc = NoLoc
        /\ tree.child[op.node]["left"] # nil
        /\ x \in under[r]
        /\ x # r => tree.parent[x] \in under[r] /\ x = tree.child[tree.parent[x]]["left"]
        /\ \A m \in under[r] \ under[x] : value[x] < value[m]

\* After the removal of n, the outermost node on side s is the one the cache update
\* will find: the inner child of n, or else its parent.
Follows(t, n, s, T, val) ==
    /\ t.child[n][s] = nil
    /\ T # {} => Outermost(s, IF t.child[n][Opposite(s)] # nil THEN t.child[n][Opposite(s)]
                              ELSE t.parent[n], T, val)

\* op.node has been unlinked; the cache may still name it.
CacheStale(T, owner) ==
    /\ op.node \in Nodes \ T /\ owner[op.node] = nil /\ op.node \notin OnFreeList
    /\ value[op.node] \in Keys
    /\ \A s \in Side :
        /\ Outermost(s, cache[Extreme(s)], T \cup {op.node}, value)
        /\ op.node = cache[Extreme(s)] => Follows(tree, op.node, s, T, value)

\* owner[m] is the linked node that m is chained behind by the links l, or nil.
\* No node of the free list fr has an owner.
Chained1(T, owner, val, l, m) ==
    owner[m] # nil =>
        /\ val[m] = val[owner[m]]
        /\ l[m] # NULL => owner[l[m]] = owner[m] /\ l[m] \notin T
        /\ \A k \in Nodes : owner[k] # nil /\ l[k] # NULL /\ l[k] = l[m] => k = m

\* Node j of the free list has no owner and is on it once.
Freed1(owner, fr, j) ==
    owner[fr[j]] = nil /\ \A k \in DOMAIN fr : fr[j] = fr[k] => j = k

\* The chains l behind the linked nodes T, and the free list fr.
ChainsOf(T, owner, val, l, fr) ==
    /\ owner \in [Nodes -> T \cup {nil}]
    /\ \A n \in T : owner[n] = n
    /\ \A m \in Nodes : Chained1(T, owner, val, l, m)
    /\ \A j \in DOMAIN fr : Freed1(owner, fr, j)

\* The chains and the free list of the state.
Chains(T, owner) == ChainsOf(T, owner, value, list, free)

\* A black node is missing above z, unless z is the root.
DeleteOK(t, T, height, z) ==
    /\ RedApart(t, T, z, z)
    /\ z = t.root \/ t.color[t.root] = BST_BLACK
    /\ IF z = t.root THEN Heights(t, T, height, nil, "left")
       ELSE /\ t.parent[z] \in T
            /\ \E s \in Side : t.child[t.parent[z]][s] = z /\ Heights(t, T, height, t.parent[z], s)

\* Only z is a red node that may have a red parent.
InsertOK(t, T, height, z) ==
    /\ Heights(t, T, height, nil, "left")
    /\ RedApart(t, T, nil, z)
    /\ z \in T /\ t.color[z] = BST_RED
    /\ z = t.root \/ t.color[t.root] = BST_BLACK

\* The tree, its chains and its cache at every place of a call.
Sound(under, height, owner) ==
    LET T == under[tree.root]
    IN  /\ Shape(tree, under) /\ Ordered(tree, under, value)
        /\ OnlyLastNode(tree.failed) /\ tree.color[nil] = BST_BLACK
        /\ {loc.node, loc.parent, x} \subseteq T \cup {nil}
        /\ Chains(T, owner)
        /\ pc \notin {"fixup_insert", "fixup_delete"} => Balanced(tree, T, height)
        /\ pc \in {"idle", "find", "successor"} => CacheOK(T)
        /\ pc = "find" => FindOK(T, under)
        /\ pc = "find" /\ op.fn = "puts" => Allocated(owner)
        /\ pc = "fixup_insert" => InsertOK(tree, T, height, x)
        /\ pc \in {"fixup_insert", "insert_done"} => CacheBehind(T, under)
        /\ pc = "successor" => SuccessorOK(T, under)
        /\ pc = "fixup_delete" => DeleteOK(tree, T, height, x)
        /\ pc \in {"fixup_delete", "update_cache", "smallest", "largest"} => CacheStale(T, owner)
        /\ \A s \in Side : pc = Extreme(s) =>
               /\ op.node = cache[Extreme(s)] /\ cache.smallest # cache.largest
               /\ Outermost(s, x, T, value)

\* The loops end by painting a node black: the root, or one whose black was missing.
LEMMA PaintColors ==
    ASSUME NEW t \in Tree, NEW U, Shape(t, U), NEW H, NEW z \in Node, RedApart(t, U[t.root], z, z),
           t.color[nil] = BST_BLACK,
           NEW p, NEW s, Heights(t, U[t.root], H, p, s),
           \/ z = t.root /\ p = nil
           \/ /\ z # t.root /\ t.color[t.root] = BST_BLACK /\ t.color[z] = BST_RED
              /\ p \in U[t.root] /\ s \in Side /\ t.child[p][s] = z,
           NEW u, ColorSet(u, t, z, BST_BLACK)
    PROVE  \E H2 : Balanced(u, U[t.root], H2) /\ u.color[nil] = BST_BLACK
<1> DEFINE T == U[t.root]
           H2 == [H EXCEPT ![z] = IF z = nil THEN 1 ELSE H[z] + 1 - t.color[z]]
<1>a. BST_RED = 0 /\ BST_BLACK = 1
  BY DEF BST_RED, BST_BLACK
<1>b. u \in Tree /\ u.root = t.root /\ u.child = t.child
  BY DEF ColorSet
<1>c. \A k \in Node : u.color[k] = IF k = z THEN BST_BLACK ELSE t.color[k]
  BY DEF ColorSet
<1>d. H \in [Node -> Nat \ {0}] /\ H[nil] = 1
  BY DEF Heights
<1>e. T \subseteq Nodes /\ nil \in Node /\ t.root \in Node /\ T \subseteq Node
  <2>1. T \subseteq Node /\ T \subseteq Nodes
    BY ShapeNode
  <2> QED
    BY <2>1 DEF Node, Tree
<1>1. t.color[z] \in {0, 1} /\ H[z] \in Nat /\ H[z] >= 1
  BY HeightTypes
<1>2. H[z] + 1 - t.color[z] \in Nat \ {0}
  BY <1>1
<1>3. /\ H2 \in [Node -> Nat \ {0}] /\ H2[nil] = 1
      /\ z # nil => H2[z] = H[z] + 1 - t.color[z]
      /\ \A k \in Node : k # z => H2[k] = H[k]
  BY <1>2, <1>d, <1>e
<1> HIDE DEF H2
<1>4. ASSUME NEW k \in T, NEW r \in Side
      PROVE  /\ k \in Node /\ k # nil /\ t.child[k][r] \in Node
             /\ k = p /\ r = s => H[k] = t.color[k] + H[t.child[k][r]] + 1
             /\ k # p \/ r # s => H[k] = t.color[k] + H[t.child[k][r]]
             /\ H[t.child[k][r]] \in Nat /\ t.color[k] \in {0, 1}
  <2>1. k \in Node /\ k # nil /\ t.child[k][r] \in Node
    BY GapRead
  <2>2. k = p /\ r = s => H[k] = t.color[k] + H[t.child[k][r]] + 1
    BY DEF Heights
  <2>3. k # p \/ r # s => H[k] = t.color[k] + H[t.child[k][r]] + 0
    BY DEF Heights
  <2>4. H[t.child[k][r]] \in Nat /\ t.color[k] \in {0, 1}
    BY GapRead
  <2>5. H[t.child[k][r]] + t.color[k] + 0 = H[t.child[k][r]] + t.color[k]
    BY <2>4
  <2> QED
    BY <2>1, <2>2, <2>3, <2>4, <2>5
<1>5. ASSUME NEW k \in T, NEW r \in Side, t.child[k][r] = z, z # nil
      PROVE  k = p /\ r = s /\ z # t.root /\ k # z
  <2>1. z # t.root /\ k # z /\ t.parent[z] = k /\ z # t.child[k][Opposite(r)]
    BY <1>5, ShapeChild
  <2>2. p \in T /\ s \in Side /\ t.child[p][s] = z
    BY <2>1
  <2>3. t.parent[z] = p
    BY <2>2, <1>5, ShapeChild
  <2> QED
    BY <2>1, <2>2, <2>3, OtherSide
<1>6. ASSUME NEW k \in T, NEW r \in Side
      PROVE  H2[k] = u.color[k] + H2[u.child[k][r]]
  <2> DEFINE c == t.child[k][r]
  <2>0. c = z /\ z # nil => k = p /\ r = s /\ k # z /\ z # t.root
    BY <1>5
  <2>1. u.child[k][r] = c
    BY <1>b
  <2>2. k \in Node /\ k # nil /\ c \in Node /\ H[c] \in Nat /\ t.color[k] \in {0, 1}
    BY <1>4
  <2>3. CASE k = p /\ r = s
    <3>1. z # t.root /\ t.color[z] = 0 /\ c = z
      BY <2>2, <2>3, <1>a
    <3>2. z # nil
      BY <3>1, <1>a
    <3>3. H[k] = t.color[k] + H[z] + 1
      BY <2>3, <3>1, <1>4
    <3>4. k # z
      BY <2>0, <3>1, <3>2
    <3>5. H2[z] = H[z] + 1 /\ H2[k] = H[k] /\ u.color[k] = t.color[k]
      BY <2>2, <3>1, <3>2, <3>4, <1>1, <1>3, <1>c
    <3>6. H2[k] = t.color[k] + H2[z]
      BY <3>3, <3>5, <2>2, <1>1
    <3> QED
      BY <2>1, <3>1, <3>5, <3>6
  <2>4. CASE ~(k = p /\ r = s)
    <3>1. H[k] = t.color[k] + H[c]
      BY <2>4, <1>4
    <3>2. c # z \/ z = nil
      BY <2>0, <2>4
    <3>3. H2[c] = H[c]
      BY <2>2, <3>2, <1>3, <1>d
    <3>4. CASE k = z
      <4>1. u.color[k] = 1 /\ H2[k] = H[k] + 1 - t.color[k]
        BY <2>2, <3>4, <1>3, <1>a, <1>c
      <4> HIDE DEF c
      <4>2. H2[k] = 1 + H2[c]
        BY <2>2, <3>1, <3>3, <4>1
      <4> QED
        BY <2>1, <4>1, <4>2
    <3>5. CASE k # z
      <4>1. u.color[k] = t.color[k] /\ H2[k] = H[k]
        BY <2>2, <3>5, <1>3, <1>c
      <4> QED
        BY <2>1, <3>1, <3>3, <4>1
    <3> QED
      BY <3>4, <3>5
  <2> QED
    BY <2>3, <2>4
<1>7. Heights(u, T, H2, nil, "left")
  <2> HIDE DEF T
  <2> QED
    BY <1>3, <1>6, <1>b, <1>e, HeightsFrom
<1>8. ASSUME NEW k \in T, NEW r \in Side, u.color[k] = BST_RED
      PROVE  u.color[u.child[k][r]] = BST_BLACK
  <2>1. k \in Node /\ t.child[k][r] \in Node
    BY <1>4
  <2>2. k # z /\ t.color[k] = BST_RED
    BY <2>1, <1>8, <1>a, <1>c
  <2>3. t.child[k][r] # z => t.color[t.child[k][r]] = BST_BLACK
    BY <2>2 DEF RedApart
  <2> QED
    BY <2>1, <2>3, <1>b, <1>c
<1>9. RedApart(u, T, nil, nil)
  BY <1>8 DEF RedApart
<1>10. u.color[u.root] = BST_BLACK /\ u.color[nil] = BST_BLACK
  BY <1>b, <1>c, <1>e
<1>11. QED
  BY <1>7, <1>9, <1>10 DEF Balanced

\* Every set of natural numbers that is not empty has a least element: what stands in for
\* induction.
LEMMA LeastNat ==
    ASSUME NEW T, T \subseteq Nat, T # {}
    PROVE  \E m \in T : \A k \in T : ~(k < m)
<1> DEFINE R == OpToRel(<, Nat)
<1>1. IsWellFoundedOn(R, Nat)
  BY NatLessThanWellFounded, Zenon
<1>2. \A i, j \in Nat : <<i, j>> \in R <=> i < j
  BY DEF OpToRel
<1> HIDE DEF R
<1>3. PICK m \in T : \A k \in T : ~(<<k, m>> \in R)
  BY <1>1, WFMin, Zenon
<1>4. QED
  BY <1>2, <1>3

\* A key outside of a subtree has all of the subtree on one side: where this were wrong, it
\* would be wrong one node further up.
LEMMA SubtreeApart ==
    ASSUME NEW t \in Tree, NEW U, Shape(t, U), NEW val, Ordered(t, U, val)
    PROVE  \A k \in U[t.root] : \A m \in U[t.root] \ U[k] : \A s \in Side : \A j \in U[k] :
               Beyond(s, val[k], val[m]) => Beyond(s, val[j], val[m])
<1> DEFINE T == U[t.root]
           Good(k) == \A m \in T \ U[k] : \A s \in Side : \A j \in U[k] :
                          Beyond(s, val[k], val[m]) => Beyond(s, val[j], val[m])
           Bad == {k \in T : ~Good(k)}
           Away(k) == Cardinality(T \ U[k])
           C == {Away(k) : k \in Bad}
<1>1. SUFFICES ASSUME Bad # {} PROVE FALSE
  OBVIOUS
<1>2. IsFiniteSet(T)
  <2>1. T \subseteq Nodes
    BY ShapeNode
  <2> QED
    BY <2>1, NodesAssumption, FS_Subset
<1>3. \A k \in T : IsFiniteSet(T \ U[k]) /\ Away(k) \in Nat
  BY <1>2, FS_Subset, FS_CardinalityType
<1>4. PICK k \in Bad : \A q \in Bad : ~(Away(q) < Away(k))
  <2>1. C \subseteq Nat /\ C # {}
    BY <1>1, <1>3
  <2>2. PICK a \in C : \A b \in C : ~(b < a)
    <3> HIDE DEF C
    <3> QED
      BY <2>1, LeastNat
  <2> QED
    BY <2>2
<1>5. k \in T /\ ~Good(k)
  BY <1>4
<1>6. PICK m \in T \ U[k], s \in Side, j \in U[k] : Beyond(s, val[k], val[m]) /\ ~Beyond(s, val[j], val[m])
  BY <1>5
<1> HIDE DEF Good
<1>7. k # t.root
  BY <1>6
<1> DEFINE p == t.parent[k]
<1>8. p \in T /\ p # k /\ p # nil /\ p \notin U[k] /\ U[k] \subseteq U[p]
  BY <1>5, <1>7, ShapeParent
<1>9. PICK e \in Side : t.child[p][e] = k /\ t.child[p][Opposite(e)] # k
  BY <1>5, <1>7, ShapeParent
<1>10. p \in U[p] /\ j \in T /\ k \in U[k] /\ k \in Nodes
  BY <1>5, <1>6, <1>8, ShapeNode
<1>11. Away(p) < Away(k)
  <2>1. T \ U[p] \subseteq T \ U[k] /\ T \ U[p] # T \ U[k]
    BY <1>8, <1>10
  <2>2. Away(p) <= Away(k) /\ Away(p) # Away(k)
    BY <2>1, <1>3, <1>5, <1>8, FS_Subset
  <2>3. Away(p) \in Nat /\ Away(k) \in Nat
    BY <1>3, <1>5, <1>8
  <2> HIDE DEF Away
  <2> QED
    BY <2>2, <2>3
<1>12. Good(p)
  BY <1>4, <1>8, <1>11
<1>13. val[m] \in Keys /\ val[k] \in Keys /\ val[j] \in Keys /\ val[p] \in Keys
  BY <1>5, <1>6, <1>8, <1>10 DEF Ordered
<1>14. Beyond(e, val[k], val[p]) /\ Beyond(e, val[j], val[p])
  BY <1>6, <1>8, <1>9, <1>10 DEF Ordered
<1>15. CASE m \notin U[p]
  <2>1. val[p] # val[m] => \E r \in Side : Beyond(r, val[p], val[m])
    BY <1>13, <1>6, BeyondOrder, OtherSide
  <2>2. ASSUME NEW r \in Side, Beyond(r, val[p], val[m]) PROVE FALSE
    <3>1. Beyond(r, val[k], val[m]) /\ Beyond(r, val[j], val[m])
      BY <2>2, <1>6, <1>8, <1>10, <1>12, <1>15 DEF Good
    <3>2. r # s => r = Opposite(s)
      BY OtherSide
    <3>3. r # s => Beyond(s, val[m], val[k])
      BY <3>1, <3>2, <1>13, BeyondOrder
    <3>4. ~Beyond(s, val[m], val[k])
      BY <1>6, <1>13, BeyondOrder
    <3> QED
      BY <3>1, <3>3, <3>4, <1>6
  <2>3. val[p] = val[m] => FALSE
    <3>1. SUFFICES ASSUME val[p] = val[m] PROVE FALSE
      OBVIOUS
    <3>2. Beyond(e, val[k], val[m]) /\ Beyond(e, val[j], val[m])
      BY <3>1, <1>14
    <3>3. e # s => e = Opposite(s)
      BY OtherSide
    <3>4. e # s => Beyond(s, val[m], val[k])
      BY <3>2, <3>3, <1>13, BeyondOrder
    <3>5. ~Beyond(s, val[m], val[k])
      BY <1>6, <1>13, BeyondOrder
    <3> QED
      BY <3>2, <3>4, <3>5, <1>6
  <2> QED
    BY <2>1, <2>2, <2>3
<1>16. CASE m \in U[p]
  <2> DEFINE o == Opposite(e)
  <2>1. o \in Side /\ Opposite(o) = e
    BY OtherSide
  <2>2. U[p] = {p} \cup U[k] \cup U[t.child[p][o]]
    BY <1>8, <1>9, ShapeSplit
  <2>3. m = p \/ m \in U[t.child[p][o]]
    BY <2>2, <1>6, <1>16
  <2>4. Beyond(e, val[k], val[m]) /\ Beyond(e, val[j], val[m])
    <3>1. CASE m = p
      BY <3>1, <1>14
    <3>2. CASE m \in U[t.child[p][o]]
      <4>1. Beyond(o, val[m], val[p])
        BY <2>1, <3>2, <1>8 DEF Ordered
      <4>2. Beyond(e, val[p], val[m])
        BY <4>1, <2>1, <1>13, BeyondOrder
      <4> QED
        BY <4>2, <1>13, <1>14, BeyondTrans
    <3> QED
      BY <2>3, <3>1, <3>2
  <2>5. e # s => e = Opposite(s)
    BY OtherSide
  <2>6. e # s => Beyond(s, val[m], val[k])
    BY <2>4, <2>5, <1>13, BeyondOrder
  <2>7. ~Beyond(s, val[m], val[k])
    BY <1>6, <1>13, BeyondOrder
  <2> QED
    BY <2>4, <2>6, <2>7, <1>6
<1>17. QED
  BY <1>15, <1>16

\* The tree that bst_delete makes when the successor z takes the place of n.
SpliceTree(t, n, z) ==
    LET r  == t.child[z]["right"]
        t1 == IF z # t.child[n]["right"] THEN bst_transplant(t, z, r) ELSE bst_set_parent(t, r, z)
        t2 == IF z # t.child[n]["right"]
              THEN bst_set_parent(set_child(t1, z, "right", t1.child[n]["right"]),
                                  t1.child[n]["right"], z)
              ELSE t1
        t3 == bst_transplant(t2, n, z)
        t4 == bst_set_parent(set_child(t3, z, "left", t3.child[n]["left"]), t3.child[n]["left"], z)
    IN  bst_set_color(t4, z, t4.color[n])

\* z is the leftmost node right of n: r is its child, p its parent; l and y are the
\* children of n, and n is the child of q on side f.
SpliceNodes(t, U, n, z, r, p, l, y, q, f) ==
    /\ n \in U[t.root] /\ l = t.child[n]["left"] /\ y = t.child[n]["right"] /\ l # nil
    /\ z \in U[y] /\ t.child[z]["left"] = nil /\ r = t.child[z]["right"] /\ p = t.parent[z]
    /\ z # y => p \in U[y] /\ z = t.child[p]["left"]
    /\ q = t.parent[n] /\ f \in Side
    /\ q # nil => f = IF t.child[q]["left"] = n THEN "left" ELSE "right"

\* They are different nodes.
LEMMA SpliceApart ==
    ASSUME NEW t \in Tree, NEW U, Shape(t, U), NEW n, NEW z, NEW r, NEW p, NEW l, NEW y, NEW q, NEW f,
           SpliceNodes(t, U, n, z, r, p, l, y, q, f)
    PROVE  /\ n \in U[t.root] /\ z \in U[t.root] /\ l \in U[t.root] /\ y \in U[t.root] /\ p \in U[t.root]
           /\ n \in Nodes /\ z \in Nodes /\ {n, z, r, p, l, y, q} \subseteq Node
           /\ n # nil /\ z # nil /\ l # nil /\ y # nil /\ p # nil /\ t.root # nil
           /\ z # n /\ z # r /\ z # l /\ z # p /\ n # l /\ n # y /\ n # r /\ l # y /\ l # r /\ y # r
           /\ q # n /\ q # z /\ q # p /\ q # l /\ q # y
           /\ n = t.root <=> q = nil
           /\ q # nil => /\ q \in U[t.root] /\ t.child[q][f] = n /\ t.child[q][Opposite(f)] # n
           /\ t.parent[l] = n /\ t.parent[y] = n /\ (z = y <=> p = n)
           /\ r # nil => r \in U[t.root] /\ t.parent[r] = z
           /\ t.child[p][IF z = y THEN "right" ELSE "left"] = z
           /\ t.child[p][IF z = y THEN "left" ELSE "right"] # z
<1> DEFINE T == U[t.root]
<1>a. n \in T /\ l = t.child[n]["left"] /\ y = t.child[n]["right"] /\ l # nil
  BY DEF SpliceNodes
<1>b. z \in U[y] /\ t.child[z]["left"] = nil /\ r = t.child[z]["right"] /\ p = t.parent[z]
  BY DEF SpliceNodes
<1>c. z # y => p \in U[y] /\ z = t.child[p]["left"]
  BY DEF SpliceNodes
<1>d. q = t.parent[n] /\ (q # nil => f = IF t.child[q]["left"] = n THEN "left" ELSE "right")
  BY DEF SpliceNodes
<1>e. /\ "left" \in Side /\ "right" \in Side /\ Opposite("left") = "right"
      /\ Opposite("right") = "left"
  BY DEF Side, Opposite
<1>1. l \in T /\ t.parent[l] = n /\ l # n /\ l \in U[n] /\ l # y /\ l \notin U[y]
  BY <1>a, <1>e, ShapeChild
<1>2. y # nil
  BY <1>b DEF Shape
<1>3. y \in T /\ t.parent[y] = n /\ y # n /\ n \notin U[y] /\ U[y] \subseteq U[n] /\ y \in U[n]
  BY <1>2, <1>a, <1>e, ShapeChild
<1>4. z \in T /\ z # n /\ z # l /\ z \in U[n]
  <2>1. U[n] \subseteq T
    BY <1>a, ShapeNode
  <2> QED
    BY <2>1, <1>1, <1>3, <1>b
<1>5. z # y => p \in U[n] /\ p \in T
  <2>1. U[n] \subseteq T
    BY <1>a, ShapeNode
  <2> QED
    BY <2>1, <1>3, <1>c
<1>6. p \in T /\ p # nil /\ (z = y <=> p = n)
  <2>1. z = y => p = n
    BY <1>3, <1>b
  <2>2. p \in T /\ (p = n => z = y)
    BY <2>1, <1>3, <1>5, <1>a, <1>c
  <2> QED
    BY <2>1, <2>2, ShapeNode
<1>7. r # nil => r \in T /\ t.parent[r] = z /\ r # z /\ r \in U[z]
  BY <1>4, <1>b, <1>e, ShapeChild
<1>8. U[z] \subseteq U[y]
  BY <1>3, <1>b, ShapeClosed
<1>9. r # n /\ r # z /\ r # l /\ r # y
  <2>1. r # nil => r \in U[y]
    BY <1>7, <1>8
  <2>2. n # nil /\ z # nil
    BY <1>4, <1>a, ShapeNode
  <2>3. r # y
    BY <1>2, <1>3, <1>4, <1>7
  <2> QED
    BY <2>1, <2>2, <2>3, <1>1, <1>3, <1>7, <1>a
<1>10. p # z
  <2>1. z # t.root
    <3>1. CASE z = y
      BY <3>1, <1>2, <1>a, <1>e, ShapeChild
    <3>2. CASE z # y
      <4>1. z = t.child[p]["left"] /\ z # nil
        BY <3>2, <1>4, <1>c, ShapeNode
      <4> QED
        BY <4>1, <1>6, <1>e, ShapeChild
    <3> QED
      BY <3>1, <3>2
  <2> QED
    BY <2>1, <1>4, <1>b, ShapeParent
<1>11. n # t.root => /\ q \in T /\ q # nil /\ q # n /\ q \notin U[n] /\ t.child[q][f] = n
                     /\ t.child[q][Opposite(f)] # n
  BY <1>a, <1>d, ShapeParent
<1>12. n = t.root => q = nil
  BY <1>a, <1>d, ShapeNode DEF Shape
<1>13. q # n /\ q # z /\ q # p /\ q # l /\ q # y
  <2>1. CASE n = t.root
    BY <2>1, <1>12, <1>1, <1>2, <1>4, <1>6, <1>a, ShapeNode
  <2>2. CASE n # t.root
    <3>1. p \in U[n]
      BY <1>3, <1>5, <1>6, <1>a, ShapeNode
    <3> QED
      BY <2>2, <3>1, <1>1, <1>3, <1>4, <1>11
  <2> QED
    BY <2>1, <2>2
<1>14. /\ t.child[p][IF z = y THEN "right" ELSE "left"] = z
       /\ t.child[p][IF z = y THEN "left" ELSE "right"] # z
  <2>1. CASE z = y
    BY <2>1, <1>1, <1>6, <1>a
  <2>2. CASE z # y
    <3>1. z = t.child[p]["left"] /\ z # nil
      BY <2>2, <1>4, <1>c, ShapeNode
    <3>2. z # t.child[p]["right"]
      BY <3>1, <1>6, <1>e, ShapeChild
    <3> QED
      BY <2>2, <3>1, <3>2
  <2> QED
    BY <2>1, <2>2
<1>15. /\ n \in Nodes /\ z \in Nodes /\ n \in Node /\ z \in Node /\ l \in Node /\ y \in Node /\ p \in Node
       /\ n # nil /\ z # nil /\ t.root # nil
  BY <1>1, <1>3, <1>4, <1>6, <1>a, ShapeNode
<1>16. r \in Node /\ q \in Node
  BY <1>15, <1>b, <1>d, <1>e, ReadType
<1>17. QED
  BY <1>1, <1>2, <1>3, <1>4, <1>6, <1>7, <1>9, <1>10, <1>11, <1>12, <1>13, <1>14, <1>15, <1>16, <1>a

\* u is t with z in the place of n.
Spliced(u, t, n, z, r, p, l, y, q, f) ==
    /\ u \in Tree /\ u.root = (IF q = nil THEN z ELSE t.root) /\ u.failed = t.failed
    /\ \A k \in Node : \A d \in Side :
           u.child[k][d] = IF k = z THEN (IF d = "left" THEN l ELSE IF z = y THEN r ELSE y)
                           ELSE IF q # nil /\ k = q /\ d = f THEN z
                           ELSE IF z # y /\ k = p /\ d = "left" THEN r
                           ELSE t.child[k][d]
    /\ \A k \in Node :
           u.parent[k] = IF k = l THEN z ELSE IF k = z THEN q ELSE IF k = y THEN z
                         ELSE IF k = r THEN (IF z = y THEN z ELSE p) ELSE t.parent[k]
    /\ \A k \in Node : u.color[k] = IF k = z THEN t.color[n] ELSE t.color[k]

\* The last assignments of the splice.
SpliceEndTree(t, n, z) ==
    LET t3 == bst_transplant(t, n, z)
        t4 == bst_set_parent(set_child(t3, z, "left", t3.child[n]["left"]), t3.child[n]["left"], z)
    IN  bst_set_color(t4, z, t4.color[n])

\* z takes the place, the left child l and the colour of n.
EndSpliced(u, t, n, z, l, q, f) ==
    /\ u \in Tree /\ u.root = (IF q = nil THEN z ELSE t.root) /\ u.failed = t.failed
    /\ \A k \in Node : \A d \in Side :
           u.child[k][d] = IF k = z /\ d = "left" THEN l
                           ELSE IF q # nil /\ k = q /\ d = f THEN z
                           ELSE t.child[k][d]
    /\ \A k \in Node : u.parent[k] = IF k = l THEN z ELSE IF k = z THEN q ELSE t.parent[k]
    /\ \A k \in Node : u.color[k] = IF k = z THEN t.color[n] ELSE t.color[k]

\* They do that.
LEMMA SpliceEnd ==
    ASSUME NEW t \in Tree, NEW n \in Node, NEW z \in Node, NEW q \in Node, NEW f \in Side, NEW l,
           n # nil, z # nil, t.root # nil, z # n, q # z, q # n, q = t.parent[n],
           q # nil => f = IF t.child[q]["left"] = n THEN "left" ELSE "right",
           l = t.child[n]["left"], l # z
    PROVE  EndSpliced(SpliceEndTree(t, n, z), t, n, z, l, q, f)
<1> DEFINE t3 == bst_transplant(t, n, z)
           t4 == bst_set_parent(set_child(t3, z, "left", t3.child[n]["left"]), t3.child[n]["left"], z)
           u == bst_set_color(t4, z, t4.color[n])
<1>0. "left" \in Side
  BY DEF Side
<1>1. Transplanted(t3, t, n, z, q, f)
  BY TransplantFields
<1>z. u = SpliceEndTree(t, n, z)
  BY DEF SpliceEndTree
<1> HIDE DEF t3
<1>2. t3 \in Tree /\ t3.child[n]["left"] = l /\ l \in Node
  <2>1. t3 \in Tree /\ t3.child[n]["left"] = l
    BY <1>0, <1>1 DEF Transplanted
  <2> QED
    BY <2>1, <1>0, ReadType
<1> DEFINE ta == set_child(t3, z, "left", l)
<1>3. ChildSet(ta, t3, z, "left", l)
  BY <1>0, <1>2, SetChildFields
<1>4. t4 = bst_set_parent(ta, l, z)
  BY <1>2
<1> HIDE DEF ta, t4
<1>5. ta \in Tree
  BY <1>3 DEF ChildSet
<1>6. ParentSet(t4, ta, l, z)
  BY <1>2, <1>4, <1>5, SetParentFields
<1>7. t4 \in Tree /\ t4.color = t.color /\ t4.color[n] \in {BST_RED, BST_BLACK}
  <2>1. t4 \in Tree /\ t4.color = t.color
    BY <1>1, <1>3, <1>6 DEF ParentSet, ChildSet, Transplanted
  <2> QED
    BY <2>1 DEF Tree
<1>8. ColorSet(u, t4, z, t.color[n])
  BY <1>7, SetColorFields
<1> HIDE DEF u
<1>9. u \in Tree /\ u.root = (IF q = nil THEN z ELSE t.root) /\ u.failed = t.failed
  BY <1>1, <1>3, <1>6, <1>8 DEF ColorSet, ParentSet, ChildSet, Transplanted
<1>10. \A k \in Node : \A d \in Side :
          u.child[k][d] = IF k = z /\ d = "left" THEN l
                          ELSE IF q # nil /\ k = q /\ d = f THEN z ELSE t.child[k][d]
  <2>1. u.child = ta.child
    BY <1>6, <1>8 DEF ColorSet, ParentSet
  <2>2. \A k \in Node : \A d \in Side :
           ta.child[k][d] = IF k = z /\ d = "left" THEN l ELSE t3.child[k][d]
    BY <1>3 DEF ChildSet
  <2>3. \A k \in Node : \A d \in Side :
           t3.child[k][d] = IF q # nil /\ k = q /\ d = f THEN z ELSE t.child[k][d]
    BY <1>1 DEF Transplanted
  <2> QED
    BY <2>1, <2>2, <2>3
<1>11. \A k \in Node : u.parent[k] = IF k = l THEN z ELSE IF k = z THEN q ELSE t.parent[k]
  <2>1. u.parent = t4.parent /\ ta.parent = t3.parent
    BY <1>3, <1>8 DEF ColorSet, ChildSet
  <2>2. \A k \in Node : t4.parent[k] = IF k = l THEN z ELSE ta.parent[k]
    BY <1>6 DEF ParentSet
  <2>3. \A k \in Node : t3.parent[k] = IF k = z THEN q ELSE t.parent[k]
    BY <1>1 DEF Transplanted
  <2> QED
    BY <2>1, <2>2, <2>3
<1>12. \A k \in Node : u.color[k] = IF k = z THEN t.color[n] ELSE t.color[k]
  BY <1>7, <1>8 DEF ColorSet
<1>13. QED
  BY <1>9, <1>10, <1>11, <1>12, <1>z DEF EndSpliced

\* The assignments of bst_delete do that, and no assert fails.
LEMMA SpliceFields ==
    ASSUME NEW t \in Tree, NEW U, Shape(t, U), NEW n, NEW z, NEW r, NEW p, NEW l, NEW y, NEW q, NEW f,
           SpliceNodes(t, U, n, z, r, p, l, y, q, f)
    PROVE  Spliced(SpliceTree(t, n, z), t, n, z, r, p, l, y, q, f)
<1>a. l = t.child[n]["left"] /\ y = t.child[n]["right"] /\ r = t.child[z]["right"]
  BY DEF SpliceNodes
<1>b. p = t.parent[z] /\ q = t.parent[n] /\ f \in Side
  BY DEF SpliceNodes
<1>c. q # nil => f = IF t.child[q]["left"] = n THEN "left" ELSE "right"
  BY DEF SpliceNodes
<1>d. /\ {n, z, r, p, l, y, q} \subseteq Node
      /\ n # nil /\ z # nil /\ l # nil /\ y # nil /\ p # nil /\ t.root # nil
  BY SpliceApart
<1>e. z # n /\ z # r /\ z # l /\ z # p /\ n # l /\ n # y /\ n # r /\ l # y /\ l # r /\ y # r
  BY SpliceApart
<1>f. q # n /\ q # z /\ q # p /\ q # l /\ q # y /\ (z = y <=> p = n)
  BY SpliceApart
<1>g. t.child[p][IF z = y THEN "right" ELSE "left"] = z
  BY SpliceApart
<1>h. "left" \in Side /\ "right" \in Side
  BY DEF Side
<1> DEFINE t1 == IF z # y THEN bst_transplant(t, z, r) ELSE bst_set_parent(t, r, z)
           ta == set_child(t1, z, "right", t1.child[n]["right"])
           t2 == IF z # y THEN bst_set_parent(ta, t1.child[n]["right"], z) ELSE t1
           t3 == bst_transplant(t2, n, z)
           t4 == bst_set_parent(set_child(t3, z, "left", t3.child[n]["left"]), t3.child[n]["left"], z)
           u == bst_set_color(t4, z, t4.color[n])
<1>1. u = SpliceTree(t, n, z)
  BY <1>a DEF SpliceTree
<1>2. /\ t2 \in Tree /\ t2.root = t.root /\ t2.color = t.color /\ t2.failed = t.failed
      /\ \A k \in Node : \A d \in Side :
            t2.child[k][d] = IF z # y /\ k = z /\ d = "right" THEN y
                             ELSE IF z # y /\ k = p /\ d = "left" THEN r ELSE t.child[k][d]
      /\ \A k \in Node :
            t2.parent[k] = IF z # y /\ k = y THEN z
                           ELSE IF k = r THEN (IF z = y THEN z ELSE p) ELSE t.parent[k]
  <2>1. CASE z = y
    <3>1. t2 = bst_set_parent(t, r, z)
      BY <2>1
    <3>2. ParentSet(t2, t, r, z)
      BY <3>1, <1>d, SetParentFields
    <3> QED
      BY <2>1, <3>2 DEF ParentSet
  <2>2. CASE z # y
    <3>1. t1 = bst_transplant(t, z, r)
      BY <2>2
    <3>2. Transplanted(t1, t, z, r, p, "left")
      <4>1. p # nil => "left" = IF t.child[p]["left"] = z THEN "left" ELSE "right"
        BY <2>2, <1>g
      <4> QED
        BY <3>1, <4>1, <1>b, <1>d, <1>e, <1>h, TransplantFields
    <3> HIDE DEF t1
    <3>3. t1 \in Tree /\ t1.child[n]["right"] = y
      BY <2>2, <3>2, <1>a, <1>d, <1>f, <1>h DEF Transplanted
    <3>4. ChildSet(ta, t1, z, "right", y)
      BY <3>3, <1>d, <1>h, SetChildFields
    <3>5. t2 = bst_set_parent(ta, y, z)
      BY <2>2, <3>3
    <3> HIDE DEF ta, t2
    <3>6. ta \in Tree
      BY <3>4 DEF ChildSet
    <3>7. ParentSet(t2, ta, y, z)
      BY <3>5, <3>6, <1>d, SetParentFields
    <3>8. t2 \in Tree /\ t2.root = t.root /\ t2.color = t.color /\ t2.failed = t.failed
      BY <3>2, <3>4, <3>7, <1>d DEF ParentSet, ChildSet, Transplanted
    <3>9. t2.child = ta.child /\ ta.parent = t1.parent
      BY <3>4, <3>7 DEF ParentSet, ChildSet
    <3>10. \A k \in Node : \A d \in Side :
              ta.child[k][d] = IF k = z /\ d = "right" THEN y ELSE t1.child[k][d]
      BY <3>4 DEF ChildSet
    <3>11. \A k \in Node : \A d \in Side :
              t1.child[k][d] = IF k = p /\ d = "left" THEN r ELSE t.child[k][d]
      BY <3>2, <1>d DEF Transplanted
    <3>12. \A k \in Node : t2.parent[k] = IF k = y THEN z ELSE t1.parent[k]
      BY <3>7, <3>9 DEF ParentSet
    <3>13. \A k \in Node : t1.parent[k] = IF k = r THEN p ELSE t.parent[k]
      BY <3>2 DEF Transplanted
    <3> QED
      BY <2>2, <3>8, <3>9, <3>10, <3>11, <3>12, <3>13
  <2> QED
    BY <2>1, <2>2
<1> HIDE DEF t2
<1>3. t2.parent[n] = q /\ t2.child[n]["left"] = l
  BY <1>2, <1>a, <1>b, <1>d, <1>e, <1>f, <1>h
<1>4. q # nil => f = IF t2.child[q]["left"] = n THEN "left" ELSE "right"
  <2>1. q # nil => t2.child[q]["left"] = t.child[q]["left"]
    BY <1>2, <1>d, <1>f, <1>h
  <2> QED
    BY <2>1, <1>c
<1>5. u = SpliceEndTree(t2, n, z)
  BY DEF SpliceEndTree
<1> HIDE DEF t3, t4, u
<1>6. t2 \in Tree /\ t2.root # nil /\ n \in Node /\ z \in Node /\ q \in Node
  BY <1>2, <1>d
<1>7. EndSpliced(u, t2, n, z, l, q, f)
  BY <1>3, <1>4, <1>5, <1>6, <1>b, <1>d, <1>e, <1>f, SpliceEnd
<1>8. /\ u \in Tree /\ u.root = (IF q = nil THEN z ELSE t2.root) /\ u.failed = t2.failed
      /\ \A k \in Node : \A d \in Side :
             u.child[k][d] = IF k = z /\ d = "left" THEN l
                             ELSE IF q # nil /\ k = q /\ d = f THEN z
                             ELSE t2.child[k][d]
      /\ \A k \in Node : u.parent[k] = IF k = l THEN z ELSE IF k = z THEN q ELSE t2.parent[k]
      /\ \A k \in Node : u.color[k] = IF k = z THEN t2.color[n] ELSE t2.color[k]
  BY <1>7 DEF EndSpliced
<1>9. ASSUME NEW k \in Node, NEW d \in Side
      PROVE  u.child[k][d] = IF k = z THEN (IF d = "left" THEN l ELSE IF z = y THEN r ELSE y)
                             ELSE IF q # nil /\ k = q /\ d = f THEN z
                             ELSE IF z # y /\ k = p /\ d = "left" THEN r
                             ELSE t.child[k][d]
  <2>1. d = "left" \/ d = "right"
    BY DEF Side
  <2> QED
    BY <2>1, <1>2, <1>8, <1>a, <1>e, <1>f
<1>10. ASSUME NEW k \in Node
       PROVE  u.parent[k] = IF k = l THEN z ELSE IF k = z THEN q ELSE IF k = y THEN z
                            ELSE IF k = r THEN (IF z = y THEN z ELSE p) ELSE t.parent[k]
  BY <1>2, <1>8, <1>e
<1>11. u \in Tree /\ u.root = (IF q = nil THEN z ELSE t.root) /\ u.failed = t.failed
  BY <1>2, <1>8
<1>12. \A k \in Node : u.color[k] = IF k = z THEN t.color[n] ELSE t.color[k]
  BY <1>2, <1>8
<1>13. Spliced(u, t, n, z, r, p, l, y, q, f)
  BY <1>9, <1>10, <1>11, <1>12 DEF Spliced
<1>14. QED
  BY <1>1, <1>13

\* The place of z is where its child r hangs now.
HangsAt(u, n, z, r, p, e) ==
    LET g == IF p = n THEN z ELSE p IN u.parent[r] = g /\ u.child[g][e] = r

\* The splice is the removal of z, and then z in the place of n.
LEMMA SpliceRelabels ==
    ASSUME NEW t \in Tree, NEW U, Shape(t, U), NEW n, NEW z, NEW r, NEW p, NEW l, NEW y, NEW q, NEW f,
           SpliceNodes(t, U, n, z, r, p, l, y, q, f),
           NEW e, e = (IF z = y THEN "right" ELSE "left"),
           NEW v, Transplanted(v, t, z, r, p, e),
           NEW u, Spliced(u, t, n, z, r, p, l, y, q, f)
    PROVE  /\ RemoveNodes(t, U, z, "left", r, p, e)
           /\ Relabelled(u, v, U[t.root] \ {z}, n, z)
           /\ HangsAt(u, n, z, r, p, e)
<1> DEFINE T == U[t.root]
<1>a. l = t.child[n]["left"] /\ y = t.child[n]["right"] /\ r = t.child[z]["right"]
  BY DEF SpliceNodes
<1>b. p = t.parent[z] /\ q = t.parent[n] /\ f \in Side /\ t.child[z]["left"] = nil
  BY DEF SpliceNodes
<1>c. n \in T /\ z \in T /\ p \in T /\ T \subseteq Node
  BY SpliceApart, ShapeNode
<1>d. /\ {n, z, r, p, l, y, q} \subseteq Node
      /\ n # nil /\ z # nil /\ l # nil /\ y # nil /\ p # nil /\ t.root # nil
  BY SpliceApart
<1>e. z # n /\ z # r /\ z # l /\ z # p /\ n # l /\ n # y /\ n # r /\ l # y /\ l # r /\ y # r
  BY SpliceApart
<1>f. q # n /\ q # z /\ q # p /\ q # l /\ q # y /\ (z = y <=> p = n)
  BY SpliceApart
<1>g. t.child[p][e] = z
  BY SpliceApart
<1>h. (n = t.root <=> q = nil) /\ (q # nil => t.child[q][f] = n)
  BY SpliceApart
<1>i. t.parent[l] = n /\ t.parent[y] = n
  BY SpliceApart
<1>j. /\ "left" \in Side /\ "right" \in Side /\ e \in Side /\ Opposite("left") = "right"
      /\ \A d \in Side : d = "left" \/ d = "right"
  BY DEF Side, Opposite
<1>k. z = y => t.child[p]["left"] # z
  BY SpliceApart
<1>l. v \in Tree /\ v.root = t.root /\ v.color = t.color /\ v.failed = t.failed
  BY <1>d DEF Transplanted
<1>m. \A k \in Node : \A d \in Side : v.child[k][d] = IF k = p /\ d = e THEN r ELSE t.child[k][d]
  BY <1>d DEF Transplanted
<1>n. \A k \in Node : v.parent[k] = IF k = r THEN p ELSE t.parent[k]
  BY DEF Transplanted
<1>o. u \in Tree /\ u.root = (IF q = nil THEN z ELSE t.root) /\ u.failed = t.failed
  BY DEF Spliced
<1>p. \A k \in Node : \A d \in Side :
           u.child[k][d] = IF k = z THEN (IF d = "left" THEN l ELSE IF z = y THEN r ELSE y)
                           ELSE IF q # nil /\ k = q /\ d = f THEN z
                           ELSE IF z # y /\ k = p /\ d = "left" THEN r
                           ELSE t.child[k][d]
  BY DEF Spliced
<1>q. \A k \in Node :
           u.parent[k] = IF k = l THEN z ELSE IF k = z THEN q ELSE IF k = y THEN z
                         ELSE IF k = r THEN (IF z = y THEN z ELSE p) ELSE t.parent[k]
  BY DEF Spliced
<1>r. \A k \in Node : u.color[k] = IF k = z THEN t.color[n] ELSE t.color[k]
  BY DEF Spliced
<1>1. RemoveNodes(t, U, z, "left", r, p, e)
  <2>1. e = IF t.child[p]["left"] = z THEN "left" ELSE "right"
    BY <1>g, <1>k
  <2> QED
    BY <2>1, <1>a, <1>b, <1>c, <1>j DEF RemoveNodes
<1>2. ASSUME NEW k \in T, NEW d \in Side, t.child[k][d] = n
      PROVE  q # nil /\ k = q /\ d = f
  <2>1. k = q /\ n # t.child[k][Opposite(d)] /\ n # t.root
    BY <1>2, <1>b, <1>d, ShapeChild
  <2>2. q # nil /\ t.child[q][f] = n
    BY <2>1, <1>h
  <2> QED
    BY <2>1, <2>2, <1>b, OtherSide
<1>3. ASSUME NEW k \in T, t.parent[k] = n
      PROVE  k = l \/ k = y
  <2>1. k # t.root
    BY <1>3, <1>d DEF Shape
  <2>2. \E d \in Side : t.child[n][d] = k
    BY <1>3, <2>1 DEF Shape
  <2> QED
    BY <2>2, <1>a, <1>j
<1>4. ASSUME NEW d \in Side PROVE u.child[z][d] = v.child[n][d]
  <2>1. v.child[n][d] = IF n = p /\ d = e THEN r ELSE t.child[n][d]
    BY <1>d, <1>m
  <2>2. u.child[z][d] = IF d = "left" THEN l ELSE IF z = y THEN r ELSE y
    BY <1>d, <1>p
  <2> QED
    BY <2>1, <2>2, <1>a, <1>f, <1>j
<1>5. ASSUME NEW k \in (T \ {z}) \ {n}, NEW d \in Side
      PROVE  u.child[k][d] = IF v.child[k][d] = n THEN z ELSE v.child[k][d]
  <2>0. k \in Node /\ k # z /\ k # n
    BY <1>c
  <2>1. v.child[k][d] = IF k = p /\ d = e THEN r ELSE t.child[k][d]
    BY <2>0, <1>m
  <2>2. u.child[k][d] = IF q # nil /\ k = q /\ d = f THEN z
                        ELSE IF z # y /\ k = p /\ d = "left" THEN r ELSE t.child[k][d]
    BY <2>0, <1>p
  <2>3. t.child[k][d] = n <=> q # nil /\ k = q /\ d = f
    BY <1>2, <1>h
  <2>4. k = p => z # y
    BY <2>0, <1>f
  <2> QED
    BY <2>1, <2>2, <2>3, <2>4, <1>e, <1>f
<1>6. u.parent[z] = v.parent[n]
  BY <1>b, <1>d, <1>e, <1>n, <1>q
<1>7. ASSUME NEW k \in (T \ {z}) \ {n}
      PROVE  u.parent[k] = IF v.parent[k] = n THEN z ELSE v.parent[k]
  <2>0. k \in Node /\ k # z /\ k # n
    BY <1>c
  <2>1. v.parent[k] = IF k = r THEN p ELSE t.parent[k]
    BY <2>0, <1>n
  <2>2. u.parent[k] = IF k = l THEN z ELSE IF k = y THEN z
                      ELSE IF k = r THEN (IF z = y THEN z ELSE p) ELSE t.parent[k]
    BY <2>0, <1>q
  <2>3. t.parent[k] = n => k = l \/ k = y
    BY <1>3
  <2> QED
    BY <2>1, <2>2, <2>3, <1>e, <1>f, <1>i
<1>8. /\ u.color[z] = v.color[n] /\ u.color[nil] = v.color[nil]
      /\ \A k \in (T \ {z}) \ {n} : u.color[k] = v.color[k]
  <2>1. nil \in Node
    BY DEF Node
  <2> QED
    BY <2>1, <1>c, <1>d, <1>l, <1>r
<1>9. u.root = IF v.root = n THEN z ELSE v.root
  BY <1>h, <1>l, <1>o
<1>10. Relabelled(u, v, T \ {z}, n, z)
  BY <1>4, <1>5, <1>6, <1>7, <1>8, <1>9, <1>l, <1>o DEF Relabelled
<1>11. u.parent[r] = (IF p = n THEN z ELSE p)
  BY <1>d, <1>e, <1>f, <1>q
<1>12. u.child[IF p = n THEN z ELSE p][e] = r
  <2>1. CASE p = n
    BY <2>1, <1>4, <1>d, <1>f, <1>j, <1>p
  <2>2. CASE p # n
    BY <2>2, <1>d, <1>e, <1>f, <1>j, <1>p
  <2> QED
    BY <2>1, <2>2
<1>13. QED
  BY <1>1, <1>10, <1>11, <1>12 DEF HangsAt

\* What bst_delete leaves behind when it removes n, which has at most one child.
LEMMA RemoveSound ==
    ASSUME NEW t \in Tree, NEW U, Shape(t, U), NEW H, Balanced(t, U[t.root], H), t.color[nil] = BST_BLACK,
           NEW n, NEW s, NEW r, NEW p, NEW e, RemoveNodes(t, U, n, s, r, p, e),
           NEW u, Transplanted(u, t, n, r, p, e)
    PROVE  /\ u.color[nil] = BST_BLACK
           /\ t.color[n] = BST_RED => Balanced(u, U[t.root] \ {n}, H)
           /\ t.color[n] = BST_BLACK => DeleteOK(u, U[t.root] \ {n}, H, r)
<1> DEFINE T == U[t.root]
<1>1. Heights(t, T, H, nil, "left") /\ RedApart(t, T, nil, nil) /\ t.color[t.root] = BST_BLACK
  BY DEF Balanced
<1>2. /\ n = t.root <=> p = nil
      /\ p # nil => p \in T /\ p # n
      /\ e \in Side /\ r \in Node /\ p \in Node
  BY RemoveApart
<1>3. /\ u \in Tree /\ u.root = (IF p = nil THEN r ELSE t.root) /\ u.color = t.color
      /\ p # nil => u.child[p][e] = r
      /\ u.parent[r] = p
  BY <1>2 DEF Transplanted
<1>4. BST_RED # BST_BLACK
  BY DEF BST_RED, BST_BLACK
<1>5. ASSUME t.color[n] = BST_RED PROVE Balanced(u, T \ {n}, H)
  <2>1. Heights(u, T \ {n}, H, nil, "left") /\ RedApart(u, T \ {n}, nil, nil)
    BY <1>1, <1>5, RemoveColors
  <2>2. n # t.root
    BY <1>1, <1>4, <1>5
  <2> QED
    BY <2>1, <2>2, <1>1, <1>2, <1>3 DEF Balanced
<1>6. ASSUME t.color[n] = BST_BLACK PROVE DeleteOK(u, T \ {n}, H, r)
  <2>1. Heights(u, T \ {n}, H, p, e) /\ RedApart(u, T \ {n}, nil, r)
    BY <1>1, <1>6, RemoveColors
  <2>2. RedApart(u, T \ {n}, r, r)
    <3>1. nil \notin T \ {n}
      BY ShapeNode
    <3> QED
      BY <2>1, <3>1 DEF RedApart
  <2>3. CASE p = nil
    <3>1. r = u.root
      BY <2>3, <1>3
    <3>2. Heights(u, T \ {n}, H, nil, "left")
      <4>1. nil \notin T \ {n}
        BY ShapeNode
      <4> QED
        BY <2>1, <2>3, <4>1 DEF Heights
    <3> QED
      BY <2>2, <3>1, <3>2 DEF DeleteOK
  <2>4. CASE p # nil
    <3>1. u.root = t.root /\ u.color[u.root] = BST_BLACK
      BY <2>4, <1>1, <1>3
    <3>2. r # u.root
      <4>1. r # nil => t.parent[r] = n /\ r \in T
        BY RemoveApart
      <4>2. n # nil /\ t.root # nil
        BY RemoveApart
      <4>3. t.parent[t.root] = nil
        BY <4>2 DEF Shape
      <4> QED
        BY <3>1, <4>1, <4>2, <4>3
    <3>3. u.parent[r] \in T \ {n} /\ u.child[u.parent[r]][e] = r
      BY <2>4, <1>2, <1>3
    <3> QED
      BY <2>1, <2>2, <3>1, <3>2, <3>3, <1>2, <1>3 DEF DeleteOK
  <2> QED
    BY <2>3, <2>4
<1>7. QED
  BY <1>3, <1>5, <1>6

\* What bst_delete leaves behind when the successor z takes the place of n.
LEMMA SpliceSound ==
    ASSUME NEW t \in Tree, NEW U, Shape(t, U), NEW H, Balanced(t, U[t.root], H), t.color[nil] = BST_BLACK,
           NEW val, Ordered(t, U, val),
           NEW n, NEW z, NEW r, NEW p, NEW l, NEW y, NEW q, NEW f,
           SpliceNodes(t, U, n, z, r, p, l, y, q, f),
           \A m \in U[y] \ U[z] : Beyond("right", val[m], val[z]),
           NEW u, Spliced(u, t, n, z, r, p, l, y, q, f)
    PROVE  \E W, H2 :
             /\ Shape(u, W) /\ W[u.root] = U[t.root] \ {n} /\ Ordered(u, W, val)
             /\ u.color[nil] = BST_BLACK
             /\ t.color[z] = BST_RED => Balanced(u, U[t.root] \ {n}, H2)
             /\ t.color[z] = BST_BLACK => DeleteOK(u, U[t.root] \ {n}, H2, r)
<1> DEFINE T == U[t.root]
           e == IF z = y THEN "right" ELSE "left"
           v == bst_transplant(t, z, r)
           V == [k \in Node |-> U[k] \ {z}]
           W == [k \in Node |-> IF k = z THEN (V[n] \ {n}) \cup {z}
                                ELSE IF n \in V[k] THEN (V[k] \ {n}) \cup {z} ELSE V[k]]
           H2 == [H EXCEPT ![z] = H[n]]
<1>a. Heights(t, T, H, nil, "left") /\ RedApart(t, T, nil, nil) /\ t.color[t.root] = BST_BLACK
  BY DEF Balanced
<1>b. l = t.child[n]["left"] /\ y = t.child[n]["right"] /\ r = t.child[z]["right"]
  BY DEF SpliceNodes
<1>c. p = t.parent[z] /\ t.child[z]["left"] = nil /\ z \in U[y]
  BY DEF SpliceNodes
<1>d. n \in T /\ z \in T /\ p \in T /\ y \in T /\ l \in T /\ z \in Nodes /\ n \in Nodes
  BY SpliceApart
<1>e. n \in Node /\ z \in Node /\ r \in Node /\ p \in Node /\ y \in Node /\ n # nil /\ z # nil /\ p # nil /\ t.root # nil
  BY SpliceApart
<1>f. z # n /\ z # r /\ z # p /\ n # r
  BY SpliceApart
<1>g. (z = y <=> p = n) /\ t.child[p][e] = z
  BY SpliceApart
<1>h. z = y => t.child[p]["left"] # z
  BY SpliceApart
<1>i. /\ "left" \in Side /\ "right" \in Side /\ e \in Side /\ Opposite("left") = "right"
      /\ Opposite("right") = "left" /\ \A d \in Side : d = "left" \/ d = "right"
  BY DEF Side, Opposite
<1>1. Transplanted(v, t, z, r, p, e)
  <2>1. p # nil => e = IF t.child[p]["left"] = z THEN "left" ELSE "right"
    BY <1>g, <1>h
  <2> HIDE DEF e
  <2> QED
    BY <2>1, <1>c, <1>e, <1>f, <1>i, TransplantFields
<1>2. /\ RemoveNodes(t, U, z, "left", r, p, e)
      /\ Relabelled(u, v, T \ {z}, n, z)
      /\ u.parent[r] = (IF p = n THEN z ELSE p)
      /\ u.child[IF p = n THEN z ELSE p][e] = r
  <2>0. e = (IF z = y THEN "right" ELSE "left")
    OBVIOUS
  <2> HIDE DEF v, e
  <2>1. RemoveNodes(t, U, z, "left", r, p, e)
    BY <2>0, <1>1, SpliceRelabels
  <2>2. Relabelled(u, v, U[t.root] \ {z}, n, z)
    BY <2>0, <1>1, SpliceRelabels
  <2>3. HangsAt(u, n, z, r, p, e)
    BY <2>0, <1>1, SpliceRelabels
  <2> QED
    BY <2>1, <2>2, <2>3 DEF HangsAt
<1>3. RemovedUnder(V, U, z) /\ RelabelledUnder(W, V, n, z)
  BY DEF RemovedUnder, RelabelledUnder
<1>4. \A k \in Node : V[k] = U[k] \ {z}
  OBVIOUS
<1>5. v \in Tree /\ v.color = t.color /\ v.root = t.root
  BY <1>1, <1>e DEF Transplanted
<1>6. \A k \in Node : \A d \in Side : v.child[k][d] = IF k = p /\ d = e THEN r ELSE t.child[k][d]
  BY <1>1, <1>e DEF Transplanted
<1> HIDE DEF v, V, W, e, H2
<1>7. Shape(v, V) /\ V[v.root] = T \ {z} /\ Ordered(v, V, val)
  BY <1>1, <1>2, <1>3, RemoveShape
<1>8. n \in V[v.root] /\ z \in Nodes \ V[v.root] /\ val[z] \in Keys /\ val[n] \in Keys
  BY <1>7, <1>d, <1>f DEF Ordered
<1>9. ASSUME NEW d \in Side, NEW m \in V[v.child[n][d]]
      PROVE  Beyond(d, val[m], val[z])
  <2>0. Beyond("right", val[z], val[n])
    BY <1>b, <1>c, <1>d, <1>i DEF Ordered
  <2>1. v.child[n][d] \in Node
    BY <1>5, <1>e, ReadType
  <2>2. m \in U[v.child[n][d]] /\ m # z
    BY <2>1, <1>4, <1>9
  <2>3. CASE d = "left"
    <3>1. v.child[n][d] = l
      <4>1. n = p => e = "right"
        BY <1>g DEF e
      <4> QED
        BY <2>3, <4>1, <1>6, <1>b, <1>e, <1>i
    <3>2. m \in U[t.child[n]["left"]]
      BY <2>2, <3>1, <1>b
    <3>3. Beyond("left", val[m], val[n])
      BY <3>2, <1>d, <1>i DEF Ordered
    <3>4. m \in T
      BY <2>2, <3>1, <1>d, ShapeNode
    <3>5. val[m] \in Keys
      BY <3>4 DEF Ordered
    <3>6. Beyond("left", val[n], val[z])
      BY <2>0, <1>8, <1>i, BeyondOrder
    <3> QED
      BY <2>3, <3>3, <3>5, <3>6, <1>8, <1>i, BeyondTrans
  <2>4. CASE d = "right"
    <3>1. U[z] = {z} \cup U[r]
      <4>1. U[z] = {z} \cup U[nil] \cup U[r]
        BY <1>b, <1>c, <1>d, <1>i, ShapeSplit
      <4> QED
        BY <4>1 DEF Shape
    <3>2. U[z] \subseteq U[y]
      BY <1>c, <1>d, ShapeClosed
    <3>3. v.child[n][d] = y \/ v.child[n][d] = r
      BY <2>4, <1>6, <1>b, <1>e, <1>i
    <3>4. m \in U[y]
      BY <2>2, <3>1, <3>2, <3>3
    <3>5. CASE m \in U[z]
      <4>1. m \in U[t.child[z]["right"]]
        BY <2>2, <3>1, <3>5, <1>b
      <4> QED
        BY <2>4, <4>1, <1>d, <1>i DEF Ordered
    <3>6. CASE m \notin U[z]
      BY <2>4, <3>4, <3>6
    <3> QED
      BY <3>5, <3>6
  <2> QED
    BY <2>3, <2>4, <1>i
<1>10. ASSUME NEW k \in V[v.root] \ {n}, NEW d \in Side, n \in V[v.child[k][d]]
       PROVE  Beyond(d, val[z], val[k])
  <2>1. k \in T /\ k \in Node
    BY <1>7, ShapeNode
  <2>2. v.child[k][d] \in Node
    BY <2>1, <1>5, ReadType
  <2>3. n \in U[v.child[k][d]]
    BY <2>2, <1>4, <1>10
  <2>4. v.child[k][d] # r
    <3>1. U[r] \subseteq U[y]
      <4>1. r = nil => U[r] = {}
        BY DEF Shape
      <4>2. r # nil => r \in U[z] /\ U[r] \subseteq U[z]
        BY <1>b, <1>d, <1>i, ShapeChild
      <4>3. U[z] \subseteq U[y]
        BY <1>c, <1>d, ShapeClosed
      <4> QED
        BY <4>1, <4>2, <4>3
    <3>2. n \notin U[y]
      <4>1. y # nil
        BY SpliceApart
      <4> QED
        BY <4>1, <1>b, <1>d, <1>i, ShapeChild
    <3> QED
      BY <2>3, <3>1, <3>2
  <2>5. v.child[k][d] = t.child[k][d]
    BY <2>1, <2>4, <1>6
  <2>6. t.child[k][d] # nil
    BY <2>3, <2>5 DEF Shape
  <2>7. t.child[k][d] \in T
    BY <2>1, <2>6, ShapeChild
  <2>8. z \in U[n]
    <3>1. U[y] \subseteq U[n]
      <4>1. y # nil
        BY SpliceApart
      <4> QED
        BY <4>1, <1>b, <1>d, <1>i, ShapeChild
    <3> QED
      BY <3>1, <1>c
  <2>9. z \in U[t.child[k][d]]
    BY <2>3, <2>5, <2>7, <2>8, ShapeClosed
  <2> QED
    BY <2>1, <2>9 DEF Ordered
<1>11. Relabelled(u, v, V[v.root], n, z)
  BY <1>2, <1>7
<1>12. Shape(u, W) /\ W[u.root] = (V[v.root] \ {n}) \cup {z} /\ Ordered(u, W, val)
  <2>1. \A d \in Side : \A m \in V[v.child[n][d]] : Beyond(d, val[m], val[z])
    BY <1>9
  <2>2. \A k \in V[v.root] \ {n} : \A d \in Side :
           n \in V[v.child[k][d]] => Beyond(d, val[z], val[k])
    BY <1>10
  <2>3. Shape(v, V) /\ Ordered(v, V, val) /\ Belongs(v, V, n, z, val)
    BY <2>1, <2>2, <1>7, <1>8 DEF Belongs
  <2> QED
    BY <2>3, <1>3, <1>5, <1>8, <1>11, RelabelShape
<1>13. W[u.root] = T \ {n}
  BY <1>7, <1>12, <1>d, <1>f
<1>14. u.color[nil] = BST_BLACK
  BY <1>5, <1>2 DEF Relabelled
<1>15. nil # n /\ nil # z /\ ((T \ {z}) \ {n}) \cup {z} = T \ {n}
  BY <1>d, <1>e, <1>f
<1>16. u.color[u.root] = BST_BLACK
  <2>1. u.root = (IF t.root = n THEN z ELSE t.root) /\ u.color[z] = t.color[n]
    BY <1>2, <1>5 DEF Relabelled
  <2>2. t.root \in T
    BY <1>e DEF Shape
  <2>3. z # t.root
    <3>1. t.parent[t.root] = nil
      BY <1>e DEF Shape
    <3> QED
      BY <3>1, <1>c, <1>e
  <2>4. t.root # n => u.color[t.root] = t.color[t.root]
    BY <2>2, <2>3, <1>2, <1>5 DEF Relabelled
  <2> QED
    BY <2>1, <2>4, <1>a
<1>j. /\ t.color[z] = BST_RED => /\ Heights(v, T \ {z}, H, nil, "left")
                                  /\ RedApart(v, T \ {z}, nil, nil)
      /\ t.color[z] = BST_BLACK => /\ Heights(v, T \ {z}, H, p, e)
                                    /\ RedApart(v, T \ {z}, nil, r)
  <2>1. t \in Tree /\ Shape(t, U) /\ t.color[nil] = BST_BLACK
    OBVIOUS
  <2>2. RemoveNodes(t, U, z, "left", r, p, e)
    BY <1>2
  <2> QED
    BY ONLY <2>1, <2>2, <1>1, <1>a, RemoveColors
<1>17. ASSUME t.color[z] = BST_RED PROVE Balanced(u, T \ {n}, H2)
  <2>1. Heights(v, T \ {z}, H, nil, "left") /\ RedApart(v, T \ {z}, nil, nil)
    BY <1>17, <1>j
  <2>2. Heights(v, V[v.root], H, nil, "left") /\ RedApart(v, V[v.root], nil, nil)
    BY <2>1, <1>7
  <2>3. /\ Heights(u, (V[v.root] \ {n}) \cup {z}, H2, IF nil = n THEN z ELSE nil, "left")
        /\ RedApart(u, (V[v.root] \ {n}) \cup {z}, nil, nil)
    BY <2>2, <1>5, <1>7, <1>8, <1>11, <1>15, RelabelColors DEF H2
  <2> QED
    BY <2>3, <1>7, <1>15, <1>16 DEF Balanced
<1>18. ASSUME t.color[z] = BST_BLACK PROVE DeleteOK(u, T \ {n}, H2, r)
  <2> DEFINE g == IF p = n THEN z ELSE p
  <2>1. Heights(v, T \ {z}, H, p, e) /\ RedApart(v, T \ {z}, nil, r)
    BY <1>18, <1>j
  <2>2. Heights(v, V[v.root], H, p, e) /\ RedApart(v, V[v.root], nil, r)
    BY <2>1, <1>7
  <2>3. /\ Heights(u, (V[v.root] \ {n}) \cup {z}, H2, g, e)
        /\ RedApart(u, (V[v.root] \ {n}) \cup {z}, nil, r)
    BY <2>2, <1>5, <1>7, <1>8, <1>11, <1>15, <1>f, RelabelColors DEF H2
  <2>4. Heights(u, T \ {n}, H2, g, e) /\ RedApart(u, T \ {n}, nil, r)
    BY <2>3, <1>7, <1>15
  <2>5. RedApart(u, T \ {n}, r, r)
    <3>1. nil \notin T
      BY ShapeNode
    <3> QED
      BY <2>4, <3>1 DEF RedApart
  <2>6. u.parent[r] = g /\ u.child[g][e] = r /\ g \in T \ {n}
    BY <1>2, <1>d, <1>f
  <2>7. r # u.root
    <3>1. u.root # nil => u.parent[u.root] = nil
      BY <1>12 DEF Shape
    <3>2. u.root # nil
      <4>1. z \in W[u.root]
        BY <1>12
      <4> QED
        BY <4>1, <1>12 DEF Shape
    <3>3. g # nil
      BY <1>e
    <3> QED
      BY <2>6, <3>1, <3>2, <3>3
  <2> HIDE DEF g
  <2> QED
    BY <2>4, <2>5, <2>6, <2>7, <1>16, <1>i DEF DeleteOK
<1>19. QED
  BY <1>12, <1>13, <1>14, <1>17, <1>18

\* Painting m, and then n.
LEMMA PaintFields ==
    ASSUME NEW t \in Tree, NEW m \in Node, NEW n \in Node, n # m,
           NEW c \in {BST_RED, BST_BLACK}, NEW e \in {BST_RED, BST_BLACK}
    PROVE  Painted(bst_set_color(bst_set_color(t, n, e), m, c), t, m, c, n, e)
<1> DEFINE v == bst_set_color(t, n, e)
           u == bst_set_color(v, m, c)
<1>1. ColorSet(v, t, n, e)
  BY SetColorFields
<1>2. v \in Tree
  BY <1>1 DEF ColorSet
<1> HIDE DEF v
<1>3. ColorSet(u, v, m, c)
  BY <1>2, SetColorFields
<1> HIDE DEF u
<1>4. Painted(u, t, m, c, n, e)
  BY <1>1, <1>3 DEF ColorSet, Painted
<1>5. QED
  BY <1>4 DEF u, v

\* What a rotation at a node with a child to lift does to shape and order.
LEMMA RotateSound ==
    ASSUME NEW t \in Tree, NEW U, Shape(t, U), NEW val, Ordered(t, U, val),
           NEW s \in Side, NEW n, NEW y, NEW b, NEW p, RotateNodes(t, U, s, n, y, b, p)
    PROVE  /\ Rotated(bst_rotate(t, s, n), t, s, n, y, b, p)
           /\ \E W : /\ Shape(bst_rotate(t, s, n), W)
                     /\ W[bst_rotate(t, s, n).root] = U[t.root]
                     /\ Ordered(bst_rotate(t, s, n), W, val)
<1> DEFINE u == bst_rotate(t, s, n)
           W == [U EXCEPT ![n] = {n} \cup U[t.child[n][s]] \cup U[b], ![y] = U[n]]
<1>1. Rotated(u, t, s, n, y, b, p)
  BY RotateFields
<1>2. RotatedUnder(W, U, t, s, n, y, b)
  BY DEF RotatedUnder
<1> HIDE DEF u, W
<1>3. Shape(u, W) /\ W[u.root] = U[t.root]
  BY <1>1, <1>2, RotateShape
<1>4. Ordered(u, W, val)
  BY <1>1, <1>2, RotateOrdered
<1>5. QED
  BY <1>1, <1>3, <1>4 DEF u

\* A tree that is sound in shape, order and colours.
GoodTree(u, W, T, val, H) ==
    /\ u \in Tree /\ Shape(u, W) /\ W[u.root] = T /\ Ordered(u, W, val)
    /\ Balanced(u, T, H) /\ u.color[nil] = BST_BLACK

\* u is t with the red-black rules restored.
Settled(u, t, T, val) == (\E W, H : GoodTree(u, W, T, val, H)) /\ u.failed = t.failed

\* The nodes outside of S keep their children.
LinksKept(u, t, S) == \A k \in Node \ S : \A r \in Side : u.child[k][r] = t.child[k][r]

\* The end of bst_fixup_insert: p and g change their colours, and p rises above g.
OuterTree(t, p, g, s) ==
    bst_rotate(bst_set_color(bst_set_color(t, p, BST_BLACK), g, BST_RED), Opposite(s), g)

\* It restores the red-black rules.
LEMMA OuterSound ==
    ASSUME NEW t \in Tree, NEW U, Shape(t, U), NEW val, Ordered(t, U, val),
           NEW H, NEW z, RedChild(t, U, H, z),
           NEW p, NEW g, NEW s, NEW w, Family(t, z, p, g, s, w), z = t.child[p][s],
           t.color[w] = BST_BLACK
    PROVE  /\ Settled(OuterTree(t, p, g, s), t, U[t.root], val)
           /\ LinksKept(OuterTree(t, p, g, s), t, {g, p, t.parent[g]})
           /\ OuterTree(t, p, g, s).child[p][s] = z
<1> DEFINE u == OuterTree(t, p, g, s)
           v == bst_set_color(bst_set_color(t, p, BST_BLACK), g, BST_RED)
           o == Opposite(s)
           b == t.child[p][o]
           q == t.parent[g]
<1>1. /\ p \in U[t.root] /\ g \in U[t.root] /\ s \in Side /\ p \in Node /\ g \in Node /\ p # nil
      /\ p # g /\ t.child[g][s] = p
  BY FamilyNodes
<1>2. o \in Side /\ o # s /\ Opposite(o) = s
  BY <1>1, OtherSide
<1>3. Painted(v, t, g, BST_RED, p, BST_BLACK)
  BY <1>1, PaintFields
<1>4. u = bst_rotate(v, o, g)
  BY DEF OuterTree
<1> HIDE DEF u, v
<1>5. v \in Tree /\ v.root = t.root /\ v.child = t.child /\ v.parent = t.parent /\ v.failed = t.failed
  BY <1>3 DEF Painted
<1>6. Shape(v, U) /\ Ordered(v, U, val)
  BY <1>5, SameLinks
<1>7. RotateNodes(v, U, o, g, p, b, q)
  BY <1>1, <1>2, <1>5 DEF RotateNodes
<1>8. Rotated(u, v, o, g, p, b, q)
  BY <1>2, <1>4, <1>5, <1>6, <1>7, RotateSound
<1>9. PICK W : Shape(u, W) /\ W[u.root] = U[v.root] /\ Ordered(u, W, val)
  BY <1>2, <1>4, <1>5, <1>6, <1>7, RotateSound
<1>10. PICK H2 : Balanced(u, U[t.root], H2) /\ u.color[nil] = BST_BLACK
  <2>1. OuterNodes(t, z, p, g, s, w, b, q) /\ Rotated(u, v, Opposite(s), g, p, b, q)
    BY <1>8 DEF OuterNodes
  <2> HIDE DEF b, q, o
  <2> QED
    BY <2>1, <1>3, OuterColors
<1>11. GoodTree(u, W, U[t.root], val, H2)
  <2>1. u \in Tree
    BY <1>8 DEF Rotated
  <2> QED
    BY <2>1, <1>5, <1>9, <1>10 DEF GoodTree, Balanced
<1>12. u.failed = t.failed
  BY <1>5, <1>8 DEF Rotated
<1>13. \A k \in Node : \A r \in Side :
           u.child[k][r] = IF k = g /\ r = s THEN b
                           ELSE IF k = p /\ r = o THEN g
                           ELSE IF k = q /\ q # nil /\ t.child[k][r] = g THEN p
                           ELSE t.child[k][r]
  BY <1>2, <1>5, <1>8 DEF Rotated
<1>14. u.child[p][s] = z
  <2>1. p # q
    <3>1. t.parent[p] = g
      BY FamilyNodes
    <3>2. g # t.root => q \notin U[g]
      BY <1>1, ShapeParent
    <3>3. g = t.root => q = nil
      BY <1>1, ShapeNode DEF Shape
    <3>4. p \in U[g]
      BY FamilyNodes
    <3> QED
      BY <3>2, <3>3, <3>4, <1>1
  <2> QED
    BY <2>1, <1>1, <1>2, <1>13
<1>15. QED
  BY <1>11, <1>12, <1>13, <1>14 DEF Settled, LinksKept, u

\* The rotations of bst_fixup_insert.
InsertTree(t, z, p, g, s) ==
    LET inner == z = t.child[p][Opposite(s)]
        t1    == IF inner THEN bst_rotate(t, s, p) ELSE t
        n     == IF inner THEN p ELSE z
    IN  OuterTree(t1, t1.parent[n], g, s)

\* It restores the red-black rules.
LEMMA InsertRotateSound ==
    ASSUME NEW t \in Tree, NEW U, Shape(t, U), NEW val, Ordered(t, U, val),
           NEW H, NEW z, RedChild(t, U, H, z),
           NEW p, NEW g, NEW s, NEW w, Family(t, z, p, g, s, w),
           t.color[w] = BST_BLACK
    PROVE  /\ Settled(InsertTree(t, z, p, g, s), t, U[t.root], val)
           /\ LinksKept(InsertTree(t, z, p, g, s), t, {z, g, p, t.parent[g]})
           /\ z # t.child[p][Opposite(s)] => InsertTree(t, z, p, g, s).child[p][s] = z
<1> DEFINE o == Opposite(s)
<1>1. /\ z \in U[t.root] /\ p \in U[t.root] /\ g \in U[t.root] /\ s \in Side /\ z \in Node /\ p \in Node
      /\ z # p /\ z # g /\ p # g /\ z # nil /\ t.parent[z] = p /\ t.parent[p] = g
  BY FamilyNodes
<1>2. PICK e \in Side : t.child[p][e] = z
  BY FamilyNodes
<1>3. o \in Side /\ o # s /\ Opposite(o) = s
  BY <1>1, OtherSide
<1>4. CASE z # t.child[p][o]
  <2>1. z = t.child[p][s]
    BY <1>1, <1>2, <1>4, OtherSide
  <2> DEFINE u == OuterTree(t, p, g, s)
  <2>2. InsertTree(t, z, p, g, s) = u
    BY <1>1, <1>4 DEF InsertTree
  <2>3. Settled(u, t, U[t.root], val) /\ LinksKept(u, t, {g, p, t.parent[g]}) /\ u.child[p][s] = z
    BY <2>1, OuterSound
  <2> HIDE DEF u
  <2>4. LinksKept(u, t, {z, g, p, t.parent[g]})
    BY <2>3 DEF LinksKept
  <2> QED
    BY <2>2, <2>3, <2>4
<1>5. CASE z = t.child[p][o]
  <2> DEFINE b == t.child[z][s]
             t1 == bst_rotate(t, s, p)
             u == OuterTree(t1, z, g, s)
  <2>0. b = t.child[z][s]
    OBVIOUS
  <2>1. InsertTree(t, z, p, g, s) = OuterTree(t1, t1.parent[p], g, s)
    BY <1>5 DEF InsertTree
  <2>a. t1 = bst_rotate(t, s, p)
    OBVIOUS
  <2> HIDE DEF b, t1
  <2>2. RotateNodes(t, U, s, p, z, b, g)
    BY <2>0, <1>1, <1>5 DEF RotateNodes
  <2>3. Rotated(t1, t, s, p, z, b, g)
    BY <2>a, <2>2, <1>1, RotateSound
  <2>4. PICK W : Shape(t1, W) /\ W[t1.root] = U[t.root] /\ Ordered(t1, W, val)
    BY <2>a, <2>2, <1>1, RotateSound
  <2>5. RedChild(t1, W, H, p) /\ Family(t1, p, z, g, s, w) /\ p = t1.child[z][s]
    BY <2>0, <2>3, <2>4, <1>5, InnerColors
  <2>6. t1 \in Tree /\ t1.color = t.color /\ t1.failed = t.failed /\ t1.parent[p] = z
    BY <2>3, <1>1 DEF Rotated
  <2>7. \A k \in Node : \A r \in Side :
           t1.child[k][r] = IF k = p /\ r = o THEN b
                            ELSE IF k = z /\ r = s THEN p
                            ELSE IF k = g /\ g # nil /\ t.child[k][r] = p THEN z
                            ELSE t.child[k][r]
    BY <2>3 DEF Rotated
  <2>8. t1.parent[g] = t.parent[g]
    <3>1. b # g
      <4>1. b # nil => t.parent[b] = z /\ b \in U[z]
        BY <2>0, <1>1, ShapeChild
      <4>2. g \notin U[p] /\ U[z] \subseteq U[p]
        BY <1>1, <1>5, <1>3, FamilyNodes, ShapeChild, ShapeParent
      <4>3. g # nil
        BY FamilyNodes
      <4> QED
        BY <4>1, <4>2, <4>3
    <3>2. g \in Node
      BY FamilyNodes
    <3> QED
      BY <2>3, <3>1, <3>2, <1>1 DEF Rotated
  <2>9. InsertTree(t, z, p, g, s) = u
    BY <2>1, <2>6
  <2>10. t1.color[w] = BST_BLACK
    BY <2>6
  <2>11. Settled(u, t1, W[t1.root], val) /\ LinksKept(u, t1, {g, z, t1.parent[g]})
    BY <2>4, <2>5, <2>6, <2>10, OuterSound
  <2> HIDE DEF u
  <2>12. LinksKept(u, t, {z, g, p, t.parent[g]})
    <3>1. ASSUME NEW k \in Node \ {z, g, p, t.parent[g]}, NEW r \in Side
          PROVE  u.child[k][r] = t.child[k][r]
      <4>1. u.child[k][r] = t1.child[k][r]
        BY <2>8, <2>11 DEF LinksKept
      <4>2. t1.child[k][r] = t.child[k][r]
        BY <2>7
      <4> QED
        BY <4>1, <4>2
    <3> QED
      BY <3>1 DEF LinksKept
  <2>13. Settled(u, t, U[t.root], val)
    BY <2>4, <2>6, <2>11 DEF Settled
  <2> QED
    BY <2>9, <2>12, <2>13, <1>5
<1>6. QED
  BY <1>4, <1>5

\* The nodes outside of T keep their links.
OutsideKept(u, t, T) ==
    \A k \in Nodes \ T : u.parent[k] = t.parent[k] /\ \A r \in Side : u.child[k][r] = t.child[k][r]

\* A rotation does not touch the nodes outside of the tree.
LEMMA RotateOutside ==
    ASSUME NEW t \in Tree, NEW U, Shape(t, U), NEW s \in Side, NEW n, NEW y, NEW b, NEW p,
           RotateNodes(t, U, s, n, y, b, p), NEW u, Rotated(u, t, s, n, y, b, p)
    PROVE  OutsideKept(u, t, U[t.root])
<1>1. n \in U[t.root] /\ y \in U[t.root] /\ (b # nil => b \in U[t.root]) /\ (p # nil => p \in U[t.root])
  BY RotateApart
<1>2. ASSUME NEW k \in Nodes \ U[t.root]
      PROVE  u.parent[k] = t.parent[k] /\ \A r \in Side : u.child[k][r] = t.child[k][r]
  <2>1. k \in Node /\ k # n /\ k # y /\ ~(k = b /\ b # nil) /\ ~(k = p /\ p # nil)
    BY <1>1, NotNil
  <2>2. u.parent[k] = t.parent[k]
    BY <2>1 DEF Rotated
  <2>3. ASSUME NEW r \in Side PROVE u.child[k][r] = t.child[k][r]
    BY <2>1 DEF Rotated
  <2> QED
    BY <2>2, <2>3
<1> QED
  BY <1>2 DEF OutsideKept

\* A tree that lacks a black node above z, whose sibling is black.
GapTree(u, W, T, val, H, z, p, s) ==
    /\ u \in Tree /\ Shape(u, W) /\ W[u.root] = T /\ Ordered(u, W, val) /\ Missing(u, W, H, z, p, s)
    /\ u.color[u.child[p][Opposite(s)]] = BST_BLACK

\* The tree once a red sibling has been rotated above p.
SiblingTree(t, p, s) ==
    LET w == t.child[p][Opposite(s)]
    IN  IF t.color[w] = BST_RED
        THEN bst_rotate(bst_set_color(bst_set_color(t, w, BST_BLACK), p, BST_RED), s, p)
        ELSE t

\* Its sibling is black.
LEMMA SiblingSound ==
    ASSUME NEW t \in Tree, NEW U, Shape(t, U), NEW val, Ordered(t, U, val),
           NEW H, NEW z, NEW p, NEW s, Missing(t, U, H, z, p, s)
    PROVE  /\ \E W, H2 : GapTree(SiblingTree(t, p, s), W, U[t.root], val, H2, z, p, s)
           /\ SiblingTree(t, p, s).failed = t.failed
           /\ OutsideKept(SiblingTree(t, p, s), t, U[t.root])
<1> DEFINE w == t.child[p][Opposite(s)]
           u == SiblingTree(t, p, s)
<1>0. w = t.child[p][Opposite(s)]
  OBVIOUS
<1>1. /\ p \in U[t.root] /\ p \in Node /\ p # nil /\ s \in Side
      /\ w \in U[t.root] /\ w \in Node /\ w # nil /\ w # p
  BY <1>0, MissingNodes
<1>2. t.color[w] \in {BST_RED, BST_BLACK}
  BY <1>1, ReadType
<1>3. CASE t.color[w] = BST_BLACK
  <2>1. u = t
    BY <1>3 DEF SiblingTree, BST_RED, BST_BLACK
  <2>2. GapTree(t, U, U[t.root], val, H, z, p, s) /\ OutsideKept(t, t, U[t.root])
    BY <1>3 DEF GapTree, OutsideKept
  <2> QED
    BY <2>1, <2>2
<1>4. CASE t.color[w] = BST_RED
  <2> DEFINE v == bst_set_color(bst_set_color(t, w, BST_BLACK), p, BST_RED)
             b == t.child[w][s]
             g == t.parent[p]
  <2>1. u = bst_rotate(v, s, p)
    BY <1>4 DEF SiblingTree
  <2>2. Painted(v, t, p, BST_RED, w, BST_BLACK)
    BY <1>1, PaintFields
  <2> HIDE DEF u, v
  <2>3. v \in Tree /\ v.root = t.root /\ v.child = t.child /\ v.parent = t.parent /\ v.failed = t.failed
    BY <2>2 DEF Painted
  <2>4. Shape(v, U) /\ Ordered(v, U, val)
    BY <2>3, SameLinks
  <2>5. RotateNodes(v, U, s, p, w, b, g)
    BY <2>3, <1>1 DEF RotateNodes
  <2>6. Rotated(u, v, s, p, w, b, g)
    BY <2>1, <2>3, <2>4, <2>5, <1>1, RotateSound
  <2>7. PICK W : Shape(u, W) /\ W[u.root] = U[v.root] /\ Ordered(u, W, val)
    BY <2>1, <2>3, <2>4, <2>5, <1>1, RotateSound
  <2> HIDE DEF w, b, g
  <2>8. W[u.root] = U[t.root]
    BY <2>3, <2>7
  <2>9. PICK H2 : /\ Missing(u, W, H2, z, p, s)
                  /\ u.child[p][Opposite(s)] = b /\ u.color[b] = BST_BLACK
    <3>1. RedSibling(t, p, s, w)
      BY <1>0, <1>4 DEF RedSibling
    <3> QED
      BY <2>2, <2>5, <2>6, <2>8, <3>1, RedSiblingColors
  <2>10. u \in Tree /\ u.failed = t.failed
    BY <2>3, <2>6 DEF Rotated
  <2>11. GapTree(u, W, U[t.root], val, H2, z, p, s)
    BY <2>7, <2>8, <2>9, <2>10 DEF GapTree
  <2>12. OutsideKept(u, v, U[v.root])
    BY <2>3, <2>4, <2>5, <2>6, <1>1, RotateOutside
  <2>13. OutsideKept(u, t, U[t.root])
    BY <2>3, <2>12 DEF OutsideKept
  <2> QED
    BY <2>10, <2>11, <2>13 DEF u
<1>5. QED
  BY <1>2, <1>3, <1>4

\* A black sibling without red children is painted red: the gap moves up.
LEMMA PaleSound ==
    ASSUME NEW t, NEW U, NEW T, NEW val, NEW H, NEW z, NEW p, NEW s, GapTree(t, U, T, val, H, z, p, s),
           NEW w, w = t.child[p][Opposite(s)],
           \A r \in Side : t.color[t.child[w][r]] = BST_BLACK
    PROVE  LET u == bst_set_color(t, w, BST_RED)
           IN  /\ u \in Tree /\ Shape(u, U) /\ U[u.root] = T /\ Ordered(u, U, val)
               /\ u.color[nil] = BST_BLACK /\ u.failed = t.failed
               /\ OutsideKept(u, t, T)
               /\ \E H2 : DeleteOK(u, T, H2, p)
<1> DEFINE u == bst_set_color(t, w, BST_RED)
<1>1. t \in Tree /\ Shape(t, U) /\ U[t.root] = T /\ Ordered(t, U, val)
  BY DEF GapTree
<1>2. Missing(t, U, H, z, p, s) /\ t.color[w] = BST_BLACK
  BY DEF GapTree
<1>3. w \in Node
  BY <1>1, <1>2, MissingNodes
<1>4. ColorSet(u, t, w, BST_RED)
  BY <1>1, <1>3, SetColorFields
<1> HIDE DEF u
<1>5. u \in Tree /\ u.root = t.root /\ u.child = t.child /\ u.parent = t.parent /\ u.failed = t.failed
  BY <1>4 DEF ColorSet
<1>6. Shape(u, U) /\ Ordered(u, U, val)
  BY <1>1, <1>5, SameLinks
<1>7. PICK H2 : /\ RedApart(u, U[t.root], p, p) /\ u.color[nil] = BST_BLACK
                /\ u.color[u.root] = BST_BLACK
                /\ p = u.root => Heights(u, U[t.root], H2, nil, "left")
                /\ p # u.root =>
                     /\ u.parent[p] \in U[t.root]
                     /\ \E e \in Side : /\ u.child[u.parent[p]][e] = p
                                        /\ Heights(u, U[t.root], H2, u.parent[p], e)
  BY <1>1, <1>2, <1>4, PaleSiblingColors
<1>8. DeleteOK(u, T, H2, p)
  BY <1>1, <1>7 DEF DeleteOK
<1>9. OutsideKept(u, t, T)
  BY <1>5 DEF OutsideKept
<1>10. QED
  BY <1>1, <1>5, <1>6, <1>7, <1>8, <1>9 DEF u

\* The tree once a red near child has been rotated above the sibling.
NearTree(t, p, s) ==
    LET w == t.child[p][Opposite(s)]
    IN  IF t.color[t.child[w][Opposite(s)]] = BST_BLACK
        THEN bst_rotate(bst_set_color(bst_set_color(t, t.child[w][s], BST_BLACK), w, BST_RED),
                        Opposite(s), w)
        ELSE t

\* The far child of the sibling is red.
RedFar(t, p, s) == t.color[t.child[t.child[p][Opposite(s)]][Opposite(s)]] = BST_RED

\* The rotation of the near child makes the far child red.
LEMMA NearSound ==
    ASSUME NEW t, NEW U, NEW T, NEW val, NEW H, NEW z, NEW p, NEW s, GapTree(t, U, T, val, H, z, p, s),
           \E d \in Side : t.color[t.child[t.child[p][Opposite(s)]][d]] # BST_BLACK
    PROVE  LET u == NearTree(t, p, s)
           IN  /\ \E W, H2 : GapTree(u, W, T, val, H2, z, p, s)
               /\ u.failed = t.failed /\ OutsideKept(u, t, T)
               /\ RedFar(u, p, s)
<1> USE DEF RedFar
<1> DEFINE w == t.child[p][Opposite(s)]
           o == Opposite(s)
           u == NearTree(t, p, s)
           c == t.child[w][s]
<1>0. w = t.child[p][Opposite(s)] /\ c = t.child[w][s]
  OBVIOUS
<1>1. t \in Tree /\ Shape(t, U) /\ U[t.root] = T /\ Ordered(t, U, val)
  BY DEF GapTree
<1>2. Missing(t, U, H, z, p, s) /\ t.color[w] = BST_BLACK
  BY DEF GapTree
<1>3. /\ s \in Side /\ w \in U[t.root] /\ w \in Node /\ w # nil /\ t.parent[w] = p
  BY <1>0, <1>1, <1>2, MissingNodes
<1>4. o \in Side /\ o # s /\ Opposite(o) = s
  BY <1>3, OtherSide
<1>5. \A d \in Side : t.color[t.child[w][d]] \in {BST_RED, BST_BLACK} /\ t.child[w][d] \in Node
  BY <1>1, <1>3, ReadType
<1>6. CASE t.color[t.child[w][o]] # BST_BLACK
  <2>1. u = t
    BY ONLY <1>6 DEF NearTree
  <2>2. t.color[t.child[w][o]] = BST_RED
    BY <1>4, <1>5, <1>6
  <2>3. OutsideKept(t, t, T)
    BY DEF OutsideKept
  <2> QED
    BY <2>1, <2>2, <2>3
<1>7. CASE t.color[t.child[w][o]] = BST_BLACK
  <2> DEFINE v == bst_set_color(bst_set_color(t, c, BST_BLACK), w, BST_RED)
             b == t.child[c][o]
  <2>1. u = bst_rotate(v, o, w)
    BY ONLY <1>7 DEF NearTree
  <2>2. t.color[c] = BST_RED
    <3>1. PICK d \in Side : t.color[t.child[w][d]] # BST_BLACK
      OBVIOUS
    <3>2. d = s
      BY <3>1, <1>3, <1>7, OtherSide
    <3>3. t.color[c] # BST_BLACK
      BY ONLY <3>1, <3>2
    <3>4. t.color[c] \in {BST_RED, BST_BLACK}
      BY <1>3, <1>5
    <3> QED
      BY ONLY <3>3, <3>4
  <2>3. NearRed(t, p, s, w, c)
    BY <2>2, <1>2, <1>7 DEF NearRed
  <2>4. c # w /\ c # nil
    <3>1. c # nil
      <4>1. t.color[nil] = BST_BLACK
        BY <1>2, Zenon DEF Missing
      <4> QED
        BY <2>2, <4>1 DEF BST_RED, BST_BLACK
    <3> QED
      BY <3>1, <1>1, <1>3, ShapeChild
  <2>5. Painted(v, t, w, BST_RED, c, BST_BLACK)
    BY <2>4, <1>1, <1>3, <1>5, PaintFields
  <2> HIDE DEF u, v
  <2>6. v \in Tree /\ v.root = t.root /\ v.child = t.child /\ v.parent = t.parent /\ v.failed = t.failed
    BY <2>5 DEF Painted
  <2>7. Shape(v, U) /\ Ordered(v, U, val)
    BY <2>6, <1>1, SameLinks
  <2>8. RotateNodes(v, U, o, w, c, b, p)
    BY <2>4, <2>6, <1>3, <1>4 DEF RotateNodes
  <2>9. Rotated(u, v, o, w, c, b, p)
    BY <2>1, <2>6, <2>7, <2>8, <1>4, RotateSound, Zenon
  <2>10. PICK W : Shape(u, W) /\ W[u.root] = U[v.root] /\ Ordered(u, W, val)
    BY <2>1, <2>6, <2>7, <2>8, <1>4, RotateSound, Zenon
  <2> HIDE DEF w, b, c
  <2>11. W[u.root] = U[t.root]
    BY <2>6, <2>10
  <2>12. RotateNodes(v, U, Opposite(s), w, c, b, p) /\ Rotated(u, v, Opposite(s), w, c, b, p)
    BY <2>8, <2>9
  <2> HIDE DEF o
  <2>13. PICK H2 : /\ Missing(u, W, H2, z, p, s)
                   /\ u.child[p][Opposite(s)] = c /\ u.color[c] = BST_BLACK
                   /\ u.child[c][Opposite(s)] = w /\ u.color[w] = BST_RED
    BY <2>3, <2>5, <2>11, <2>12, <1>1, <1>2, NearRedColors
  <2>14. u \in Tree /\ u.failed = t.failed
    BY <2>6, <2>9 DEF Rotated
  <2>15. GapTree(u, W, T, val, H2, z, p, s)
    BY <2>10, <2>11, <2>13, <2>14, <1>1 DEF GapTree
  <2>16. Opposite(s) \in Side
    BY <1>3, OtherSide
  <2>17. OutsideKept(u, v, U[v.root])
    BY <2>6, <2>7, <2>12, <2>16, RotateOutside
  <2>18. OutsideKept(u, t, T)
    BY <2>6, <2>17, <1>1 DEF OutsideKept
  <2> QED
    BY <2>13, <2>14, <2>15, <2>18 DEF u
<1>8. QED
  BY <1>6, <1>7

\* The tree once the sibling has been rotated above p.
FarTree(t, p, s) ==
    LET w  == t.child[p][Opposite(s)]
        t3 == bst_set_color(bst_set_color(t, w, t.color[p]), p, BST_BLACK)
        t4 == bst_set_color(t3, t3.child[w][Opposite(s)], BST_BLACK)
    IN  bst_rotate(t4, s, p)

\* No black node is missing any more.
LEMMA FarSound ==
    ASSUME NEW t, NEW U, NEW T, NEW val, NEW H, NEW z, NEW p, NEW s, GapTree(t, U, T, val, H, z, p, s),
           RedFar(t, p, s)
    PROVE  Settled(FarTree(t, p, s), t, T, val) /\ OutsideKept(FarTree(t, p, s), t, T)
<1> USE DEF RedFar
<1> DEFINE w == t.child[p][Opposite(s)]
           f == t.child[w][Opposite(s)]
           t2 == bst_set_color(t, w, t.color[p])
           t3 == bst_set_color(t2, p, BST_BLACK)
           v == bst_set_color(t3, f, BST_BLACK)
           u == bst_rotate(v, s, p)
           b == t.child[w][s]
           g == t.parent[p]
<1>0. w = t.child[p][Opposite(s)] /\ f = t.child[w][Opposite(s)]
  OBVIOUS
<1>1. t \in Tree /\ Shape(t, U) /\ U[t.root] = T /\ Ordered(t, U, val)
  BY DEF GapTree
<1>2. Missing(t, U, H, z, p, s) /\ t.color[w] = BST_BLACK
  BY DEF GapTree
<1>3. /\ s \in Side /\ p \in U[t.root] /\ p \in Node /\ p # nil
      /\ w \in U[t.root] /\ w \in Node /\ w # nil /\ w # p
  BY <1>0, <1>1, <1>2, MissingNodes
<1>4. f \in Node /\ Opposite(s) \in Side /\ t.color[p] \in {BST_RED, BST_BLACK}
  BY <1>1, <1>3, OtherSide, ReadType
<1>5. FarRed(t, p, s, w, f)
  BY <1>2 DEF FarRed
<1>6. f # w /\ f # p
  <2>1. f # nil
    <3>1. t.color[nil] = BST_BLACK
      BY <1>2, Zenon DEF Missing
    <3> QED
      BY <3>1 DEF BST_RED, BST_BLACK
  <2>2. f \in U[w] /\ f # w
    BY <2>1, <1>1, <1>3, <1>4, ShapeChild
  <2>3. p \notin U[w]
    BY <1>1, <1>3, <1>4, ShapeChild
  <2> QED
    BY <2>2, <2>3
<1>7. ColorSet(t2, t, w, t.color[p])
  BY <1>1, <1>3, <1>4, SetColorFields
<1> HIDE DEF t2
<1>8. t2 \in Tree
  BY <1>7 DEF ColorSet
<1>9. ColorSet(t3, t2, p, BST_BLACK)
  BY <1>3, <1>8, SetColorFields
<1>10. FarTree(t, p, s) = bst_rotate(bst_set_color(t3, t3.child[w][Opposite(s)], BST_BLACK), s, p)
  BY DEF FarTree, t2
<1> HIDE DEF t3
<1>11. t3 \in Tree /\ t3.child = t.child
  BY <1>7, <1>9 DEF ColorSet
<1>12. FarTree(t, p, s) = u
  BY <1>10, <1>11
<1>13. ColorSet(v, t3, f, BST_BLACK)
  BY <1>4, <1>11, SetColorFields
<1> HIDE DEF v
<1>14. Handed(v, t, p, w, f)
  <2>1. v \in Tree /\ v.root = t.root /\ v.child = t.child /\ v.parent = t.parent /\ v.failed = t.failed
    BY <1>7, <1>9, <1>13 DEF ColorSet
  <2>2. ASSUME NEW k \in Node
        PROVE  v.color[k] = IF k = w THEN t.color[p] ELSE IF k = p \/ k = f THEN BST_BLACK ELSE t.color[k]
    <3>1. v.color[k] = IF k = f THEN BST_BLACK ELSE t3.color[k]
      BY <1>13 DEF ColorSet
    <3>2. t3.color[k] = IF k = p THEN BST_BLACK ELSE t2.color[k]
      BY <1>9 DEF ColorSet
    <3>3. t2.color[k] = IF k = w THEN t.color[p] ELSE t.color[k]
      BY <1>7 DEF ColorSet
    <3> QED
      BY <3>1, <3>2, <3>3, <1>3, <1>6
  <2> QED
    BY <2>1, <2>2 DEF Handed
<1>15. v \in Tree /\ v.root = t.root /\ v.child = t.child /\ v.parent = t.parent /\ v.failed = t.failed
  BY <1>14 DEF Handed
<1>16. Shape(v, U) /\ Ordered(v, U, val)
  BY <1>1, <1>15, SameLinks
<1>17. RotateNodes(v, U, s, p, w, b, g)
  BY <1>3, <1>15 DEF RotateNodes
<1>18. Rotated(u, v, s, p, w, b, g)
  BY <1>3, <1>15, <1>16, <1>17, RotateSound
<1>19. PICK W : Shape(u, W) /\ W[u.root] = U[v.root] /\ Ordered(u, W, val)
  BY <1>3, <1>15, <1>16, <1>17, RotateSound
<1> HIDE DEF w, f, b, g, u
<1>20. PICK H2 : Balanced(u, U[t.root], H2) /\ u.color[nil] = BST_BLACK
  BY <1>1, <1>2, <1>5, <1>14, <1>17, <1>18, FarRedColors
<1>21. u \in Tree /\ u.failed = t.failed
  BY <1>15, <1>18 DEF Rotated
<1>22. GoodTree(u, W, T, val, H2)
  BY <1>1, <1>15, <1>19, <1>20, <1>21 DEF GoodTree
<1>23. OutsideKept(u, v, U[v.root])
  BY <1>3, <1>15, <1>16, <1>17, <1>18, RotateOutside
<1>24. OutsideKept(u, t, T)
  BY <1>1, <1>15, <1>23 DEF OutsideKept
<1>25. QED
  BY <1>12, <1>21, <1>22, <1>24 DEF Settled

-----------------------------------------------------------------------------
(* The chains behind the linked nodes and the free list *)

\* Taking the first node of the free list.
LEMMA ChainAllocate ==
    ASSUME NEW T \in SUBSET Nodes, NEW O, NEW val \in [Nodes -> Keys \cup {NULL}], NEW l \in Lists,
           NEW fr \in Seq(Nodes), ChainsOf(T, O, val, l, fr), fr # <<>>, NEW key
    PROVE  /\ Head(fr) \in Nodes \ T /\ O[Head(fr)] = nil
           /\ \A j \in DOMAIN Tail(fr) : Tail(fr)[j] # Head(fr)
           /\ ChainsOf(T, O, [val EXCEPT ![Head(fr)] = key], [l EXCEPT ![Head(fr)] = NULL], Tail(fr))
<1> DEFINE n == Head(fr)
           v == [val EXCEPT ![n] = key]
           f == [l EXCEPT ![n] = NULL]
<1>1. n = fr[1] /\ 1 \in DOMAIN fr /\ n \in Nodes
  OBVIOUS
<1>2. \A j \in DOMAIN Tail(fr) : j + 1 \in DOMAIN fr /\ Tail(fr)[j] = fr[j + 1] /\ j + 1 # 1 /\ j \in Nat
  OBVIOUS
<1>3. O[n] = nil
  BY <1>1 DEF ChainsOf, Freed1
<1>4. n \notin T
  BY <1>1, <1>3, NotNil DEF ChainsOf
<1>5. ASSUME NEW j \in DOMAIN Tail(fr)
      PROVE  Tail(fr)[j] # n /\ Freed1(O, Tail(fr), j)
  BY <1>1, <1>2 DEF ChainsOf, Freed1
<1>6. ASSUME NEW m \in Nodes PROVE Chained1(T, O, v, f, m)
  <2> SUFFICES ASSUME O[m] # nil
               PROVE  /\ v[m] = v[O[m]]
                      /\ f[m] # NULL => O[f[m]] = O[m] /\ f[m] \notin T
                      /\ \A k \in Nodes : O[k] # nil /\ f[k] # NULL /\ f[k] = f[m] => k = m
    BY DEF Chained1
  <2>1. m # n /\ O[m] \in T /\ O[m] # n
    BY <1>3, <1>4 DEF ChainsOf
  <2>2. v[m] = val[m] /\ v[O[m]] = val[O[m]] /\ f[m] = l[m]
    BY <2>1 DEF Lists
  <2>3. Chained1(T, O, val, l, m)
    BY DEF ChainsOf
  <2>4. \A k \in Nodes : O[k] # nil => f[k] = l[k]
    BY <1>3 DEF Lists
  <2> HIDE DEF v, f
  <2> QED
    BY <2>2, <2>3, <2>4 DEF Chained1
<1> QED
  BY <1>1, <1>3, <1>4, <1>5, <1>6 DEF ChainsOf

\* attach behind a node with an equal key: a linked or chained one gains a node,
\* another one keeps it for itself.
LEMMA ChainAttach ==
    ASSUME NEW T \in SUBSET Nodes, NEW O, NEW val, NEW l \in Lists, NEW fr \in Seq(Nodes),
           ChainsOf(T, O, val, l, fr), NEW b \in Nodes, NEW n \in Nodes, O[n] = nil, l[n] = NULL,
           \A j \in DOMAIN fr : fr[j] # n, val[b] = val[n]
    PROVE  \E P : ChainsOf(T, P, val, attach(l, b, n), fr)
<1> DEFINE a == attach(l, b, n)
<1>0. NULL \notin Nodes /\ nil \notin T /\ n \notin T
  <2>1. nil \notin T
    BY NotNil
  <2> QED
    BY <2>1, NodesAssumption DEF ChainsOf
<1>1. \A m \in Nodes : a[m] = IF m = b THEN n ELSE IF m = n THEN l[b] ELSE l[m]
  BY DEF attach, Lists
<1>2. \A m \in Nodes : Chained1(T, O, val, l, m)
  BY DEF ChainsOf
<1>3. O \in [Nodes -> T \cup {nil}] /\ (\A k \in T : O[k] = k)
  BY DEF ChainsOf
<1>4. \A m \in Nodes : O[m] # nil => l[m] # n
  BY <1>0, <1>2 DEF Chained1
<1>5. \A m \in Nodes : l[m] # NULL => l[m] \in Nodes
  BY DEF Lists
<1> HIDE DEF a
<1>6. CASE O[b] = nil
  <2>1. ASSUME NEW m \in Nodes PROVE Chained1(T, O, val, a, m)
    <3>1. \A k \in Nodes : O[k] # nil => a[k] = l[k]
      BY <1>1, <1>6
    <3> QED
      BY <3>1, <1>2 DEF Chained1
  <2> QED
    BY <2>1 DEF ChainsOf, a
<1>7. CASE O[b] # nil
  <2> DEFINE P == [O EXCEPT ![n] = O[b]]
  <2>1. b # n
    BY <1>7
  <2>2. \A m \in Nodes : P[m] = IF m = n THEN O[b] ELSE O[m]
    BY <1>3
  <2>3. P \in [Nodes -> T \cup {nil}] /\ (\A k \in T : P[k] = k)
    BY <1>0, <1>3, <2>2
  <2> HIDE DEF P
  <2>4. \A j \in DOMAIN fr : Freed1(P, fr, j)
    BY <2>2 DEF ChainsOf, Freed1
  <2>5. ASSUME NEW m \in Nodes PROVE Chained1(T, P, val, a, m)
    <3> SUFFICES ASSUME P[m] # nil
                 PROVE  /\ val[m] = val[P[m]]
                        /\ a[m] # NULL => P[a[m]] = P[m] /\ a[m] \notin T
                        /\ \A k \in Nodes : P[k] # nil /\ a[k] # NULL /\ a[k] = a[m] => k = m
      BY DEF Chained1
    <3>1. val[m] = val[P[m]]
      BY <2>2, <1>2, <1>7 DEF Chained1
    <3>2. l[b] # NULL => l[b] \in Nodes /\ l[b] # n /\ O[l[b]] = O[b] /\ l[b] \notin T
      BY <1>2, <1>4, <1>5, <1>7 DEF Chained1
    <3>3. m # n /\ l[m] # NULL => l[m] \in Nodes /\ l[m] # n /\ O[l[m]] = O[m] /\ l[m] \notin T
      BY <2>2, <1>2, <1>4, <1>5 DEF Chained1
    <3>4. a[m] # NULL => P[a[m]] = P[m] /\ a[m] \notin T
      <4>1. CASE m = b
        BY <4>1, <1>0, <1>1, <2>1, <2>2
      <4>2. CASE m = n
        BY <4>2, <1>1, <2>1, <2>2, <3>2
      <4>3. CASE m # b /\ m # n
        BY <4>3, <1>1, <2>2, <3>3
      <4> QED
        BY <4>1, <4>2, <4>3
    <3>5. ASSUME NEW k \in Nodes, P[k] # nil, a[k] # NULL, a[k] = a[m] PROVE k = m
      <4>1. \A i, j \in Nodes : O[i] # nil /\ O[j] # nil /\ l[i] # NULL /\ l[i] = l[j] => i = j
        BY <1>2 DEF Chained1
      <4>2. k # n => O[k] # nil /\ l[k] # n
        BY <3>5, <2>2, <1>4
      <4>3. m # n => O[m] # nil /\ l[m] # n
        BY <2>2, <1>4
      <4>4. l[b] # n
        BY <1>4, <1>7
      <4> QED
        BY <4>1, <4>2, <4>3, <4>4, <3>5, <1>1, <1>7, <2>1
    <3> QED
      BY <3>1, <3>4, <3>5
  <2>6. ChainsOf(T, P, val, a, fr)
    BY <2>3, <2>4, <2>5 DEF ChainsOf
  <2> QED
    BY <2>6 DEF a
<1> QED
  BY <1>6, <1>7

\* A node without an owner goes back to the free list.
LEMMA ChainFree ==
    ASSUME NEW T \in SUBSET Nodes, NEW O, NEW val, NEW l \in Lists, NEW fr \in Seq(Nodes),
           ChainsOf(T, O, val, l, fr), NEW n \in Nodes, O[n] = nil, \A j \in DOMAIN fr : fr[j] # n
    PROVE  ChainsOf(T, O, val, [l EXCEPT ![n] = NULL], <<n>> \o fr)
<1> DEFINE f == [l EXCEPT ![n] = NULL]
           g == <<n>> \o fr
<1>1. \A k \in Nodes : O[k] # nil => f[k] = l[k]
  BY DEF Lists
<1>2. ASSUME NEW m \in Nodes PROVE Chained1(T, O, val, f, m)
  <2>1. Chained1(T, O, val, l, m)
    BY DEF ChainsOf
  <2> HIDE DEF f
  <2> QED
    BY <2>1, <1>1 DEF Chained1
<1>3. DOMAIN g = 1 .. Len(fr) + 1 /\ g[1] = n /\ Len(fr) \in Nat
  OBVIOUS
<1>4. \A j \in DOMAIN g : j # 1 => j - 1 \in DOMAIN fr /\ g[j] = fr[j - 1] /\ j \in Nat
  OBVIOUS
<1> HIDE DEF g, f
<1>5. ASSUME NEW j \in DOMAIN g PROVE Freed1(O, g, j)
  <2>1. O[g[j]] = nil
    BY <1>3, <1>4 DEF ChainsOf, Freed1
  <2>2. ASSUME NEW k \in DOMAIN g, g[j] = g[k] PROVE j = k
    <3>1. j = 1 => k = 1
      BY <2>2, <1>3, <1>4
    <3>2. k = 1 => j = 1
      BY <2>2, <1>3, <1>4
    <3>3. j # 1 /\ k # 1 => j - 1 = k - 1
      BY <2>2, <1>3, <1>4 DEF ChainsOf, Freed1
    <3>4. j \in Nat /\ k \in Nat
      BY <1>3
    <3> QED
      BY <3>1, <3>2, <3>3, <3>4
  <2> QED
    BY <2>1, <2>2 DEF Freed1
<1> QED
  BY <1>2, <1>5 DEF ChainsOf, f, g

\* detach takes the first node of the chain behind b.
LEMMA ChainDetach ==
    ASSUME NEW T \in SUBSET Nodes, NEW O, NEW val, NEW l \in Lists, NEW fr \in Seq(Nodes),
           ChainsOf(T, O, val, l, fr), NEW b \in T, NEW n, n = l[b], n # NULL
    PROVE  /\ n \in Nodes \ T /\ (\A j \in DOMAIN fr : fr[j] # n)
           /\ \E P : P[n] = nil /\ ChainsOf(T, P, val, [l EXCEPT ![b] = l[n]], fr)
<1> DEFINE a == [l EXCEPT ![b] = l[n]]
           P == [O EXCEPT ![n] = nil]
<1>0. b \in Nodes /\ b # nil /\ n \in Nodes /\ NULL \notin Nodes
  BY NotNil, NodesAssumption DEF Lists
<1>1. \A m \in Nodes : a[m] = IF m = b THEN l[n] ELSE l[m]
  BY DEF Lists
<1>2. \A m \in Nodes : Chained1(T, O, val, l, m)
  BY DEF ChainsOf
<1>3. O \in [Nodes -> T \cup {nil}] /\ (\A k \in T : O[k] = k)
  BY DEF ChainsOf
<1>4. O[b] = b /\ O[n] = b /\ n \notin T
  BY <1>0, <1>2, <1>3 DEF Chained1
<1>5. \A j \in DOMAIN fr : fr[j] # n
  BY <1>0, <1>4 DEF ChainsOf, Freed1
<1>6. \A i, j \in Nodes : O[i] # nil /\ O[j] # nil /\ l[i] # NULL /\ l[i] = l[j] => i = j
  BY <1>2 DEF Chained1
<1>7. \A m \in Nodes : P[m] = IF m = n THEN nil ELSE O[m]
  BY <1>3
<1>8. P \in [Nodes -> T \cup {nil}] /\ (\A k \in T : P[k] = k)
  BY <1>0, <1>3, <1>4, <1>7
<1> HIDE DEF a, P
<1>9. \A j \in DOMAIN fr : Freed1(P, fr, j)
  BY <1>7 DEF ChainsOf, Freed1
<1>10. ASSUME NEW m \in Nodes PROVE Chained1(T, P, val, a, m)
  <2> SUFFICES ASSUME P[m] # nil
               PROVE  /\ val[m] = val[P[m]]
                      /\ a[m] # NULL => P[a[m]] = P[m] /\ a[m] \notin T
                      /\ \A k \in Nodes : P[k] # nil /\ a[k] # NULL /\ a[k] = a[m] => k = m
    BY DEF Chained1
  <2>1. m # n /\ O[m] # nil /\ P[m] = O[m]
    BY <1>7
  <2>2. val[m] = val[P[m]]
    BY <2>1, <1>2 DEF Chained1
  <2>3. \A k \in Nodes : O[k] # nil /\ l[k] # NULL => l[k] \in Nodes /\ O[l[k]] = O[k] /\ l[k] \notin T
    BY <1>2 DEF Chained1, Lists
  <2>4. l[n] # n
    BY <1>0, <1>4, <1>6
  <2>5. a[m] # NULL => P[a[m]] = P[m] /\ a[m] \notin T
    <3>1. CASE m = b
      BY <3>1, <2>1, <2>3, <2>4, <1>0, <1>1, <1>4, <1>7
    <3>2. CASE m # b
      <4>1. l[m] # n
        BY <3>2, <2>1, <1>0, <1>4, <1>6
      <4> QED
        BY <3>2, <4>1, <2>1, <2>3, <1>1, <1>7
    <3> QED
      BY <3>1, <3>2
  <2>6. ASSUME NEW k \in Nodes, P[k] # nil, a[k] # NULL, a[k] = a[m] PROVE k = m
    <3>1. k # n /\ O[k] # nil
      BY <2>6, <1>7
    <3> QED
      BY <3>1, <2>1, <2>6, <1>0, <1>1, <1>4, <1>6
  <2> QED
    BY <2>2, <2>5, <2>6
<1>11. ChainsOf(T, P, val, a, fr) /\ P[n] = nil
  BY <1>0, <1>7, <1>8, <1>9, <1>10 DEF ChainsOf
<1> QED
  BY <1>0, <1>4, <1>5, <1>11 DEF a

\* Unlinking a node without a chain.
LEMMA ChainUnlink ==
    ASSUME NEW T \in SUBSET Nodes, NEW O, NEW val, NEW l \in Lists, NEW fr \in Seq(Nodes),
           ChainsOf(T, O, val, l, fr), NEW n \in T
    PROVE  /\ \A j \in DOMAIN fr : fr[j] # n
           /\ \E P : P[n] = nil /\ ChainsOf(T \ {n}, P, val, l, fr)
<1> DEFINE P == [m \in Nodes |-> IF O[m] = n THEN nil ELSE O[m]]
<1>1. n \in Nodes /\ n # nil /\ O[n] = n
  BY NotNil DEF ChainsOf
<1>2. \A j \in DOMAIN fr : fr[j] # n
  BY <1>1 DEF ChainsOf, Freed1
<1>3. O \in [Nodes -> T \cup {nil}] /\ (\A k \in T : O[k] = k)
  BY DEF ChainsOf
<1>4. P \in [Nodes -> (T \ {n}) \cup {nil}] /\ (\A k \in T \ {n} : P[k] = k) /\ P[n] = nil
  BY <1>1, <1>3
<1>5. \A m \in Nodes : P[m] = IF O[m] = n THEN nil ELSE O[m]
  OBVIOUS
<1>6. \A m \in Nodes : Chained1(T, O, val, l, m)
  BY DEF ChainsOf
<1> HIDE DEF P
<1>7. ASSUME NEW m \in Nodes PROVE Chained1(T \ {n}, P, val, l, m)
  <2> SUFFICES ASSUME P[m] # nil
               PROVE  /\ val[m] = val[P[m]]
                      /\ l[m] # NULL => P[l[m]] = P[m] /\ l[m] \notin T \ {n}
                      /\ \A k \in Nodes : P[k] # nil /\ l[k] # NULL /\ l[k] = l[m] => k = m
    BY DEF Chained1
  <2>1. O[m] # nil /\ O[m] # n /\ P[m] = O[m]
    BY <1>5
  <2>2. l[m] # NULL => l[m] \in Nodes
    BY DEF Lists
  <2> QED
    BY <2>1, <2>2, <1>5, <1>6 DEF Chained1
<1>8. \A j \in DOMAIN fr : Freed1(P, fr, j)
  <2>1. ASSUME NEW j \in DOMAIN fr PROVE P[fr[j]] = nil
    <3>1. O[fr[j]] = nil
      BY DEF ChainsOf, Freed1
    <3> QED
      BY <3>1, <1>5
  <2> QED
    BY <2>1 DEF ChainsOf, Freed1
<1> QED
  BY <1>2, <1>4, <1>7, <1>8 DEF ChainsOf

\* Linking a node.
LEMMA ChainLink ==
    ASSUME NEW T \in SUBSET Nodes, NEW O, NEW val, NEW l \in Lists, NEW fr \in Seq(Nodes),
           ChainsOf(T, O, val, l, fr), NEW n \in Nodes, O[n] = nil, l[n] = NULL,
           \A j \in DOMAIN fr : fr[j] # n
    PROVE  \E P : ChainsOf(T \cup {n}, P, val, l, fr)
<1> DEFINE P == [O EXCEPT ![n] = n]
<1>1. n # nil
  BY NotNil
<1>2. O \in [Nodes -> T \cup {nil}] /\ (\A k \in T : O[k] = k)
  BY DEF ChainsOf
<1>3. \A m \in Nodes : P[m] = IF m = n THEN n ELSE O[m]
  BY <1>2
<1>4. P \in [Nodes -> (T \cup {n}) \cup {nil}] /\ (\A k \in T \cup {n} : P[k] = k)
  BY <1>2, <1>3
<1>5. \A m \in Nodes : Chained1(T, O, val, l, m)
  BY DEF ChainsOf
<1> HIDE DEF P
<1>6. ASSUME NEW m \in Nodes PROVE Chained1(T \cup {n}, P, val, l, m)
  <2> SUFFICES ASSUME P[m] # nil
               PROVE  /\ val[m] = val[P[m]]
                      /\ l[m] # NULL => P[l[m]] = P[m] /\ l[m] \notin T \cup {n}
                      /\ \A k \in Nodes : P[k] # nil /\ l[k] # NULL /\ l[k] = l[m] => k = m
    BY DEF Chained1
  <2>1. l[m] # NULL => l[m] \in Nodes
    BY DEF Lists
  <2>2. m # n => O[m] # nil /\ P[m] = O[m]
    BY <1>3
  <2>3. m = n => P[m] = n /\ l[m] = NULL
    BY <1>3
  <2>4. m # n /\ l[m] # NULL => l[m] # n /\ O[l[m]] = O[m] /\ l[m] \notin T
    BY <2>2, <1>5 DEF Chained1
  <2>5. ASSUME NEW k \in Nodes, P[k] # nil, l[k] # NULL, l[k] = l[m] PROVE k = m
    <3>1. k # n /\ m # n
      BY <2>5
    <3> QED
      BY <3>1, <2>2, <2>5, <1>3, <1>5 DEF Chained1
  <2>6. val[m] = val[P[m]]
    BY <2>2, <2>3, <1>5 DEF Chained1
  <2> QED
    BY <2>1, <2>2, <2>3, <2>4, <2>5, <2>6, <1>3
<1>7. \A j \in DOMAIN fr : Freed1(P, fr, j)
  BY <1>3 DEF ChainsOf, Freed1
<1>8. ChainsOf(T \cup {n}, P, val, l, fr)
  BY <1>4, <1>6, <1>7 DEF ChainsOf
<1> QED
  BY <1>8

-----------------------------------------------------------------------------
(* Keys and extremes *)

\* No key is linked twice.
LEMMA KeysApart ==
    ASSUME NEW t \in Tree, NEW U, Shape(t, U), NEW val, Ordered(t, U, val),
           NEW a \in U[t.root], NEW b \in U[t.root], a # b
    PROVE  \E s \in Side : Beyond(s, val[a], val[b])
<1> DEFINE T == U[t.root]
           D == {k \in T : a \in U[k] /\ b \in U[k]}
           Size(k) == Cardinality(U[k])
           C == {Size(k) : k \in D}
<1>1. t.root \in D
  BY DEF Shape
<1>2. \A k \in T : IsFiniteSet(U[k]) /\ Size(k) \in Nat
  <2>1. ASSUME NEW k \in T PROVE U[k] \subseteq Nodes
    BY ShapeNode
  <2> QED
    BY <2>1, NodesAssumption, FS_Subset, FS_CardinalityType
<1>3. PICK k \in D : \A q \in D : ~(Size(q) < Size(k))
  <2>1. C \subseteq Nat /\ C # {}
    BY <1>1, <1>2
  <2>2. PICK i \in C : \A j \in C : ~(j < i)
    <3> HIDE DEF C
    <3> QED
      BY <2>1, LeastNat
  <2> QED
    BY <2>2
<1>4. k \in T /\ a \in U[k] /\ b \in U[k]
  BY <1>3
<1>5. val[k] \in Keys /\ val[a] \in Keys /\ val[b] \in Keys
  BY <1>4 DEF Ordered
<1> DEFINE f == t.child[k]["left"]
           g == t.child[k]["right"]
<1>6. U[k] = {k} \cup U[f] \cup U[g] /\ k \notin U[f] /\ k \notin U[g]
  BY <1>4, Sides, ShapeSplit DEF Opposite
<1>7. \A m \in U[f] : Beyond("left", val[m], val[k]) /\ m # k
  BY <1>4, <1>6, Sides DEF Ordered
<1>8. \A m \in U[g] : Beyond("right", val[m], val[k]) /\ m # k
  BY <1>4, <1>6, Sides DEF Ordered
<1>9. ASSUME NEW s \in Side, a \in U[t.child[k][s]], b \in U[t.child[k][s]] PROVE FALSE
  <2> DEFINE c == t.child[k][s]
  <2>1. c # nil
    BY <1>9 DEF Shape
  <2>2. c \in T /\ U[c] \subseteq U[k] /\ k \notin U[c] /\ k \in U[k]
    BY <1>4, <2>1, ShapeChild, ShapeNode
  <2>3. Size(c) <= Size(k) /\ Size(c) # Size(k)
    BY <1>2, <1>4, <2>2, FS_Subset
  <2>4. Size(c) \in Nat /\ Size(k) \in Nat
    BY <1>2, <1>4, <2>2
  <2>5. c \in D
    BY <1>9, <2>2
  <2> HIDE DEF Size, D
  <2> QED
    BY <1>3, <2>3, <2>4, <2>5
<1>10. Keys \subseteq Int
  BY KeysAssumption
<1>11. CASE a \in U[f]
  <2>1. b \notin U[f]
    BY <1>9, <1>11, Sides
  <2>2. b = k \/ b \in U[g]
    BY <2>1, <1>4, <1>6
  <2>3. Beyond("left", val[a], val[k])
    BY <1>7, <1>8, <1>11
  <2>4. b \in U[g] => Beyond("right", val[b], val[k])
    BY <1>7, <1>8
  <2> HIDE DEF f, g
  <2>5. Beyond("left", val[a], val[b])
    <3>1. CASE b = k
      BY <3>1, <2>3
    <3>2. CASE b # k
      <4>1. Beyond("right", val[b], val[k])
        BY <3>2, <2>2, <2>4
      <4>2. Beyond("left", val[k], val[b])
        BY <4>1, <1>5, <1>10 DEF Beyond
      <4> QED
        BY <4>2, <2>3, <1>5, Sides, BeyondTrans
    <3> QED
      BY <3>1, <3>2
  <2> QED
    BY <2>5, Sides
<1>12. CASE a \in U[g]
  <2>1. b \notin U[g]
    BY <1>9, <1>12, Sides
  <2>2. b = k \/ b \in U[f]
    BY <2>1, <1>4, <1>6
  <2>3. Beyond("right", val[a], val[k])
    BY <1>7, <1>8, <1>12
  <2>4. b \in U[f] => Beyond("left", val[b], val[k])
    BY <1>7, <1>8
  <2> HIDE DEF f, g
  <2>5. Beyond("right", val[a], val[b])
    <3>1. CASE b = k
      BY <3>1, <2>3
    <3>2. CASE b # k
      <4>1. Beyond("left", val[b], val[k])
        BY <3>2, <2>2, <2>4
      <4>2. Beyond("right", val[k], val[b])
        BY <4>1, <1>5, <1>10 DEF Beyond
      <4> QED
        BY <4>2, <2>3, <1>5, Sides, BeyondTrans
    <3> QED
      BY <3>1, <3>2
  <2> QED
    BY <2>5, Sides
<1>13. CASE a = k
  <2>1. b \in U[f] \/ b \in U[g]
    BY <1>4, <1>6, <1>13
  <2>2. Beyond("right", val[a], val[b]) \/ Beyond("left", val[a], val[b])
    BY <2>1, <1>5, <1>7, <1>8, <1>10, <1>13 DEF Beyond
  <2> QED
    BY <2>2, Sides
<1> QED
  BY <1>4, <1>6, <1>11, <1>12, <1>13

\* An outermost node has no outer child.
LEMMA OutermostBare ==
    ASSUME NEW t \in Tree, NEW U, Shape(t, U), NEW val, Ordered(t, U, val),
           NEW q \in Side, NEW e, Outermost(q, e, U[t.root], val)
    PROVE  t.child[e][q] = nil
<1> DEFINE c == t.child[e][q]
<1>1. SUFFICES ASSUME c # nil PROVE FALSE
  OBVIOUS
<1>2. e \in U[t.root]
  BY DEF Outermost
<1>3. c \in U[t.root] /\ c # e /\ c \in U[c]
  BY <1>1, <1>2, ShapeChild, ShapeNode
<1>4. Beyond(q, val[c], val[e])
  BY <1>2, <1>3 DEF Ordered
<1>5. Beyond(q, val[e], val[c])
  BY <1>3 DEF Outermost
<1>6. val[c] \in Keys /\ val[e] \in Keys
  BY <1>2, <1>3 DEF Ordered
<1> HIDE DEF c
<1> QED
  BY <1>4, <1>5, <1>6, BeyondOrder

\* When an outermost node is removed, its child or else its parent follows it.
LEMMA NextOutermost ==
    ASSUME NEW t \in Tree, NEW U, Shape(t, U), NEW val, Ordered(t, U, val),
           NEW n, NEW s, NEW r, NEW p, NEW e, RemoveNodes(t, U, n, s, r, p, e),
           r # nil => U[r] = {r},
           NEW q \in Side, Outermost(q, n, U[t.root], val), U[t.root] \ {n} # {}
    PROVE  Outermost(q, IF t.child[n][Opposite(q)] # nil THEN t.child[n][Opposite(q)] ELSE p,
                     U[t.root] \ {n}, val)
<1> DEFINE T == U[t.root]
           o == Opposite(q)
<1>1. /\ n \in Node /\ n # nil /\ r \in Node /\ p \in Node /\ e \in Side
      /\ n # r /\ p # n /\ n \in T /\ (n = t.root <=> p = nil)
      /\ p # nil => p \in T /\ t.child[p][e] = n
      /\ r # nil => r \in T
      /\ U[n] = {n} \cup U[r]
  BY RemoveApart
<1>2. t.child[n][q] = nil
  BY OutermostBare
<1>3. o \in Side /\ o # q /\ Opposite(o) = q
  BY OtherSide
<1>4. s \in Side /\ t.child[n][s] = nil /\ r = t.child[n][Opposite(s)]
  BY DEF RemoveNodes
<1>5. r = t.child[n][o]
  <2>1. s = q \/ s = o
    BY <1>4, OtherSide
  <2> QED
    BY <2>1, <1>2, <1>3, <1>4
<1>6. \A m \in T \ {n} : Beyond(q, val[n], val[m])
  BY DEF Outermost
<1>7. \A m \in T : val[m] \in Keys
  BY DEF Ordered
<1>8. CASE r # nil
  <2>1. ASSUME NEW m \in (T \ {n}) \ {r} PROVE Beyond(q, val[r], val[m])
    <3>1. m \in T \ U[n] /\ r \in U[n]
      BY <1>1, <1>8, <2>1
    <3>2. Beyond(q, val[n], val[m])
      BY <1>6
    <3> QED
      BY <3>1, <3>2, <1>1, SubtreeApart
  <2>2. r \in T \ {n}
    BY <1>1, <1>8
  <2> QED
    BY <2>1, <2>2, <1>5, <1>8 DEF Outermost
<1>9. CASE r = nil
  <2>1. U[n] = {n}
    BY <1>1, <1>9 DEF Shape
  <2>2. n # t.root
    BY <2>1
  <2>3. p \in T /\ p # n /\ t.child[p][e] = n
    BY <1>1, <2>2
  <2>4. Beyond(q, val[n], val[p])
    BY <1>6, <2>3
  <2>5. n \in U[n] /\ n \in U[p]
    BY <2>1, <2>3, <1>1, ShapeChild
  <2>6. e = q
    <3>1. Beyond(e, val[n], val[p])
      BY <2>3, <2>5, <1>1 DEF Ordered
    <3>2. e = q \/ e = o
      BY <1>1, OtherSide
    <3>3. e = o => Beyond(q, val[p], val[n])
      BY <3>1, <1>1, <1>3, <1>7, <2>3, BeyondOrder
    <3> QED
      BY <3>2, <3>3, <2>3, <2>4, <1>1, <1>7, BeyondOrder
  <2>7. ASSUME NEW m \in (T \ {n}) \ {p} PROVE Beyond(q, val[p], val[m])
    <3>1. CASE m \in U[p]
      <4>1. U[p] = {p} \cup U[n] \cup U[t.child[p][o]]
        BY <2>3, <2>6, <1>3, ShapeSplit
      <4>2. m \in U[t.child[p][o]]
        BY <3>1, <4>1, <2>1, <2>7
      <4>3. Beyond(o, val[m], val[p])
        BY <4>2, <2>3, <1>3 DEF Ordered
      <4> QED
        BY <4>3, <1>3, <1>7, <2>3, <2>7, BeyondOrder
    <3>2. CASE m \notin U[p]
      <4>1. PICK d \in Side : Beyond(d, val[p], val[m])
        BY <2>3, <2>7, KeysApart
      <4>2. Beyond(d, val[n], val[m])
        BY <4>1, <3>2, <2>3, <2>5, <2>7, SubtreeApart
      <4>3. Beyond(q, val[n], val[m])
        BY <1>6, <2>7
      <4>4. d = q \/ d = o
        BY OtherSide
      <4>5. d = o => Beyond(q, val[m], val[n])
        BY <4>2, <1>1, <1>3, <1>7, <2>7, BeyondOrder
      <4>6. d = q
        BY <4>3, <4>4, <4>5, <1>1, <1>7, <2>7, BeyondOrder
      <4> QED
        BY <4>1, <4>6
    <3> QED
      BY <3>1, <3>2
  <2>8. p \in T \ {n}
    BY <2>3
  <2> QED
    BY <2>7, <2>8, <1>5, <1>9 DEF Outermost
<1> QED
  BY <1>8, <1>9

\* A node that is not linked.
NotLinked(n, T) == n \in Nodes \ T

\* A node outside of the tree becomes a leaf of its own.
LEMMA FreedShape ==
    ASSUME NEW t, NEW U, NEW T, NEW val, NEW H, GoodTree(t, U, T, val, H),
           NEW n, NotLinked(n, T), NEW p, NEW u, LeafSet(u, t, n, p)
    PROVE  GoodTree(u, U, T, val, H)
<1>0. t \in Tree /\ Shape(t, U) /\ U[t.root] = T /\ Ordered(t, U, val)
  BY DEF GoodTree
<1>a. Balanced(t, T, H) /\ t.color[nil] = BST_BLACK /\ n \in Nodes \ T
  BY DEF GoodTree, NotLinked
<1>1. u \in Tree /\ u.root = t.root /\ u.failed = t.failed
  BY DEF LeafSet
<1>2. n # nil /\ nil \in Node
  BY <1>a, NotNil
<1>3. ASSUME NEW k \in T
      PROVE  /\ k \in Node /\ k # n /\ u.parent[k] = t.parent[k] /\ u.color[k] = t.color[k]
             /\ \A r \in Side : u.child[k][r] = t.child[k][r]
  <2>1. k \in Node /\ k # n
    BY <1>0, <1>a, ShapeNode
  <2> QED
    BY <2>1 DEF LeafSet
<1>4. u.color[nil] = BST_BLACK
  BY <1>2, <1>a DEF LeafSet
<1>5. ASSUME NEW k \in T, NEW r \in Side
      PROVE  t.child[k][r] \in T \cup {nil} /\ u.color[t.child[k][r]] = t.color[t.child[k][r]]
  <2>1. t.child[k][r] \in T \cup {nil}
    BY <1>0, ShapeChild
  <2> QED
    BY <2>1, <1>3, <1>4, <1>a
<1>6. U \in [Node -> SUBSET Nodes] /\ U[nil] = {} /\ (t.root # nil => t.root \in T /\ t.parent[t.root] = nil)
  BY <1>0 DEF Shape
<1>7. ASSUME NEW k \in T
      PROVE  /\ \A s \in Side : Kid(u, U, k, s)
             /\ k # t.root => \E s \in Side : u.child[u.parent[k]][s] = k
             /\ Closed(u, U, k)
  <2>1. ASSUME NEW s \in Side PROVE Kid(u, U, k, s)
    <3>1. Kid(t, U, k, s)
      BY <1>0 DEF Shape
    <3>2. u.child[k][s] = t.child[k][s] /\ u.child[k][Opposite(s)] = t.child[k][Opposite(s)]
      BY <1>3, Sides
    <3> QED
      BY <3>1, <3>2, <1>0, <1>1, <1>3 DEF Kid
  <2>2. k # t.root => \E s \in Side : u.child[u.parent[k]][s] = k
    <3>1. SUFFICES ASSUME k # t.root PROVE \E s \in Side : u.child[u.parent[k]][s] = k
      OBVIOUS
    <3>2. t.parent[k] \in T
      BY <3>1, <1>0, ShapeParent
    <3>3. PICK s \in Side : t.child[t.parent[k]][s] = k
      BY <3>1, <1>0 DEF Shape
    <3> QED
      BY <3>2, <3>3, <1>3
  <2>3. Closed(u, U, k)
    <3>1. Closed(t, U, k)
      BY <1>0 DEF Shape
    <3>2. U[k] \subseteq T
      BY <1>0, ShapeNode
    <3> QED
      BY <3>1, <3>2, <1>3 DEF Closed
  <2> QED
    BY <2>1, <2>2, <2>3
<1>8. Shape(u, U)
  <2>1. t.root # nil => u.parent[t.root] = nil
    BY <1>3, <1>6
  <2> QED
    BY <1>0, <1>1, <1>6, <1>7, <2>1 DEF Shape
<1>9. Ordered(u, U, val)
  BY <1>0, <1>1, <1>3 DEF Ordered
<1>10. Balanced(u, T, H)
  <2>1. Heights(u, T, H, nil, "left")
    BY <1>3, <1>5, <1>a DEF Balanced, Heights
  <2>2. RedApart(u, T, nil, nil)
    BY <1>3, <1>5, <1>a DEF Balanced, RedApart
  <2>3. u.color[u.root] = BST_BLACK
    BY <1>1, <1>3, <1>4, <1>6, <1>a DEF Balanced
  <2> QED
    BY <2>1, <2>2, <2>3 DEF Balanced
<1> QED
  BY <1>0, <1>1, <1>4, <1>8, <1>9, <1>10 DEF GoodTree

-----------------------------------------------------------------------------
(* The steps that leave the tree alone *)

\* What a call leaves behind.
LEMMA IdleSound ==
    ASSUME NEW U, NEW H, NEW O, pc' = "idle", loc' = NoLoc, x' = nil,
           Shape(tree', U), Ordered(tree', U, value'), OnlyLastNode(tree'.failed), tree'.color[nil] = BST_BLACK,
           ChainsOf(U[tree'.root], O, value', list', free'),
           Balanced(tree', U[tree'.root], H), CacheHolds(cache', U[tree'.root], value')
    PROVE  Sound(U, H, O)'
<1>1. {loc.node, loc.parent, x}' \subseteq U[tree'.root] \cup {nil}
  BY DEF NoLoc
<1>2. \A s \in Side : pc' # Extreme(s)
  BY DEF Extreme
<1>3. CacheOK(U[tree.root])' /\ Chains(U[tree.root], O)'
  BY DEF CacheOK, Chains
<1> QED
  BY <1>1, <1>2, <1>3 DEF Sound

\* What every state has.
LEMMA SoundTree ==
    ASSUME NEW U, NEW H, NEW O, Sound(U, H, O), IndInv
    PROVE  /\ tree \in Tree /\ Shape(tree, U) /\ Ordered(tree, U, value)
           /\ OnlyLastNode(tree.failed) /\ tree.color[nil] = BST_BLACK
           /\ ChainsOf(U[tree.root], O, value, list, free)
           /\ U[tree.root] \in SUBSET Nodes /\ nil \notin U[tree.root]
           /\ value \in [Nodes -> Keys \cup {NULL}] /\ list \in Lists /\ free \in Seq(Nodes)
           /\ cache \in Cache /\ loc \in Loc /\ x \in Node /\ op \in Op
           /\ loc.node \in U[tree.root] \cup {nil} /\ loc.parent \in U[tree.root] \cup {nil}
           /\ x \in U[tree.root] \cup {nil}
<1>1. /\ tree \in Tree /\ value \in [Nodes -> Keys \cup {NULL}] /\ list \in Lists /\ free \in Seq(Nodes)
      /\ cache \in Cache /\ loc \in Loc /\ x \in Node /\ op \in Op
  BY DEF IndInv, TypeOK
<1>2. /\ Shape(tree, U) /\ Ordered(tree, U, value) /\ OnlyLastNode(tree.failed) /\ tree.color[nil] = BST_BLACK
      /\ {loc.node, loc.parent, x} \subseteq U[tree.root] \cup {nil}
      /\ Chains(U[tree.root], O)
  BY DEF Sound
<1>3. U[tree.root] \in SUBSET Nodes /\ nil \notin U[tree.root]
  BY <1>1, <1>2, ShapeNode
<1> QED
  BY <1>1, <1>2, <1>3 DEF Chains

\* A call that returns without having changed anything.
LEMMA ReturnSound ==
    ASSUME NEW U, NEW H, NEW O, Sound(U, H, O), IndInv, pc \in {"idle", "find"},
           NEW err, NEW out, Return(err, out), UNCHANGED <<tree, value, list, cache, free>>
    PROVE  Sound(U, H, O)'
<1>1. Balanced(tree, U[tree.root], H) /\ CacheHolds(cache, U[tree.root], value)
  BY DEF Sound, CacheOK
<1> QED
  BY <1>1, SoundTree, IdleSound DEF Return

\* The cache is read for the tree without side effects.
LEMMA CheckCache ==
    ASSUME NEW val, NEW key, bst_check_cache(val, key) # nil
    PROVE  val[bst_check_cache(val, key)] = key
<1>1. \A v : cmp(key, v) = {0} => key = v
  BY CmpAssumption DEF cmp
<1> QED
  BY <1>1 DEF bst_check_cache

\* The beginning of bst_find.
LEMMA StartFindSound ==
    ASSUME NEW U, NEW H, NEW O, Sound(U, H, O), IndInv, pc = "idle",
           NEW fn, NEW key \in Keys, NEW node, StartFind(fn, key, node),
           Ordered(tree, U, value'), ChainsOf(U[tree.root], O, value', list', free'),
           CacheHolds(cache, U[tree.root], value'),
           fn = "puts" => /\ node \in Nodes /\ O[node] = nil /\ (\A j \in DOMAIN free' : free'[j] # node)
                          /\ list'[node] = NULL /\ value'[node] = key
    PROVE  Sound(U, H, O)'
<1> DEFINE T == U[tree.root]
<1>1. /\ pc' = "find" /\ op' = [fn |-> fn, key |-> key, node |-> node]
      /\ loc' = [node |-> tree.root, parent |-> nil, parent_cmp |-> 0]
      /\ x' = x /\ cache' = cache /\ tree' = tree
  BY DEF StartFind
<1>2. /\ op'.fn = fn /\ op'.key = key /\ op'.node = node
      /\ loc'.node = tree.root /\ loc'.parent = nil /\ loc'.parent_cmp = 0
  BY <1>1
<1>3. tree.root \in T \cup {nil} /\ nil \notin T /\ T \in SUBSET Nodes
  BY SoundTree DEF Shape
<1>4. FindOK(T, U)'
  <2>1. ASSUME NEW m \in T, NEW s \in Side PROVE nil \notin U[tree.child[m][s]]
    <3>1. tree.child[m][s] = nil \/ tree.child[m][s] \in T
      BY SoundTree, ShapeChild
    <3>2. U[nil] = {}
      BY SoundTree DEF Shape
    <3>3. tree.child[m][s] \in T => U[tree.child[m][s]] \subseteq T
      BY SoundTree, ShapeNode
    <3> QED
      BY <3>1, <3>2, <3>3, <1>3
  <2>2. ASSUME NEW s \in Side
        PROVE  cache[Extreme(s)] \in U[tree.root] \/ cache[Extreme(s)] = nil
    BY DEF CacheHolds, Outermost
  <2> QED
    BY <1>1, <1>2, <2>1, <2>2 DEF FindOK
<1>5. fn = "puts" => Allocated(O)'
  BY <1>1, <1>2 DEF Allocated, OnFreeList
<1>6. Balanced(tree, T, H)
  BY DEF Sound
<1>7. {loc.node, loc.parent, x}' \subseteq T \cup {nil}
  BY <1>1, <1>2, <1>3, SoundTree
<1>8. CacheOK(T)' /\ Chains(T, O)'
  BY <1>1 DEF CacheOK, Chains
<1>9. \A s \in Side : pc' # Extreme(s)
  BY <1>1 DEF Extreme
<1>10. Shape(tree, U) /\ OnlyLastNode(tree.failed) /\ tree.color[nil] = BST_BLACK
  BY SoundTree
<1> QED
  BY <1>1, <1>2, <1>4, <1>5, <1>6, <1>7, <1>8, <1>9, <1>10 DEF Sound

\* jfs_bst_takes up to bst_find.
LEMMA TakesSound ==
    ASSUME NEW U, NEW H, NEW O, Sound(U, H, O), IndInv, NEW key \in Keys, jfs_bst_takes(key)
    PROVE  Sound(U, H, O)'
<1>1. pc = "idle" /\ UNCHANGED <<value, list, free>>
  BY DEF jfs_bst_takes
<1>2. ASSUME NEW err, NEW out, Return(err, out), UNCHANGED <<tree, cache>> PROVE Sound(U, H, O)'
  BY <1>1, <1>2, ReturnSound
<1>3. ASSUME StartFind("takes", key, nil) PROVE Sound(U, H, O)'
  <2>1. CacheHolds(cache, U[tree.root], value)
    BY <1>1 DEF Sound, CacheOK
  <2> QED
    BY <1>1, <1>3, <2>1, SoundTree, StartFindSound
<1> QED
  BY <1>2, <1>3 DEF jfs_bst_takes

\* A value put into a node that is not linked.
LEMMA PackedValue ==
    ASSUME NEW U, NEW H, NEW O, Sound(U, H, O), IndInv, NEW n \in Nodes \ U[tree.root], NEW key
    PROVE  /\ Ordered(tree, U, [value EXCEPT ![n] = key])
           /\ CacheHolds(cache, U[tree.root], value)
                  => CacheHolds(cache, U[tree.root], [value EXCEPT ![n] = key])
<1> DEFINE v == [value EXCEPT ![n] = key]
<1>1. ASSUME NEW k \in U[tree.root] PROVE v[k] = value[k]
  BY SoundTree
<1>2. ASSUME NEW k \in U[tree.root], NEW s \in Side, NEW m \in U[tree.child[k][s]] PROVE m \in U[tree.root]
  <2>1. tree.child[k][s] # nil
    BY <1>2, SoundTree DEF Shape
  <2> QED
    BY <2>1, <1>2, SoundTree, ShapeChild, ShapeNode
<1>3. Ordered(tree, U, value)
  BY SoundTree
<1> HIDE DEF v
<1>4. Ordered(tree, U, v)
  BY <1>1, <1>2, <1>3 DEF Ordered
<1>5. CacheHolds(cache, U[tree.root], value) => CacheHolds(cache, U[tree.root], v)
  BY <1>1 DEF CacheHolds, Outermost
<1> QED
  BY <1>4, <1>5 DEF v

\* jfs_bst_puts up to bst_find.
LEMMA PutsSound ==
    ASSUME NEW U, NEW H, NEW O, Sound(U, H, O), IndInv, NEW key \in Keys, jfs_bst_puts(key)
    PROVE  \E P : Sound(U, H, P)'
<1>1. pc = "idle"
  BY DEF jfs_bst_puts
<1>2. Balanced(tree, U[tree.root], H) /\ CacheHolds(cache, U[tree.root], value)
  BY <1>1 DEF Sound, CacheOK
<1>3. CASE free = <<>>
  BY <1>1, <1>3, ReturnSound DEF jfs_bst_puts
<1>4. CASE free # <<>>
  <2> DEFINE node   == Head(free)
             packed == [value EXCEPT ![node] = key]
             fresh  == [list EXCEPT ![node] = NULL]
             cached == bst_check_cache(packed, key)
  <2>1. /\ free' = Tail(free)
        /\ value' = packed
        /\ IF cached # nil
           THEN /\ list' = attach(fresh, cached, node)
                /\ cache' = [cache EXCEPT !.previous = cached]
                /\ Return("OK", NULL)
                /\ UNCHANGED tree
           ELSE /\ list' = fresh
                /\ StartFind("puts", key, node)
    BY <1>4 DEF jfs_bst_puts
  <2>2. /\ node \in Nodes \ U[tree.root] /\ O[node] = nil
        /\ \A j \in DOMAIN Tail(free) : Tail(free)[j] # node
        /\ ChainsOf(U[tree.root], O, packed, fresh, Tail(free))
    BY <1>4, SoundTree, ChainAllocate
  <2>3. packed[node] = key /\ fresh \in Lists /\ fresh[node] = NULL
    BY <2>2, SoundTree DEF Lists
  <2>4. Tail(free) \in Seq(Nodes)
    BY <1>4, SoundTree
  <2>5. cached \in Node
    BY SoundTree, CheckCacheType
  <2>6. cached # nil => packed[cached] = key
    BY CheckCache
  <2>7. Ordered(tree, U, packed) /\ CacheHolds(cache, U[tree.root], packed)
    BY <1>2, <2>2, PackedValue
  <2> HIDE DEF node, packed, fresh, cached
  <2>8. CASE cached # nil
    <3>1. cached \in Nodes
      BY <2>5, <2>8, NotNil
    <3>2. PICK P : ChainsOf(U[tree.root], P, packed, attach(fresh, cached, node), Tail(free))
      BY <2>2, <2>3, <2>4, <2>6, <2>8, <3>1, SoundTree, ChainAttach
    <3>3. \A s \in Side : cache'[Extreme(s)] = cache[Extreme(s)]
      BY <2>1, <2>8, SoundTree DEF Cache, Extreme
    <3>4. CacheHolds(cache', U[tree.root], packed)
      BY <2>7, <3>3 DEF CacheHolds
    <3>5. Sound(U, H, P)'
      BY <1>2, <2>1, <2>7, <2>8, <3>2, <3>4, SoundTree, IdleSound DEF Return
    <3> QED
      BY <3>5
  <2>9. CASE cached = nil
    BY <1>1, <2>1, <2>2, <2>3, <2>7, <2>9, StartFindSound
  <2> QED
    BY <2>8, <2>9
<1> QED
  BY <1>3, <1>4

\* jfs_bst_puts of a key that is linked.
LEMMA DuplicateSound ==
    ASSUME NEW U, NEW H, NEW O, Sound(U, H, O), IndInv, puts_duplicate
    PROVE  \E P : Sound(U, H, P)'
<1>1. /\ pc = "find" /\ op.fn = "puts" /\ loc.node # nil /\ op.key = value[loc.node]
      /\ list' = attach(list, loc.node, op.node) /\ cache' = [cache EXCEPT !.previous = op.node]
      /\ Return("OK", NULL) /\ UNCHANGED <<tree, value, free>>
  BY DEF puts_duplicate, Found
<1>2. Balanced(tree, U[tree.root], H) /\ CacheHolds(cache, U[tree.root], value) /\ Allocated(O)
  BY <1>1 DEF Sound, CacheOK
<1>3. /\ op.node \in Nodes /\ O[op.node] = nil /\ list[op.node] = NULL /\ value[op.node] = op.key
      /\ \A j \in DOMAIN free : free[j] # op.node
  BY <1>2 DEF Allocated, OnFreeList
<1>4. loc.node \in Nodes
  BY <1>1, SoundTree
<1>5. PICK P : ChainsOf(U[tree.root], P, value, attach(list, loc.node, op.node), free)
  BY <1>1, <1>3, <1>4, SoundTree, ChainAttach
<1>6. \A s \in Side : cache'[Extreme(s)] = cache[Extreme(s)]
  BY <1>1, SoundTree DEF Cache, Extreme
<1>7. CacheHolds(cache', U[tree.root], value)
  BY <1>2, <1>6 DEF CacheHolds
<1>8. Sound(U, H, P)'
  BY <1>1, <1>2, <1>5, <1>7, SoundTree, IdleSound DEF Return
<1> QED
  BY <1>8

\* bst_find comes to n from p.
Reached(t, n, p) == IF p = nil THEN n = t.root ELSE \E s \in Side : t.child[p][s] = n

\* What bst_find knows of its way down.
LEMMA FindPath ==
    ASSUME NEW t \in Tree, NEW U, Shape(t, U), NEW n \in U[t.root], NEW p \in U[t.root] \cup {nil},
           Reached(t, n, p), NEW m \in U[t.root], NEW r \in Side, n \in U[t.child[m][r]]
    PROVE  /\ p # nil
           /\ m # p => p \in U[t.child[m][r]]
           /\ m = p => t.child[p][r] = n
<1> DEFINE c == t.child[m][r]
<1>1. c # nil
  BY DEF Shape
<1>2. c \in U[t.root] /\ t.parent[c] = m /\ m \notin U[c]
  BY <1>1, ShapeChild
<1>3. p # nil
  <2>1. SUFFICES ASSUME p = nil PROVE FALSE
    OBVIOUS
  <2>2. U[t.root] \subseteq U[c]
    BY <2>1, <1>2, ShapeClosed DEF Reached
  <2> QED
    BY <2>2, <1>2
<1>4. PICK s \in Side : t.child[p][s] = n
  BY <1>3 DEF Reached
<1>5. p \in U[t.root] /\ n # nil
  BY <1>3, ShapeNode
<1>6. t.parent[n] = p
  BY <1>4, <1>5, ShapeChild
<1>7. m # p => p \in U[c]
  <2>1. n = c => m = p
    BY <1>2, <1>6
  <2>2. n # c => t.parent[n] \in U[c]
    BY <1>2, ShapeClosed
  <2> QED
    BY <2>1, <2>2, <1>6
<1>8. m = p => c = n
  <2>1. SUFFICES ASSUME m = p PROVE c = n
    OBVIOUS
  <2>2. r = s \/ r = Opposite(s)
    BY OtherSide
  <2>3. n \notin U[t.child[p][Opposite(s)]]
    BY <1>4, <1>5, ShapeChild
  <2> QED
    BY <2>1, <2>2, <2>3, <1>4
<1> QED
  BY <1>3, <1>7, <1>8

\* Where the extreme e on side q is, once bst_find goes to side s of n.
LEMMA FindExtreme ==
    ASSUME NEW t \in Tree, NEW U, Shape(t, U), NEW val, Ordered(t, U, val), NEW n \in U[t.root],
           NEW key \in Keys, NEW s \in Side, Beyond(s, key, val[n]),
           NEW q \in Side, NEW e \in U[n], Outermost(q, e, U[t.root], val)
    PROVE  \/ e \in U[t.child[n][s]]
           \/ Beyond(q, val[e], key)
           \/ e = n /\ s = q
<1> DEFINE o == Opposite(s)
<1>1. U[n] = {n} \cup U[t.child[n][s]] \cup U[t.child[n][o]]
  BY ShapeSplit
<1>2. o \in Side /\ o # s /\ Opposite(o) = s /\ (q = s \/ q = o)
  BY OtherSide
<1>3. e \in U[t.root] /\ val[e] \in Keys /\ val[n] \in Keys
  BY DEF Ordered, Outermost
<1>4. Beyond(o, val[n], key)
  BY <1>2, <1>3, BeyondOrder
<1>5. CASE e = n
  BY <1>2, <1>4, <1>5
<1>6. CASE e \in U[t.child[n][o]]
  <2>1. Beyond(o, val[e], val[n]) /\ e # n
    BY <1>2, <1>6, ShapeSplit DEF Ordered
  <2>2. CASE q = o
    BY <2>1, <2>2, <1>2, <1>3, <1>4, BeyondTrans
  <2>3. CASE q = s
    <3>1. Beyond(s, val[e], val[n])
      BY <2>1, <2>3 DEF Outermost
    <3>2. Beyond(s, val[n], val[e])
      BY <2>1, <1>2, <1>3, BeyondOrder
    <3> QED
      BY <3>1, <3>2, <1>3, BeyondOrder
  <2> QED
    BY <2>2, <2>3, <1>2
<1> QED
  BY <1>1, <1>5, <1>6

\* An iteration of bst_find.
LEMMA FindSound ==
    ASSUME NEW U, NEW H, NEW O, Sound(U, H, O), IndInv, CmpMagnitudes = {1}, bst_find_step
    PROVE  Sound(U, H, O)'
<1> DEFINE T == U[tree.root]
           n == loc.node
<1>1. pc = "find" /\ n # nil /\ op.key # value[n] /\ UNCHANGED <<tree, value, list, cache, free, pc, op, x, ret>>
  BY DEF bst_find_step
<1>2. FindOK(T, U) /\ CacheHolds(cache, T, value) /\ Balanced(tree, T, H)
  BY <1>1 DEF Sound, CacheOK
<1>3. n \in T /\ value[n] \in Keys /\ op.key \in Keys
  BY <1>1, <1>2, SoundTree DEF Ordered, FindOK
<1>4. PICK c \in cmp(op.key, value[n]) :
          loc' = [node |-> tree.child[n][IF c < 0 THEN "left" ELSE "right"], parent |-> n, parent_cmp |-> c]
  BY DEF bst_find_step
<1> DEFINE s == IF c < 0 THEN "left" ELSE "right"
<1>5. c = Sign(s) /\ s \in Side /\ Beyond(s, op.key, value[n])
  <2>1. op.key \in Int /\ value[n] \in Int
    BY <1>3, KeysAssumption
  <2>2. c = IF op.key < value[n] THEN -1 ELSE 1
    BY <1>1, <1>4 DEF cmp
  <2> QED
    BY <2>1, <2>2, <1>1 DEF Sign, Side, Beyond
<1>6. loc'.node = tree.child[n][s] /\ loc'.parent = n /\ loc'.parent_cmp = Sign(s)
  BY <1>4, <1>5
<1> HIDE DEF s
<1>7. loc.parent \in T \cup {nil} /\ Reached(tree, n, loc.parent)
  BY <1>2, SoundTree DEF FindOK, Reached
<1>8. ASSUME NEW m \in T \ {n}, NEW r \in Side, n \in U[tree.child[m][r]]
      PROVE  Beyond(r, op.key, value[m])
  <2>1. /\ loc.parent # nil
        /\ m # loc.parent => loc.parent \in U[tree.child[m][r]]
        /\ m = loc.parent => tree.child[loc.parent][r] = n
    <3>1. tree \in Tree /\ Shape(tree, U) /\ m \in U[tree.root]
      BY SoundTree
    <3> HIDE DEF n
    <3> QED
      BY <3>1, <1>3, <1>7, <1>8, FindPath
  <2>2. CASE m # loc.parent
    BY <2>1, <2>2, <1>2 DEF FindOK
  <2>3. CASE m = loc.parent
    <3>1. PICK d \in Side : n = tree.child[m][d] /\ Beyond(d, op.key, value[m])
      BY <2>1, <2>3, <1>2 DEF FindOK
    <3>2. d = r
      <4>1. n # tree.child[m][Opposite(d)]
        BY <3>1, <1>1, SoundTree, ShapeChild
      <4> QED
        BY <4>1, <2>1, <2>3, OtherSide
    <3> QED
      BY <3>1, <3>2
  <2> QED
    BY <2>2, <2>3
<1>9. ASSUME NEW q \in Side, NEW e, e = cache[Extreme(q)]
      PROVE  \/ e \in U[tree.child[n][s]]
             \/ e \in T /\ Beyond(q, value[e], op.key)
             \/ e = n /\ Sign(s) = (IF e = nil THEN 0 ELSE Sign(q))
  <2>1. Outermost(q, e, T, value)
    BY <1>2, <1>3, <1>9 DEF CacheHolds
  <2>2. e \in T
    BY <2>1 DEF Outermost
  <2>3. \/ e \in U[n]
        \/ Beyond(q, value[e], op.key)
        \/ e = loc.parent /\ loc.parent_cmp = (IF e = nil THEN 0 ELSE Sign(q))
    BY <1>2, <1>9 DEF FindOK
  <2>4. CASE e \in U[n]
    BY <2>1, <2>2, <2>4, <1>1, <1>3, <1>5, SoundTree, FindExtreme
  <2>5. CASE e = loc.parent /\ loc.parent_cmp = (IF e = nil THEN 0 ELSE Sign(q))
    <3>1. e # nil
      BY <2>2, SoundTree
    <3>2. PICK d \in Side : Sign(q) = Sign(d) /\ n = tree.child[e][d]
      BY <2>5, <3>1, <1>2 DEF FindOK
    <3>3. d = q
      BY <3>2 DEF Sign, Side
    <3>4. tree.child[e][q] = nil
      BY <2>1, SoundTree, OutermostBare
    <3> QED
      BY <3>2, <3>3, <3>4, <1>1
  <2> QED
    BY <2>2, <2>3, <2>4, <2>5
<1>10. FindOK(T, U)'
  <2>1. n # nil /\ op' = op /\ value' = value /\ tree' = tree /\ cache' = cache
    BY <1>1
  <2>2. \A m \in T \ {n} : \A r \in Side : n \in U[tree.child[m][r]] => Beyond(r, op.key, value[m])
    BY <1>8
  <2>3. \A q \in Side :
           LET e == cache[Extreme(q)]
           IN  \/ e \in U[tree.child[n][s]]
               \/ e \in T /\ Beyond(q, value[e], op.key)
               \/ e = n /\ Sign(s) = (IF e = nil THEN 0 ELSE Sign(q))
    BY <1>9
  <2> HIDE DEF n
  <2> QED
    BY <1>3, <1>5, <1>6, <2>1, <2>2, <2>3 DEF FindOK
<1>11. {loc.node, loc.parent, x}' \subseteq T \cup {nil}
  <2>1. tree.child[n][s] \in T \cup {nil}
    BY <1>3, <1>5, SoundTree, ShapeChild
  <2> QED
    BY <1>1, <1>3, <1>6, <2>1, SoundTree
<1>12. op.fn = "puts" => Allocated(O)'
  BY <1>1 DEF Sound, Allocated, OnFreeList
<1>13. CacheOK(T)' /\ Chains(T, O)'
  BY <1>1, <1>2, SoundTree DEF CacheOK, Chains
<1>14. \A q \in Side : pc' # Extreme(q)
  BY <1>1 DEF Extreme
<1> HIDE DEF n
<1> QED
  BY <1>1, <1>2, <1>10, <1>11, <1>12, <1>13, <1>14, SoundTree DEF Sound

-----------------------------------------------------------------------------
(* jfs_bst_puts of a new key *)

\* The key of n belongs on side s of p, where there is no node.
Fits(t, U, n, p, s, val) ==
    /\ p = nil => t.root = nil
    /\ p # nil => t.child[p][s] = nil /\ Beyond(s, val[n], val[p])
    /\ val[n] \in Keys
    /\ \A m \in U[t.root] \ {p} : \A r \in Side :
           p \in U[t.child[m][r]] => Beyond(r, val[n], val[m])

\* u is a search tree of the nodes T.
Formed(u, T, val) == \E W : Shape(u, W) /\ W[u.root] = T /\ Ordered(u, W, val)

\* A leaf there keeps shape, order and black heights.
LEMMA InsertFits ==
    ASSUME NEW t \in Tree, NEW U, Shape(t, U), NEW s \in Side, NEW n \in Nodes \ U[t.root],
           NEW p \in U[t.root] \cup {nil}, NEW val, Fits(t, U, n, p, s, val),
           NEW u, Inserted(u, t, n, p, s), Ordered(t, U, val),
           NEW H, Balanced(t, U[t.root], H), t.color[nil] = BST_BLACK
    PROVE  /\ Formed(u, U[t.root] \cup {n}, val)
           /\ InsertOK(u, U[t.root] \cup {n}, [H EXCEPT ![n] = 1], n)
<1>1. PICK W : InsertedUnder(W, U, n, p)
  BY DEF InsertedUnder
<1>2. /\ p = nil => t.root = nil
      /\ p # nil => t.child[p][s] = nil
      /\ val[n] \in Keys
      /\ p # nil => Beyond(s, val[n], val[p])
      /\ \A m \in U[t.root] \ {p} : \A r \in Side :
             p \in U[t.child[m][r]] => Beyond(r, val[n], val[m])
  BY DEF Fits
<1>3. Shape(u, W) /\ W[u.root] = U[t.root] \cup {n} /\ Ordered(u, W, val)
  BY <1>1, <1>2, InsertShape
<1>4. Heights(t, U[t.root], H, nil, "left") /\ RedApart(t, U[t.root], nil, nil) /\ t.color[t.root] = BST_BLACK
  BY DEF Balanced
<1>5. /\ Heights(u, U[t.root] \cup {n}, [H EXCEPT ![n] = 1], nil, "left")
      /\ RedApart(u, U[t.root] \cup {n}, nil, n)
  BY <1>2, <1>4, InsertColors
<1>6. u.color[n] = BST_RED /\ (n = u.root \/ u.color[u.root] = BST_BLACK)
  <2>1. n \in Node /\ t.root \in Node
    BY NotNil, ReadType, Sides
  <2>2. u.color[n] = BST_RED
    BY <2>1 DEF Inserted
  <2>3. CASE p = nil
    BY <2>2, <2>3 DEF Inserted
  <2>4. CASE p # nil
    <3>1. u.root = t.root /\ t.root # n
      BY <2>4, ShapeNode DEF Inserted, Shape
    <3> QED
      BY <2>1, <2>2, <3>1, <1>4 DEF Inserted
  <2> QED
    BY <2>3, <2>4
<1> QED
  BY <1>3, <1>5, <1>6 DEF InsertOK, Formed

\* The tree that bst_insert makes.
InsertLeaf(t, n, p, s) ==
    LET t1 == Leaf(t, n, p)
    IN  IF p = nil THEN set_root(assert(t1, "insert", t1.root = nil), n) ELSE set_child(t1, p, s, n)

\* What that changes.
LEMMA InsertFields ==
    ASSUME NEW t \in Tree, NEW n \in Node, NEW p \in Node, NEW s \in Side, p # n,
           p = nil => t.root = nil
    PROVE  Inserted(InsertLeaf(t, n, p, s), t, n, p, s)
<1> DEFINE t1 == Leaf(t, n, p)
           u == InsertLeaf(t, n, p, s)
<1>1. LeafSet(t1, t, n, p)
  BY LeafFields
<1>2. t1 \in Tree /\ t1.root = t.root
  BY <1>1 DEF LeafSet
<1>3. CASE p = nil
  <2>1. u = set_root(t1, n)
    BY <1>2, <1>3 DEF InsertLeaf, assert
  <2> HIDE DEF t1
  <2>2. RootSet(set_root(t1, n), t1, n)
    BY <1>2, SetRootFields
  <2> HIDE DEF u
  <2> QED
    BY <2>1, <2>2, <1>1, <1>3 DEF RootSet, LeafSet, Inserted, u
<1>4. CASE p # nil
  <2>1. u = set_child(t1, p, s, n)
    BY <1>4 DEF InsertLeaf
  <2> HIDE DEF t1
  <2>2. ChildSet(set_child(t1, p, s, n), t1, p, s, n)
    BY <1>2, SetChildFields
  <2> HIDE DEF u
  <2>3. /\ u \in Tree /\ u.root = t.root /\ u.failed = t.failed /\ u.parent = t1.parent /\ u.color = t1.color
    BY <2>1, <2>2, <1>1 DEF ChildSet, LeafSet
  <2>4. \A k \in Node : \A r \in Side :
           u.child[k][r] = IF k = n THEN nil ELSE IF k = p /\ r = s THEN n ELSE t.child[k][r]
    BY <2>1, <2>2, <1>1 DEF ChildSet, LeafSet
  <2>5. \A k \in Node : /\ u.parent[k] = IF k = n THEN p ELSE t.parent[k]
                        /\ u.color[k] = IF k = n THEN BST_RED ELSE t.color[k]
    BY <2>3, <1>1 DEF LeafSet
  <2> QED
    BY <2>3, <2>4, <2>5, <1>4 DEF Inserted, u
<1> QED
  BY <1>3, <1>4

\* bst_insert.
LEMMA InsertSound ==
    ASSUME NEW U, NEW H, NEW O, Sound(U, H, O), IndInv, bst_insert
    PROVE  \E W, K, P : Sound(W, K, P)' /\ W[tree'.root] = U[tree.root] \cup {op.node}
<1> DEFINE T == U[tree.root]
           n == op.node
           p == loc.parent
           s == IF loc.parent_cmp = -1 THEN "left" ELSE "right"
<1>1. /\ pc = "find" /\ loc.node = nil /\ op.fn = "puts" /\ x' = n /\ pc' = "fixup_insert"
      /\ UNCHANGED <<value, list, cache, free, op, loc, ret>>
  BY DEF bst_insert, NotFound
<1>2. tree' = InsertLeaf(tree, n, p, s)
  BY DEF bst_insert, InsertLeaf
<1>3. FindOK(T, U) /\ CacheHolds(cache, T, value) /\ Balanced(tree, T, H) /\ Allocated(O)
  BY <1>1 DEF Sound, CacheOK
<1>4. /\ n \in Nodes /\ O[n] = nil /\ list[n] = NULL /\ value[n] = op.key
      /\ \A j \in DOMAIN free : free[j] # n
  BY <1>3 DEF Allocated, OnFreeList
<1>5. n \notin T /\ n # nil /\ n \in Node
  BY <1>4, SoundTree, NotNil DEF ChainsOf
<1>6. p \in T \cup {nil} /\ p \in Node /\ s \in Side /\ p # n
  BY <1>5, SoundTree, NotNil, Sides
<1>7. p # nil => loc.parent_cmp = Sign(s) /\ tree.child[p][s] = nil /\ Beyond(s, value[n], value[p])
  <2>1. SUFFICES ASSUME p # nil
                 PROVE  loc.parent_cmp = Sign(s) /\ tree.child[p][s] = nil /\ Beyond(s, value[n], value[p])
    OBVIOUS
  <2>2. PICK d \in Side : loc.parent_cmp = Sign(d) /\ nil = tree.child[p][d] /\ Beyond(d, op.key, value[p])
    BY <2>1, <1>1, <1>3 DEF FindOK
  <2>3. d = s
    BY <2>2 DEF Sign, Side
  <2> QED
    BY <2>2, <2>3, <1>4
<1>8. p = nil => tree.root = nil /\ T = {} /\ loc.parent_cmp = 0
  <2>1. p = nil => tree.root = nil /\ loc.parent_cmp = 0
    BY <1>1, <1>3 DEF FindOK
  <2>2. U[nil] = {}
    BY SoundTree DEF Shape
  <2> QED
    BY <2>1, <2>2
<1>9. Fits(tree, U, n, p, s, value)
  <2>1. op.key \in Keys
    BY <1>3 DEF FindOK
  <2>2. \A m \in T \ {p} : \A r \in Side : p \in U[tree.child[m][r]] => Beyond(r, value[n], value[m])
    BY <1>3, <1>4 DEF FindOK
  <2> QED
    BY <2>1, <2>2, <1>4, <1>7, <1>8 DEF Fits
<1>10. Inserted(tree', tree, n, p, s)
  BY <1>2, <1>5, <1>6, <1>8, SoundTree, InsertFields
<1>11. \A q \in Side :
          LET e == cache[Extreme(q)]
          IN  \/ e \in T /\ Beyond(q, value[e], value[n])
              \/ e = p /\ loc.parent_cmp = (IF e = nil THEN 0 ELSE Sign(q))
  <2>1. U[nil] = {}
    BY SoundTree DEF Shape
  <2> QED
    BY <2>1, <1>1, <1>3, <1>4 DEF FindOK
<1>12. T \in SUBSET Nodes /\ nil \notin T
  BY SoundTree
<1> HIDE DEF n, p, s
<1>13. PICK W : Shape(tree', W) /\ W[tree'.root] = T \cup {n} /\ Ordered(tree', W, value)
  <2>1. tree \in Tree /\ Shape(tree, U) /\ Ordered(tree, U, value) /\ tree.color[nil] = BST_BLACK
    BY SoundTree
  <2>2. Formed(tree', T \cup {n}, value)
    BY <2>1, <1>3, <1>4, <1>5, <1>6, <1>9, <1>10, InsertFits
  <2> QED
    BY <2>2 DEF Formed
<1>14. PICK K : InsertOK(tree', T \cup {n}, K, n)
  BY <1>3, <1>4, <1>5, <1>6, <1>9, <1>10, SoundTree, InsertFits
<1>15. PICK P : ChainsOf(T \cup {n}, P, value, list, free)
  BY <1>4, SoundTree, ChainLink
<1>16. CacheBehind(W[tree.root], W)'
  <2>1. op' = op /\ op.node = n /\ loc' = loc /\ loc.parent = p /\ cache' = cache /\ value' = value /\ x' = n
    BY <1>1 DEF n, p
  <2>2. ASSUME NEW q \in Side, NEW e, e = cache[Extreme(q)]
        PROVE  IF T \cup {n} = {n} THEN e = nil /\ p = nil /\ loc.parent_cmp = 0
               ELSE /\ Outermost(q, e, (T \cup {n}) \ {n}, value)
                    /\ IF loc.parent_cmp = Sign(q) /\ p = e
                       THEN tree'.child[e][q] = n
                       ELSE Beyond(q, value[e], value[n])
    <3>1. CASE T = {}
      <4>1. p = nil /\ e = nil
        BY <2>2, <3>1, <1>3, <1>6 DEF CacheHolds
      <4> QED
        BY <3>1, <4>1, <1>8
    <3>2. CASE T # {}
      <4>1. T \cup {n} # {n} /\ (T \cup {n}) \ {n} = T
        BY <3>2, <1>5
      <4>2. Outermost(q, e, T, value)
        BY <2>2, <3>2, <1>3 DEF CacheHolds
      <4>3. e # nil /\ e \in T
        BY <4>2, <1>12 DEF Outermost
      <4>4. loc.parent_cmp = Sign(q) /\ p = e => tree'.child[e][q] = n
        <5>1. SUFFICES ASSUME loc.parent_cmp = Sign(q), p = e PROVE tree'.child[e][q] = n
          OBVIOUS
        <5>2. q = s
          BY <5>1, <4>3, <1>6, <1>7 DEF Sign, Side
        <5>3. p # nil /\ p \in Node /\ p # n
          BY <5>1, <4>3, <1>6
        <5> QED
          BY <5>1, <5>2, <5>3, <1>6, <1>10 DEF Inserted
      <4>5. ~(loc.parent_cmp = Sign(q) /\ p = e) => Beyond(q, value[e], value[n])
        BY <2>2, <4>3, <1>11
      <4> QED
        BY <4>1, <4>2, <4>4, <4>5
    <3> QED
      BY <3>1, <3>2
  <2>3. \A q \in Side :
           LET e == cache[Extreme(q)]
           IN  IF T \cup {n} = {n} THEN e = nil /\ p = nil /\ loc.parent_cmp = 0
               ELSE /\ Outermost(q, e, (T \cup {n}) \ {n}, value)
                    /\ IF loc.parent_cmp = Sign(q) /\ p = e
                       THEN tree'.child[e][q] = n
                       ELSE Beyond(q, value[e], value[n])
    BY <2>2
  <2> QED
    BY <2>1, <2>3, <1>13 DEF CacheBehind
<1>17. {loc.node, loc.parent, x}' \subseteq (T \cup {n}) \cup {nil}
  <2>1. loc.node \in T \cup {nil} /\ loc.parent \in T \cup {nil}
    BY SoundTree
  <2> QED
    BY <2>1, <1>1 DEF n
<1>18. OnlyLastNode(tree'.failed) /\ tree'.color[nil] = BST_BLACK
  BY <1>5, <1>10, SoundTree, NotNil DEF Inserted
<1>19. Chains(W[tree.root], P)'
  BY <1>1, <1>13, <1>15 DEF Chains
<1>20. \A q \in Side : pc' # Extreme(q)
  BY <1>1 DEF Extreme
<1>21. x' = n
  BY <1>1 DEF n
<1>22. value' = value /\ pc' = "fixup_insert" /\ InsertOK(tree', W[tree'.root], K, x')
  BY <1>1, <1>13, <1>14, <1>21
<1>23. Sound(W, K, P)'
  BY <1>13, <1>14, <1>16, <1>17, <1>18, <1>19, <1>20, <1>21, <1>22 DEF Sound
<1>24. W[tree'.root] = U[tree.root] \cup {op.node}
  BY <1>13 DEF n
<1> QED
  BY <1>23, <1>24

\* The loop of bst_fixup_insert runs for a red node with a red parent.
LEMMA InsertLoopNodes ==
    ASSUME NEW U, NEW H, NEW O, Sound(U, H, O), IndInv, InsertLoop
    PROVE  /\ RedChild(tree, U, H, x) /\ Family(tree, x, Parent, Grandparent, ParentSide, Uncle)
           /\ CacheBehind(U[tree.root], U) /\ pc = "fixup_insert"
<1>1. pc = "fixup_insert" /\ tree.color[tree.parent[x]] = BST_RED
  BY DEF InsertLoop, Parent
<1>2. InsertOK(tree, U[tree.root], H, x) /\ CacheBehind(U[tree.root], U)
  BY <1>1 DEF Sound
<1>3. RedChild(tree, U, H, x)
  BY <1>1, <1>2, SoundTree DEF RedChild, InsertOK
<1>4. Family(tree, x, Parent, Grandparent, ParentSide, Uncle)
  BY DEF Family, Parent, Grandparent, ParentSide, Uncle
<1> QED
  BY <1>1, <1>2, <1>3, <1>4

\* The cache of a red node that rises to g: its extreme stays below g.
LEMMA RecolorCache ==
    ASSUME NEW t \in Tree, NEW U, Shape(t, U), NEW H, NEW z, RedChild(t, U, H, z),
           NEW p, NEW g, NEW s, NEW w, Family(t, z, p, g, s, w),
           NEW n, NEW e, NEW q \in Side, e \in U[t.root], t.child[e][q] = n,
           z = n \/ e \in U[z] \ {z}
    PROVE  e \in U[g] \ {g}
<1>1. /\ z \in U[t.root] /\ p \in U[t.root] /\ g \in U[t.root] /\ s \in Side /\ p # g /\ z # nil /\ p # nil
      /\ t.child[g][s] = p /\ t.parent[z] = p /\ z \in U[p] /\ p \in U[g] /\ U[p] \subseteq U[g]
  BY FamilyNodes
<1>2. g \notin U[p]
  BY <1>1, ShapeChild
<1>3. CASE z = n
  BY <1>1, <1>3, ShapeChild
<1>4. CASE e \in U[z] \ {z}
  BY <1>1, <1>2, <1>4, ShapeClosed
<1> QED
  BY <1>3, <1>4

\* bst_fixup_insert with a red uncle.
LEMMA RecolorSound ==
    ASSUME NEW U, NEW H, NEW O, Sound(U, H, O), IndInv, bst_fixup_insert_recolor
    PROVE  \E K : Sound(U, K, O)'
<1> DEFINE T == U[tree.root]
           p == Parent
           g == Grandparent
           s == ParentSide
           w == Uncle
<1>1. /\ InsertLoop /\ tree.color[w] = BST_RED /\ x' = g
      /\ UNCHANGED <<value, list, cache, free, pc, op, loc, ret>>
  BY DEF bst_fixup_insert_recolor
<1>2. RedChild(tree, U, H, x) /\ Family(tree, x, p, g, s, w) /\ CacheBehind(T, U) /\ pc = "fixup_insert"
  BY <1>1, InsertLoopNodes
<1>3. tree' = bst_set_color(bst_set_color(bst_set_color(assert(tree, "grandparent", g # nil), p, BST_BLACK),
                                          w, BST_BLACK), g, BST_RED)
  BY DEF bst_fixup_insert_recolor
<1>4. tree \in Tree /\ Shape(tree, U) /\ Ordered(tree, U, value)
  BY SoundTree
<1> HIDE DEF p, g, s, w
<1>5. /\ g \in T /\ p \in Node /\ g \in Node /\ w \in Node /\ p # nil /\ g # nil /\ p # g /\ w # p /\ w # g
  BY <1>2, <1>4, FamilyNodes
<1>6. Recolored(tree', tree, p, w, g)
  <2> DEFINE a == bst_set_color(tree, p, BST_BLACK)
             b == bst_set_color(a, w, BST_BLACK)
  <2>1. tree' = bst_set_color(b, g, BST_RED)
    BY <1>3, <1>5 DEF assert
  <2>2. ColorSet(a, tree, p, BST_BLACK)
    BY <1>4, <1>5, SetColorFields
  <2> HIDE DEF a
  <2>3. a \in Tree
    BY <2>2 DEF ColorSet
  <2>4. ColorSet(b, a, w, BST_BLACK)
    BY <2>3, <1>5, SetColorFields
  <2> HIDE DEF b
  <2>5. b \in Tree
    BY <2>4 DEF ColorSet
  <2>6. ColorSet(tree', b, g, BST_RED)
    BY <2>1, <2>5, <1>5, SetColorFields
  <2>7. /\ tree' \in Tree /\ tree'.root = tree.root /\ tree'.child = tree.child /\ tree'.parent = tree.parent
        /\ tree'.failed = tree.failed
    BY <2>2, <2>4, <2>6 DEF ColorSet
  <2>8. \A k \in Node : tree'.color[k] = IF k = g THEN BST_RED
                                         ELSE IF k = w \/ k = p THEN BST_BLACK ELSE tree.color[k]
    BY <2>2, <2>4, <2>6 DEF ColorSet
  <2> QED
    BY <2>7, <2>8 DEF Recolored
<1>7. /\ tree' \in Tree /\ tree'.root = tree.root /\ tree'.child = tree.child /\ tree'.parent = tree.parent
      /\ tree'.failed = tree.failed
  BY <1>6 DEF Recolored
<1>8. PICK K : /\ Heights(tree', T, K, nil, "left") /\ RedApart(tree', T, nil, g)
               /\ tree'.color[g] = BST_RED /\ tree'.color[nil] = BST_BLACK
               /\ g = tree'.root \/ tree'.color[tree'.root] = BST_BLACK
  BY <1>1, <1>2, <1>4, <1>6, RecolorColors
<1>9. InsertOK(tree', U[tree'.root], K, x')
  BY <1>1, <1>5, <1>7, <1>8 DEF InsertOK, g
<1>10. Shape(tree', U) /\ Ordered(tree', U, value)
  BY <1>4, <1>7, SameLinks
<1>11. CacheBehind(U[tree.root], U)'
  <2>1. ASSUME NEW q \in Side, NEW e, e = cache[Extreme(q)], T # {op.node}, loc.parent_cmp = Sign(q), loc.parent = e
        PROVE  e \in U[g] \ {g}
    <3>1. /\ Outermost(q, e, T \ {op.node}, value) /\ tree.child[e][q] = op.node
          /\ x = op.node \/ e \in U[x] \ {x}
      BY <2>1, <1>2 DEF CacheBehind
    <3>2. e \in T
      BY <3>1 DEF Outermost
    <3> QED
      BY <3>1, <3>2, <1>2, <1>4, RecolorCache
  <2>2. \A q \in Side :
           LET e == cache[Extreme(q)]
           IN  T # {op.node} /\ loc.parent_cmp = Sign(q) /\ loc.parent = e => e \in U[g] \ {g}
    BY <2>1
  <2>3. x' = g
    BY <1>1 DEF g
  <2> QED
    BY <2>2, <2>3, <1>1, <1>2, <1>7 DEF CacheBehind
<1>12. {loc.node, loc.parent, x}' \subseteq T \cup {nil}
  <2>1. loc.node \in T \cup {nil} /\ loc.parent \in T \cup {nil} /\ x' = g
    BY <1>1, SoundTree DEF g
  <2> QED
    BY <2>1, <1>1, <1>5
<1>13. Chains(U[tree.root], O)'
  BY <1>1, <1>7, SoundTree DEF Chains
<1>14. \A q \in Side : pc' # Extreme(q)
  BY <1>1, <1>2 DEF Extreme
<1>15. OnlyLastNode(tree'.failed) /\ value' = value /\ pc' = "fixup_insert" /\ U[tree'.root] = T
  BY <1>1, <1>2, <1>7, SoundTree
<1>16. Sound(U, K, O)'
  BY <1>8, <1>9, <1>10, <1>11, <1>12, <1>13, <1>14, <1>15 DEF Sound
<1> QED
  BY <1>16

\* The new node stays where the cache will look for it.
LEMMA RotateCache ==
    ASSUME NEW t \in Tree, NEW U, Shape(t, U), NEW H, NEW z, RedChild(t, U, H, z),
           NEW p, NEW g, NEW s, NEW w, Family(t, z, p, g, s, w), t.color[w] = BST_BLACK,
           NEW val, Ordered(t, U, val), NEW n, n \in U[t.root],
           NEW e, NEW q \in Side, Outermost(q, e, U[t.root] \ {n}, val), t.child[e][q] = n,
           z = n \/ e \in U[z] \ {z}
    PROVE  InsertTree(t, z, p, g, s).child[e][q] = n
<1> DEFINE u == InsertTree(t, z, p, g, s)
<1>1. /\ z \in U[t.root] /\ p \in U[t.root] /\ g \in U[t.root] /\ s \in Side /\ p # g /\ z # g /\ z # nil /\ p # nil
      /\ g # nil /\ t.child[g][s] = p /\ t.parent[z] = p /\ z \in U[p] /\ p \in U[g] /\ U[p] \subseteq U[g]
      /\ z \in Node /\ p \in Node /\ g \in Node
  BY FamilyNodes
<1>2. /\ LinksKept(u, t, {z, g, p, t.parent[g]})
      /\ z # t.child[p][Opposite(s)] => u.child[p][s] = z
  BY InsertRotateSound
<1> HIDE DEF u
<1>3. e \in U[t.root] /\ e \in Node /\ n # nil
  BY ShapeNode DEF Outermost
<1>4. g \notin U[p] /\ p \notin U[z]
  <2>1. g \notin U[p]
    BY <1>1, ShapeChild
  <2>2. z # t.root
    BY FamilyNodes
  <2> QED
    BY <1>1, <2>1, <2>2, ShapeParent
<1>5. CASE z = n
  <2>1. e = p
    BY <1>1, <1>3, <1>5, ShapeChild
  <2>2. Beyond(q, val[p], val[g])
    BY <2>1, <1>1, <1>5 DEF Outermost
  <2>3. Beyond(s, val[p], val[g])
    BY <1>1, ShapeNode DEF Ordered
  <2>4. val[p] \in Keys /\ val[g] \in Keys
    BY <1>1 DEF Ordered
  <2>5. q = s
    <3>1. SUFFICES ASSUME q # s PROVE FALSE
      OBVIOUS
    <3>2. q = Opposite(s)
      BY <3>1, <1>1, OtherSide
    <3>3. Beyond(s, val[g], val[p])
      BY <3>2, <2>2, <2>4, <1>1, BeyondOrder, OtherSide
    <3> QED
      BY <3>3, <2>3, <2>4, <1>1, BeyondOrder
  <2>6. z # t.child[p][Opposite(s)]
    BY <2>1, <2>5, <1>1, <1>5, ShapeChild
  <2> QED
    BY <2>1, <2>5, <2>6, <1>2, <1>5 DEF u
<1>6. CASE e \in U[z] \ {z}
  <2>1. e \in U[p] /\ e # p
    BY <1>1, <1>4, <1>6, ShapeClosed
  <2>2. e # g
    BY <2>1, <1>4
  <2>3. e # t.parent[g]
    <3>1. CASE g = t.root
      <4>1. t.parent[g] = nil
        BY <3>1, <1>1 DEF Shape
      <4> QED
        BY <4>1, <1>3, ShapeNode
    <3>2. CASE g # t.root
      <4>1. t.parent[g] \notin U[g]
        BY <3>2, <1>1, ShapeParent
      <4> QED
        BY <4>1, <2>1, <1>1
    <3> QED
      BY <3>1, <3>2
  <2> QED
    BY <2>1, <2>2, <2>3, <1>2, <1>3, <1>6 DEF LinksKept, u
<1> QED
  BY <1>5, <1>6

\* bst_fixup_insert with a black uncle.
LEMMA RotateInsertSound ==
    ASSUME NEW U, NEW H, NEW O, Sound(U, H, O), IndInv, bst_fixup_insert_rotate
    PROVE  \E W, K : Sound(W, K, O)'
<1> DEFINE T == U[tree.root]
           p == Parent
           g == Grandparent
           s == ParentSide
           w == Uncle
<1>1. /\ InsertLoop /\ tree.color[w] = BST_BLACK /\ pc' = "insert_done"
      /\ x' = (IF x = tree.child[p][Opposite(s)] THEN p ELSE x)
      /\ UNCHANGED <<value, list, cache, free, op, loc, ret>>
  BY DEF bst_fixup_insert_rotate
<1>2. RedChild(tree, U, H, x) /\ Family(tree, x, p, g, s, w) /\ CacheBehind(T, U) /\ pc = "fixup_insert"
  BY <1>1, InsertLoopNodes
<1>4. tree \in Tree /\ Shape(tree, U) /\ Ordered(tree, U, value)
  BY SoundTree
<1>5. g \in T /\ p \in T /\ x \in T /\ g # nil
  <2> HIDE DEF p, g, s, w
  <2> QED
    BY <1>2, <1>4, FamilyNodes
<1>6. tree' = InsertTree(tree, x, p, g, s)
  <2>1. assert(tree, "grandparent", g # nil) = tree
    BY <1>5 DEF assert
  <2> QED
    BY <2>1 DEF bst_fixup_insert_rotate, InsertTree, OuterTree
<1> HIDE DEF p, g, s, w
<1>7. Settled(tree', tree, T, value)
  BY <1>1, <1>2, <1>4, <1>6, InsertRotateSound
<1>8. PICK W, K : GoodTree(tree', W, T, value, K)
  BY <1>7 DEF Settled
<1>9. /\ tree' \in Tree /\ Shape(tree', W) /\ W[tree'.root] = T /\ Ordered(tree', W, value)
      /\ Balanced(tree', W[tree'.root], K) /\ tree'.color[nil] = BST_BLACK
  BY <1>8 DEF GoodTree
<1>10. OnlyLastNode(tree'.failed)
  BY <1>7, SoundTree DEF Settled
<1>11. CacheBehind(W[tree.root], W)'
  <2>1. op.node \in T
    BY <1>2 DEF CacheBehind
  <2>2. ASSUME NEW q \in Side, NEW e, e = cache[Extreme(q)], T # {op.node}, loc.parent_cmp = Sign(q), loc.parent = e
        PROVE  tree'.child[e][q] = op.node
    <3>1. /\ Outermost(q, e, T \ {op.node}, value) /\ tree.child[e][q] = op.node
          /\ x = op.node \/ e \in U[x] \ {x}
      BY <2>2, <1>2 DEF CacheBehind
    <3> QED
      BY <2>1, <3>1, <1>1, <1>2, <1>4, <1>6, RotateCache
  <2>3. \A q \in Side :
           LET e == cache[Extreme(q)]
           IN  T # {op.node} /\ loc.parent_cmp = Sign(q) /\ loc.parent = e => tree'.child[e][q] = op.node
    BY <2>2
  <2> QED
    BY <2>3, <1>1, <1>2, <1>9 DEF CacheBehind
<1>12. {loc.node, loc.parent, x}' \subseteq T \cup {nil}
  <2>1. loc.node \in T \cup {nil} /\ loc.parent \in T \cup {nil} /\ x' \in T
    BY <1>1, <1>5, SoundTree
  <2> QED
    BY <2>1, <1>1
<1>13. Chains(W[tree.root], O)'
  BY <1>1, <1>9, SoundTree DEF Chains
<1>14. \A q \in Side : pc' # Extreme(q)
  BY <1>1 DEF Extreme
<1>15. Sound(W, K, O)'
  BY <1>1, <1>9, <1>10, <1>11, <1>12, <1>13, <1>14 DEF Sound
<1> QED
  BY <1>15

\* In a balanced tree no red node has a red child.
LEMMA BalancedApart ==
    ASSUME NEW t \in Tree, NEW U, Shape(t, U), NEW H, Balanced(t, U[t.root], H), t.color[nil] = BST_BLACK, NEW z
    PROVE  RedApart(t, U[t.root], z, z)
<1>1. ASSUME NEW n \in U[t.root], NEW s \in Side, t.color[n] = BST_RED PROVE t.color[t.child[n][s]] = BST_BLACK
  <2>1. n # nil
    BY ShapeNode
  <2>2. CASE t.child[n][s] = nil
    BY <2>2
  <2>3. CASE t.child[n][s] # nil
    BY <1>1, <2>1, <2>3 DEF Balanced, RedApart
  <2> QED
    BY <2>2, <2>3
<1> QED
  BY <1>1 DEF RedApart

\* Without a red parent of x, bst_fixup_insert is done but for the root.
LEMMA RootPaint ==
    ASSUME NEW t \in Tree, NEW U, Shape(t, U), NEW H, t.color[nil] = BST_BLACK,
           \/ Balanced(t, U[t.root], H)
           \/ \E z : InsertOK(t, U[t.root], H, z) /\ t.color[t.parent[z]] = BST_BLACK
    PROVE  \E K : Balanced(bst_set_color(t, t.root, BST_BLACK), U[t.root], K)
<1> DEFINE T == U[t.root]
           u == bst_set_color(t, t.root, BST_BLACK)
<1>1. t.root \in Node
  BY ReadType, Sides, NotNil
<1>2. ColorSet(u, t, t.root, BST_BLACK)
  BY <1>1, SetColorFields
<1>3. Heights(t, T, H, nil, "left")
  BY DEF Balanced, InsertOK
<1>4. RedApart(t, T, t.root, t.root)
  <2>1. CASE Balanced(t, T, H)
    BY <2>1, BalancedApart
  <2>2. CASE \E z : InsertOK(t, T, H, z) /\ t.color[t.parent[z]] = BST_BLACK
    <3>1. PICK z : InsertOK(t, T, H, z) /\ t.color[t.parent[z]] = BST_BLACK
      BY <2>2
    <3>2. RedApart(t, T, nil, z) /\ z \in T /\ z # nil
      BY <3>1, ShapeNode DEF InsertOK
    <3>3. ASSUME NEW n \in T, NEW s \in Side, t.color[n] = BST_RED, t.child[n][s] # t.root
          PROVE  t.color[t.child[n][s]] = BST_BLACK
      <4>1. n # nil
        BY ShapeNode
      <4>2. t.child[n][s] # z
        <5>1. t.child[n][s] = z => t.parent[z] = n
          BY <3>2, ShapeChild
        <5> QED
          BY <5>1, <3>1, <3>3 DEF BST_RED, BST_BLACK
      <4> QED
        BY <4>1, <4>2, <3>2, <3>3 DEF RedApart
    <3> QED
      BY <3>3 DEF RedApart
  <2> QED
    BY <2>1, <2>2
<1> HIDE DEF u
<1>5. \E K : Balanced(u, T, K) /\ u.color[nil] = BST_BLACK
  BY <1>1, <1>2, <1>3, <1>4, PaintColors
<1> QED
  BY <1>5 DEF u

\* bst_update_cache_insert, for both sides.
LEMMA InsertCache ==
    ASSUME NEW U, NEW H, NEW O, Sound(U, H, O), IndInv, CacheBehind(U[tree.root], U),
           NEW t, t.root = tree.root, t.child = tree.child, NEW q \in Side
    PROVE  Outermost(q, bst_update_cache_insert(t)[Extreme(q)], U[tree.root], value)
<1> DEFINE T == U[tree.root]
           n == op.node
           e == cache[Extreme(q)]
           c == bst_update_cache_insert(t)[Extreme(q)]
<1>1. n \in T /\ n # nil
  BY SoundTree DEF CacheBehind
<1>2. CASE T = {n}
  <2>1. /\ cache.smallest = nil /\ cache.largest = nil /\ loc.parent = nil /\ loc.parent_cmp = 0
    BY <1>2, Sides DEF CacheBehind, Extreme
  <2>2. tree.root = n
    BY <1>1, <1>2, SoundTree DEF Shape
  <2>3. c = n
    <3>1. bst_update_cache_insert(t) = [cache EXCEPT !.largest = t.root, !.smallest = t.root]
      BY <2>1 DEF bst_update_cache_insert
    <3> QED
      BY <2>2, <3>1, SoundTree DEF Cache, Extreme
  <2> QED
    BY <2>3, <1>2 DEF Outermost
<1>3. CASE T # {n}
  <2>1. \A r \in Side : Outermost(r, cache[Extreme(r)], T \ {n}, value)
    BY <1>3 DEF CacheBehind
  <2>2. cache.largest # nil
    <3>1. Outermost("right", cache.largest, T \ {n}, value)
      BY <2>1, Sides DEF Extreme
    <3> QED
      BY <3>1, SoundTree DEF Outermost
  <2>3. e \in T /\ e # n /\ (\A m \in (T \ {n}) \ {e} : Beyond(q, value[e], value[m]))
    BY <2>1 DEF Outermost
  <2>4. \A m \in T : value[m] \in Keys
    BY SoundTree DEF Ordered
  <2>5. CASE loc.parent_cmp = Sign(q) /\ loc.parent = e
    <3>1. tree.child[e][q] = n
      BY <1>3, <2>5 DEF CacheBehind
    <3>2. c = n
      <4>1. CASE q = "left"
        <5>1. loc.parent_cmp = -1 /\ loc.parent = cache.smallest
          BY <4>1, <2>5 DEF Sign, Extreme
        <5>2. bst_update_cache_insert(t) = [cache EXCEPT !.smallest = t.child[loc.parent]["left"]]
          BY <5>1 DEF bst_update_cache_insert
        <5> QED
          BY <4>1, <5>1, <5>2, <3>1, SoundTree DEF Cache, Extreme
      <4>2. CASE q = "right"
        <5>1. loc.parent_cmp = 1 /\ loc.parent = cache.largest
          BY <4>2, <2>5 DEF Sign, Extreme
        <5>2. bst_update_cache_insert(t) = [cache EXCEPT !.largest = t.child[loc.parent]["right"]]
          BY <5>1 DEF bst_update_cache_insert
        <5> QED
          BY <4>2, <5>1, <5>2, <3>1, SoundTree DEF Cache, Extreme
      <4> QED
        BY <4>1, <4>2 DEF Side
    <3>3. Beyond(q, value[n], value[e])
      <4>1. n \in U[n]
        BY <1>1, SoundTree, ShapeNode
      <4> QED
        BY <3>1, <4>1, <2>3, SoundTree DEF Ordered
    <3>4. ASSUME NEW m \in T \ {n} PROVE Beyond(q, value[n], value[m])
      <4>1. CASE m = e
        BY <3>3, <4>1
      <4>2. CASE m # e
        <5>1. Beyond(q, value[e], value[m])
          BY <2>3, <4>2
        <5> QED
          BY <5>1, <3>3, <1>1, <2>3, <2>4, BeyondTrans
      <4> QED
        BY <4>1, <4>2
    <3> QED
      BY <1>1, <3>2, <3>4 DEF Outermost
  <2>6. CASE ~(loc.parent_cmp = Sign(q) /\ loc.parent = e)
    <3>1. Beyond(q, value[e], value[n])
      BY <1>3, <2>6 DEF CacheBehind
    <3>2. c = e
      <4>1. CASE q = "left"
        <5>1. ~(loc.parent_cmp = -1 /\ loc.parent = cache.smallest)
          BY <4>1, <2>6 DEF Sign, Extreme
        <5> QED
          BY <4>1, <5>1, <2>2, SoundTree DEF bst_update_cache_insert, Cache, Extreme
      <4>2. CASE q = "right"
        <5>1. ~(loc.parent_cmp = 1 /\ loc.parent = cache.largest)
          BY <4>2, <2>6 DEF Sign, Extreme
        <5> QED
          BY <4>2, <5>1, <2>2, SoundTree DEF bst_update_cache_insert, Cache, Extreme
      <4> QED
        BY <4>1, <4>2 DEF Side
    <3> QED
      BY <3>1, <3>2, <2>3 DEF Outermost
  <2> QED
    BY <2>5, <2>6
<1> QED
  BY <1>2, <1>3

\* The end of jfs_bst_puts.
LEMMA PutsDoneSound ==
    ASSUME NEW U, NEW H, NEW O, Sound(U, H, O), IndInv, puts_done
    PROVE  \E K : Sound(U, K, O)'
<1> DEFINE T == U[tree.root]
<1>1. /\ pc = "insert_done" \/ (pc = "fixup_insert" /\ tree.color[tree.parent[x]] = BST_BLACK)
      /\ tree' = bst_set_color(tree, tree.root, BST_BLACK)
      /\ cache' = [bst_update_cache_insert(tree') EXCEPT !.previous = op.node]
      /\ Return("OK", NULL) /\ UNCHANGED <<value, list, free>>
  BY DEF puts_done, Parent
<1>2. CacheBehind(T, U)
  BY <1>1 DEF Sound
<1>3. \/ Balanced(tree, T, H)
      \/ InsertOK(tree, T, H, x) /\ tree.color[tree.parent[x]] = BST_BLACK
  BY <1>1 DEF Sound
<1>4. tree \in Tree /\ Shape(tree, U) /\ Ordered(tree, U, value) /\ tree.color[nil] = BST_BLACK /\ tree.root \in Node
  BY SoundTree, ReadType, Sides, NotNil
<1>5. PICK K : Balanced(tree', T, K)
  BY <1>1, <1>3, <1>4, RootPaint
<1>6. ColorSet(tree', tree, tree.root, BST_BLACK)
  BY <1>1, <1>4, SetColorFields
<1>7. /\ tree' \in Tree /\ tree'.root = tree.root /\ tree'.child = tree.child /\ tree'.parent = tree.parent
      /\ tree'.failed = tree.failed /\ tree'.color[nil] = BST_BLACK
  BY <1>4, <1>6, NotNil DEF ColorSet
<1>8. Shape(tree', U) /\ Ordered(tree', U, value)
  BY <1>4, <1>7, SameLinks
<1>9. T # {}
  BY <1>2 DEF CacheBehind
<1>10. ASSUME NEW q \in Side PROVE Outermost(q, cache'[Extreme(q)], T, value)
  <2>1. Outermost(q, bst_update_cache_insert(tree')[Extreme(q)], T, value)
    BY <1>2, <1>7, InsertCache
  <2>2. bst_update_cache_insert(tree') \in Cache
    BY <1>7, SoundTree, UpdateCacheInsertType
  <2>3. cache'[Extreme(q)] = bst_update_cache_insert(tree')[Extreme(q)]
    <3> DEFINE c == bst_update_cache_insert(tree')
    <3>1. c \in Cache /\ cache' = [c EXCEPT !.previous = op.node]
      BY <1>1, <2>2
    <3> HIDE DEF c
    <3>2. cache'[Extreme(q)] = c[Extreme(q)]
      BY <3>1 DEF Cache, Extreme
    <3> QED
      BY <3>2 DEF c
  <2> QED
    BY <2>1, <2>3
<1>11. CacheHolds(cache', T, value)
  BY <1>9, <1>10 DEF CacheHolds
<1>12. OnlyLastNode(tree.failed) /\ ChainsOf(T, O, value, list, free)
  BY SoundTree
<1>13. Sound(U, K, O)'
  BY <1>1, <1>5, <1>7, <1>8, <1>11, <1>12, IdleSound DEF Return
<1> QED
  BY <1>13

-----------------------------------------------------------------------------
(* Taking a node out *)

\* u is t but for the asserts that have failed.
SameTree(u, t) ==
    u.root = t.root /\ u.child = t.child /\ u.parent = t.parent /\ u.color = t.color

\* The invariant does not look at those.
LEMMA SameShape ==
    ASSUME NEW t, NEW u, SameTree(u, t), NEW U, Shape(t, U), NEW val, Ordered(t, U, val),
           NEW H, Balanced(t, U[t.root], H), t.color[nil] = BST_BLACK
    PROVE  /\ Shape(u, U) /\ Ordered(u, U, val) /\ u.color[nil] = BST_BLACK /\ u.root = t.root
           /\ Balanced(u, U[u.root], H)
<1>1. u.root = t.root /\ u.child = t.child /\ u.parent = t.parent /\ u.color = t.color
  BY DEF SameTree
<1>2. Shape(u, U)
  BY <1>1 DEF Shape, Kid, Closed
<1>3. Ordered(u, U, val)
  BY <1>1 DEF Ordered
<1>4. Balanced(u, U[u.root], H)
  BY <1>1 DEF Balanced, Heights, RedApart
<1> QED
  BY <1>1, <1>2, <1>3, <1>4

\* The tree of the state.
LEMMA TreeItself ==
    ASSUME NEW U, NEW H, NEW O, Sound(U, H, O), IndInv
    PROVE  tree \in Tree /\ SameTree(tree, tree) /\ OnlyLastNode(tree.failed)
  BY SoundTree DEF SameTree

\* The end of a call that puts a node on the free list.
LEMMA FreeSound ==
    ASSUME NEW U, NEW H, NEW O, Sound(U, H, O), IndInv, Balanced(tree, U[tree.root], H),
           NEW t \in Tree, SameTree(t, tree), OnlyLastNode(t.failed),
           NEW l \in Lists, NEW n \in Nodes \ U[tree.root], jfs_fl_free(t, l, n),
           NEW P, ChainsOf(U[tree.root], P, value, l, free), P[n] = nil, \A j \in DOMAIN free : free[j] # n,
           NEW err, NEW out, Return(err, out), value' = value,
           CacheHolds(cache', U[tree.root], value)
    PROVE  Sound(U, H, P)'
<1>1. free' = <<n>> \o free /\ tree' = Leaf(t, n, nil) /\ list' = [l EXCEPT ![n] = NULL]
  BY DEF jfs_fl_free
<1>2. ChainsOf(U[tree.root], P, value, list', free')
  BY <1>1, SoundTree, ChainFree
<1>3. LeafSet(tree', t, n, nil)
  BY <1>1, LeafFields, NotNil
<1>4. /\ Shape(t, U) /\ Ordered(t, U, value) /\ t.color[nil] = BST_BLACK /\ t.root = tree.root
      /\ Balanced(t, U[t.root], H)
  BY SoundTree, SameShape
<1>5. /\ Shape(tree', U) /\ tree'.root = tree.root /\ Ordered(tree', U, value) /\ OnlyLastNode(tree'.failed)
      /\ Balanced(tree', U[tree.root], H) /\ tree'.color[nil] = BST_BLACK
  <2>1. GoodTree(t, U, U[tree.root], value, H) /\ NotLinked(n, U[tree.root])
    BY <1>4 DEF GoodTree, NotLinked
  <2>2. GoodTree(tree', U, U[tree.root], value, H)
    BY ONLY <2>1, <1>3, FreedShape
  <2>3. tree'.root = tree.root /\ OnlyLastNode(tree'.failed)
    BY ONLY <1>3, <1>4, OnlyLastNode(t.failed) DEF LeafSet
  <2> QED
    BY ONLY <2>2, <2>3 DEF GoodTree
<1> QED
  BY <1>2, <1>4, <1>5, IdleSound DEF Return

\* The state in which n has just been unlinked.
LEMMA UnlinkSound ==
    ASSUME NEW U, NEW H, NEW O, Sound(U, H, O), IndInv, NEW n \in U[tree.root],
           CacheHolds(cache, U[tree.root], value),
           NEW W, NEW K, Shape(tree', W), W[tree'.root] = U[tree.root] \ {n}, Ordered(tree', W, value),
           OnlyLastNode(tree'.failed), tree'.color[nil] = BST_BLACK,
           x' \in (U[tree.root] \ {n}) \cup {nil},
           NEW c \in {BST_RED, BST_BLACK}, pc' = AfterDelete(c),
           c = BST_RED => Balanced(tree', U[tree.root] \ {n}, K),
           c = BST_BLACK => DeleteOK(tree', U[tree.root] \ {n}, K, x'),
           op'.node = n, loc' = NoLoc, UNCHANGED <<value, cache, list, free>>,
           \A q \in Side : n = cache[Extreme(q)] => Follows(tree', n, q, U[tree.root] \ {n}, value)
    PROVE  \E P : Sound(W, K, P)'
<1> DEFINE T == U[tree.root]
           V == T \ {n}
<1>1. PICK P : P[n] = nil /\ ChainsOf(V, P, value, list, free)
  BY SoundTree, ChainUnlink
<1>2. \A j \in DOMAIN free : free[j] # n
  <2>1. ChainsOf(T, O, value, list, free) /\ T \in SUBSET Nodes /\ list \in Lists /\ free \in Seq(Nodes)
    BY SoundTree
  <2>2. \A j \in DOMAIN free : O[free[j]] = nil
    BY <2>1 DEF ChainsOf, Freed1
  <2>3. O[n] = n /\ n # nil
    BY <2>1, NodesAssumption DEF ChainsOf
  <2> QED
    BY <2>2, <2>3
<1>3. n \in Nodes /\ value[n] \in Keys
  BY SoundTree DEF Ordered
<1>4. \A q \in Side : Outermost(q, cache[Extreme(q)], T, value)
  BY DEF CacheHolds
<1>5. V \cup {n} = T
  OBVIOUS
<1>6. CacheStale(W[tree.root], P)'
  <2>1. op'.node \in Nodes \ V /\ P[op'.node] = nil /\ op'.node \notin OnFreeList'
    BY <1>1, <1>2, <1>3 DEF OnFreeList
  <2>2. \A q \in Side : /\ Outermost(q, cache[Extreme(q)], V \cup {op'.node}, value)
                        /\ op'.node = cache[Extreme(q)] => Follows(tree', op'.node, q, V, value)
    BY <1>4, <1>5
  <2> QED
    BY <2>1, <2>2, <1>3 DEF CacheStale
<1>7. {loc.node, loc.parent, x}' \subseteq V \cup {nil}
  BY DEF NoLoc
<1>8. Chains(W[tree.root], P)'
  BY <1>1 DEF Chains
<1>9. \A q \in Side : pc' # Extreme(q)
  BY DEF Extreme, AfterDelete
<1>10. /\ pc' = "update_cache" => Balanced(tree', W[tree'.root], K)
       /\ pc' = "fixup_delete" => DeleteOK(tree', W[tree'.root], K, x')
       /\ pc' \in {"update_cache", "fixup_delete"}
  BY DEF AfterDelete, BST_RED, BST_BLACK
<1>11. Sound(W, K, P)'
  BY <1>6, <1>7, <1>8, <1>9, <1>10 DEF Sound
<1> QED
  BY <1>11

\* u is a tree without n: a black node is missing above r if n or the node that
\* took its place was black.
Unlinked(u, W, K, T, n, val, c, r) ==
    /\ Shape(u, W) /\ W[u.root] = T \ {n} /\ Ordered(u, W, val)
    /\ u.color[nil] = BST_BLACK /\ OnlyLastNode(u.failed)
    /\ c = BST_RED => Balanced(u, T \ {n}, K)
    /\ c = BST_BLACK => DeleteOK(u, T \ {n}, K, r)
    /\ r \in (T \ {n}) \cup {nil} /\ c \in {BST_RED, BST_BLACK}
    /\ \A q \in Side : Outermost(q, n, T, val) => Follows(u, n, q, T \ {n}, val)

\* The only child of a node has no children.
LEMMA LoneChild ==
    ASSUME NEW t \in Tree, NEW U, Shape(t, U), NEW n, NEW s, NEW r, NEW p, NEW e,
           RemoveNodes(t, U, n, s, r, p, e), t.color[nil] = BST_BLACK,
           NEW H, Balanced(t, U[t.root], H), r # nil
    PROVE  U[r] = {r}
<1> DEFINE T == U[t.root]
<1>01. Heights(t, U[t.root], H, nil, "left") /\ RedApart(t, U[t.root], nil, nil)
  BY DEF Balanced
<1>0. BST_RED = 0 /\ BST_BLACK = 1
  BY DEF BST_RED, BST_BLACK
<1>1. /\ n \in Nodes /\ n \in Node /\ n # nil /\ r \in Node /\ p \in Node /\ e \in Side
      /\ n # r /\ p # n /\ n \in T
      /\ p # nil => p \in T /\ t.child[p][e] = n /\ t.child[p][Opposite(e)] # n
      /\ r # nil => r \in T /\ t.parent[r] = n
  BY RemoveApart
<1>2. s \in Side /\ t.child[n][s] = nil /\ r = t.child[n][Opposite(s)] /\ p = t.parent[n]
  BY DEF RemoveNodes
<1>3. H \in [Node -> Nat \ {0}] /\ H[nil] = 1 /\ T \subseteq Nodes
  BY <1>01, ShapeNode DEF Heights
<1>4. H[r] = 1 /\ H[n] = t.color[n] + 1 /\ t.color[n] \in {0, 1}
  <2>1. H[n] = t.color[n] + H[nil] /\ H[n] = t.color[n] + H[r] /\ H[r] \in Nat /\ t.color[n] \in {0, 1}
    BY <1>1, <1>2, Sides, <1>01, HeightsRead
  <2> QED
    BY <2>1, <1>3
<1>5. \A i \in T : \A j \in Side : t.color[i] = BST_RED => t.color[t.child[i][j]] = BST_BLACK
  <2>1. \A i \in T : i # nil
    BY ShapeNode
  <2> QED
    BY <2>1, <1>01 DEF RedApart
<1>6. ASSUME r # nil PROVE U[r] = {r}
  <2>1. ASSUME NEW j \in Side PROVE t.child[r][j] = nil
    <3>1. H[r] = t.color[r] + H[t.child[r][j]] /\ H[t.child[r][j]] \in Nat /\ H[t.child[r][j]] >= 1
          /\ t.color[r] \in {0, 1} /\ t.child[r][j] \in Node
      BY <1>1, <1>6, <1>01, HeightsRead
    <3>2. t.color[r] = 0 /\ H[t.child[r][j]] = 1
      BY <3>1, <1>4
    <3>3. t.color[t.child[r][j]] = 1
      BY <3>2, <1>0, <1>1, <1>5, <1>6
    <3>4. SUFFICES ASSUME t.child[r][j] # nil PROVE FALSE
      OBVIOUS
    <3>5. t.child[r][j] \in T
      BY <3>4, <1>1, <1>6, ShapeChild
    <3>6. H[t.child[r][j]] = t.color[t.child[r][j]] + H[t.child[t.child[r][j]][j]]
          /\ H[t.child[t.child[r][j]][j]] \in Nat /\ H[t.child[t.child[r][j]][j]] >= 1
      BY <3>5, <1>01, HeightsRead
    <3> QED
      BY <3>2, <3>3, <3>6
  <2>2. U[r] = {r} \cup U[t.child[r]["left"]] \cup U[t.child[r][Opposite("left")]]
    BY <1>1, <1>6, Sides, ShapeSplit
  <2>3. t.child[r]["left"] = nil /\ t.child[r][Opposite("left")] = nil /\ U[nil] = {}
    BY <2>1, Sides DEF Shape
  <2> QED
    BY <2>2, <2>3
<1> QED
  BY <1>6

\* bst_transplant of a node with at most one child unlinks it.
LEMMA RemoveUnlinks ==
    ASSUME NEW t \in Tree, NEW U, Shape(t, U), NEW val, Ordered(t, U, val),
           NEW H, Balanced(t, U[t.root], H), t.color[nil] = BST_BLACK, OnlyLastNode(t.failed),
           NEW n, NEW s, NEW r, NEW p, NEW e, RemoveNodes(t, U, n, s, r, p, e)
    PROVE  \E W, K : Unlinked(bst_transplant(t, n, r), W, K, U[t.root], n, val, t.color[n], r)
<1> DEFINE T == U[t.root]
           u == bst_transplant(t, n, r)
<1>3. p = t.parent[n] /\ e \in Side /\ (p # nil => e = IF t.child[p]["left"] = n THEN "left" ELSE "right")
  BY DEF RemoveNodes
<1>4. /\ n \in Nodes /\ n \in Node /\ r \in Node /\ t.root # nil /\ n # r /\ p \in Node /\ p # n /\ (r # nil => r \in T)
  BY RemoveApart
<1>5. Transplanted(u, t, n, r, p, e)
  BY <1>3, <1>4, TransplantFields
<1> HIDE DEF u
<1>6. PICK W : RemovedUnder(W, U, n)
  BY DEF RemovedUnder
<1>7. Shape(u, W) /\ W[u.root] = T \ {n} /\ Ordered(u, W, val)
  BY <1>5, <1>6, RemoveShape
<1>8. /\ u.color[nil] = BST_BLACK
      /\ t.color[n] = BST_RED => Balanced(u, T \ {n}, H)
      /\ t.color[n] = BST_BLACK => DeleteOK(u, T \ {n}, H, r)
  BY <1>5, RemoveSound
<1>9. OnlyLastNode(u.failed) /\ u.parent[n] = p /\ \A d \in Side : u.child[n][d] = t.child[n][d]
  BY <1>3, <1>4, <1>5 DEF Transplanted
<1>10. r # nil => U[r] = {r}
  BY LoneChild
<1>11. ASSUME NEW q \in Side, Outermost(q, n, T, val) PROVE Follows(u, n, q, T \ {n}, val)
  <2>2. t.child[n][q] = nil
    BY <1>11, OutermostBare
  <2>3. T \ {n} # {} => Outermost(q, IF t.child[n][Opposite(q)] # nil THEN t.child[n][Opposite(q)] ELSE p,
                                  T \ {n}, val)
    BY <1>10, <1>11, NextOutermost
  <2>4. Opposite(q) \in Side
    BY Sides
  <2> QED
    BY <2>2, <2>3, <2>4, <1>9 DEF Follows
<1>12. t.color[n] \in {BST_RED, BST_BLACK}
  BY <1>4, ReadType, Sides
<1>13. Unlinked(u, W, H, T, n, val, t.color[n], r)
  BY <1>4, <1>7, <1>8, <1>9, <1>11, <1>12 DEF Unlinked
<1> QED
  BY <1>13 DEF u

\* The state after bst_delete has unlinked a node.
LEMMA UnlinkedSound ==
    ASSUME NEW U, NEW H, NEW O, Sound(U, H, O), IndInv, NEW n \in U[tree.root],
           CacheHolds(cache, U[tree.root], value),
           NEW c, NEW W, NEW K, Unlinked(tree', W, K, U[tree.root], n, value, c, x'), pc' = AfterDelete(c),
           op'.node = n, loc' = NoLoc, UNCHANGED <<value, cache, list, free>>
    PROVE  \E P : Sound(W, K, P)'
<1>1. ASSUME NEW q \in Side, n = cache[Extreme(q)] PROVE Follows(tree', n, q, U[tree.root] \ {n}, value)
  <2>1. Outermost(q, n, U[tree.root], value)
    BY <1>1 DEF CacheHolds
  <2> QED
    BY <2>1 DEF Unlinked
<1> QED
  BY <1>1, UnlinkSound DEF Unlinked

\* bst_delete of a node with at most one child.
LEMMA OneChildSound ==
    ASSUME NEW U, NEW H, NEW O, Sound(U, H, O), IndInv, NEW n \in U[tree.root],
           CacheHolds(cache, U[tree.root], value), Balanced(tree, U[tree.root], H),
           NEW s \in Side, NEW r, tree.child[n][s] = nil, r = tree.child[n][Opposite(s)],
           tree' = bst_transplant(tree, n, r), x' = r, pc' = AfterDelete(tree.color[n]),
           op'.node = n, loc' = NoLoc, UNCHANGED <<value, cache, list, free>>
    PROVE  \E W, K, P : Sound(W, K, P)' /\ W[tree'.root] = U[tree.root] \ {n}
<1> DEFINE p == tree.parent[n]
           e == IF tree.child[p]["left"] = n THEN "left" ELSE "right"
<1>1. tree \in Tree /\ Shape(tree, U) /\ Ordered(tree, U, value) /\ tree.color[nil] = BST_BLACK /\ OnlyLastNode(tree.failed)
  BY SoundTree
<1>2. RemoveNodes(tree, U, n, s, r, p, e)
  BY Sides DEF RemoveNodes
<1> HIDE DEF p, e
<1>3. PICK W, K : Unlinked(bst_transplant(tree, n, r), W, K, U[tree.root], n, value, tree.color[n], r)
  BY <1>1, <1>2, RemoveUnlinks
<1>4. Unlinked(tree', W, K, U[tree.root], n, value, tree.color[n], x')
  BY <1>3
<1>5. \E P : Sound(W, K, P)'
  BY <1>4, UnlinkedSound
<1>6. W[tree'.root] = U[tree.root] \ {n}
  BY <1>4 DEF Unlinked
<1> QED
  BY <1>5, <1>6

\* bst_delete of a node with two children looks for its successor.
LEMMA TwoChildrenSound ==
    ASSUME NEW U, NEW H, NEW O, Sound(U, H, O), IndInv, NEW n \in U[tree.root],
           CacheHolds(cache, U[tree.root], value), Balanced(tree, U[tree.root], H),
           tree.child[n]["left"] # nil, tree.child[n]["right"] # nil, list[n] = NULL,
           x' = tree.child[n]["right"], pc' = "successor",
           op'.node = n, loc' = NoLoc, UNCHANGED <<tree, value, cache, list, free>>
    PROVE  Sound(U, H, O)'
<1> DEFINE r == tree.child[n]["right"]
<1>1. tree \in Tree /\ Shape(tree, U) /\ Ordered(tree, U, value) /\ tree.color[nil] = BST_BLACK /\ OnlyLastNode(tree.failed)
      /\ ChainsOf(U[tree.root], O, value, list, free)
  BY SoundTree
<1>2. r \in U[tree.root] /\ r \in U[r]
  BY <1>1, Sides, ShapeChild, ShapeNode
<1>3. SuccessorOK(U[tree.root], U)'
  BY <1>2 DEF SuccessorOK
<1>4. {loc.node, loc.parent, x}' \subseteq U[tree.root] \cup {nil}
  BY <1>2 DEF NoLoc
<1>5. Chains(U[tree.root], O)' /\ CacheOK(U[tree.root])'
  BY <1>1 DEF Chains, CacheOK
<1>6. \A q \in Side : pc' # Extreme(q)
  BY DEF Extreme
<1> QED
  BY <1>1, <1>3, <1>4, <1>5, <1>6 DEF Sound

\* A chained value is taken before the node it is chained behind.
LEMMA DetachedSound ==
    ASSUME NEW U, NEW H, NEW O, Sound(U, H, O), IndInv, NEW b \in U[tree.root],
           CacheHolds(cache, U[tree.root], value), Balanced(tree, U[tree.root], H),
           NEW n, n = list[b], n # NULL,
           jfs_fl_free(tree, [list EXCEPT ![b] = list[n]], n),
           NEW err, NEW out, Return(err, out), UNCHANGED <<value, cache>>
    PROVE  \E P : Sound(U, H, P)'
<1> DEFINE T == U[tree.root]
           l == [list EXCEPT ![b] = list[n]]
<1>1. ChainsOf(T, O, value, list, free) /\ T \in SUBSET Nodes /\ list \in Lists /\ free \in Seq(Nodes)
  BY SoundTree
<1>2. n \in Nodes \ T /\ (\A j \in DOMAIN free : free[j] # n)
  <2>1. O[b] = b /\ b \in Nodes /\ b # nil /\ Chained1(T, O, value, list, b)
    BY <1>1, NodesAssumption DEF ChainsOf
  <2>2. O[n] = b
    BY <2>1 DEF Chained1
  <2>3. \A j \in DOMAIN free : O[free[j]] = nil
    BY <1>1 DEF ChainsOf, Freed1
  <2>4. \A j \in DOMAIN free : free[j] # n
    BY <2>1, <2>2, <2>3
  <2>5. n \in Nodes \ T
    BY <1>1, ChainDetach
  <2> QED
    BY <2>4, <2>5
<1>3. PICK P : P[n] = nil /\ ChainsOf(T, P, value, l, free)
  BY <1>1, ChainDetach
<1>4. l \in Lists
  BY <1>1, <1>2 DEF Lists
<1> HIDE DEF l
<1>5. jfs_fl_free(tree, l, n)
  BY DEF l
<1>6. Sound(U, H, P)'
  BY <1>2, <1>3, <1>4, <1>5, TreeItself, FreeSound
<1> QED
  BY <1>6

\* A freed node does not become the root.
LEMMA LeafRoot ==
    ASSUME NEW t \in Tree, NEW n, NEW p
    PROVE  Leaf(t, n, p).root = t.root
  BY DEF Leaf, bst_set_color, bst_set_parent, set_child, Tree

\* bst_detach_and_delete.
LEMMA DetachDeleteSound ==
    ASSUME NEW U, NEW H, NEW O, Sound(U, H, O), IndInv, NEW n \in U[tree.root], pc \in {"idle", "find"},
           NEW fn, NEW key, bst_detach_and_delete(fn, key, n)
    PROVE  \E W, K, P : /\ Sound(W, K, P)'
                        /\ W[tree'.root] = IF list[n] = NULL /\ pc' # "successor"
                                           THEN U[tree.root] \ {n} ELSE U[tree.root]
<1>1. /\ tree \in Tree /\ Shape(tree, U) /\ ChainsOf(U[tree.root], O, value, list, free)
      /\ U[tree.root] \in SUBSET Nodes /\ list \in Lists /\ free \in Seq(Nodes) /\ nil \notin U[tree.root]
  BY SoundTree
<1>2. tree.root # nil /\ n \in Nodes
  BY <1>1, ShapeNode
<1>3. assert(tree, "delete from empty", tree.root # nil) = tree
  BY <1>2 DEF assert
<1>4. CacheHolds(cache, U[tree.root], value) /\ Balanced(tree, U[tree.root], H)
  BY DEF Sound, CacheOK
<1>5. CASE list[n] # NULL
  <2>1. list[n] \in Nodes \ U[tree.root]
    BY <1>1, <1>5, ChainDetach
  <2>2. /\ jfs_fl_free(tree, [list EXCEPT ![n] = list[list[n]]], list[n])
        /\ Return("OK", value[list[n]]) /\ UNCHANGED <<value, cache>>
    BY <1>3, <1>5, <2>1, Zenon DEF bst_detach_and_delete, detach
  <2>3. \E P : Sound(U, H, P)'
    BY <1>4, <1>5, <2>2, DetachedSound
  <2>4. tree'.root = tree.root
    BY <1>1, <1>2, <2>2, LeafRoot DEF jfs_fl_free
  <2> QED
    BY <1>5, <2>3, <2>4
<1>6. CASE list[n] = NULL
  <2>1. /\ bst_delete(n, tree) /\ op' = [fn |-> fn, key |-> key, node |-> n] /\ loc' = NoLoc
        /\ UNCHANGED <<value, cache, list, free>>
    BY <1>3, <1>6, Zenon DEF bst_detach_and_delete, detach
  <2>2. op'.node = n
    BY <2>1
  <2>3. CASE tree.child[n]["left"] = nil
    <3>1. LET r == tree.child[n][Opposite("left")]
          IN  tree' = bst_transplant(tree, n, r) /\ x' = r /\ pc' = AfterDelete(tree.color[n])
      BY <2>1, <2>3 DEF bst_delete, Opposite
    <3>2. \E W, K, P : Sound(W, K, P)' /\ W[tree'.root] = U[tree.root] \ {n}
      BY <3>1, <2>1, <2>2, <2>3, <1>4, Sides, OneChildSound
    <3> QED
      BY <1>6, <3>1, <3>2 DEF AfterDelete
  <2>4. CASE tree.child[n]["left"] # nil /\ tree.child[n]["right"] = nil
    <3>1. LET r == tree.child[n][Opposite("right")]
          IN  tree' = bst_transplant(tree, n, r) /\ x' = r /\ pc' = AfterDelete(tree.color[n])
      BY <2>1, <2>4 DEF bst_delete, Opposite
    <3>2. \E W, K, P : Sound(W, K, P)' /\ W[tree'.root] = U[tree.root] \ {n}
      BY <3>1, <2>1, <2>2, <2>4, <1>4, Sides, OneChildSound
    <3> QED
      BY <1>6, <3>1, <3>2 DEF AfterDelete
  <2>5. CASE tree.child[n]["left"] # nil /\ tree.child[n]["right"] # nil
    <3>1. tree' = tree /\ x' = tree.child[n]["right"] /\ pc' = "successor"
      BY <2>1, <2>5 DEF bst_delete
    <3>2. Sound(U, H, O)'
      BY <3>1, <2>1, <2>2, <2>5, <1>4, <1>6, TwoChildrenSound
    <3> QED
      BY <3>1, <3>2
  <2> QED
    BY <2>3, <2>4, <2>5
<1> QED
  BY <1>5, <1>6

\* jfs_bst_takes of a key that is there.
LEMMA TakesFoundSound ==
    ASSUME NEW U, NEW H, NEW O, Sound(U, H, O), IndInv, takes_found
    PROVE  \E W, K, P : /\ Sound(W, K, P)'
                        /\ W[tree'.root] = IF list[loc.node] = NULL /\ pc' # "successor"
                                           THEN U[tree.root] \ {loc.node} ELSE U[tree.root]
<1>1. pc = "find" /\ loc.node # nil /\ bst_detach_and_delete("takes", op.key, loc.node)
  BY DEF takes_found, Found
<1>2. loc.node \in U[tree.root]
  BY <1>1, SoundTree
<1> QED
  BY <1>1, <1>2, DetachDeleteSound

\* jfs_bst_get_smallest and jfs_bst_get_largest.
LEMMA GetSound ==
    ASSUME NEW U, NEW H, NEW O, Sound(U, H, O), IndInv, NEW s \in Side, jfs_bst_get(s)
    PROVE  \E W, K, P : /\ Sound(W, K, P)'
                        /\ cache[Extreme(s)] = nil => W[tree'.root] = U[tree.root]
                        /\ cache[Extreme(s)] # nil =>
                               W[tree'.root] = IF list[cache[Extreme(s)]] = NULL /\ pc' # "successor"
                                               THEN U[tree.root] \ {cache[Extreme(s)]} ELSE U[tree.root]
<1>1. pc = "idle"
  BY DEF jfs_bst_get
<1>2. CASE cache[Extreme(s)] = nil
  <2>1. Return("EMPTY", NULL) /\ UNCHANGED <<tree, value, list, cache, free>>
    BY <1>2 DEF jfs_bst_get
  <2>2. Sound(U, H, O)'
    BY <1>1, <2>1, ReturnSound
  <2> QED
    BY <1>2, <2>1, <2>2
<1>3. CASE cache[Extreme(s)] # nil
  <2>1. bst_detach_and_delete("get", NULL, cache[Extreme(s)])
    BY <1>3 DEF jfs_bst_get
  <2>2. CacheHolds(cache, U[tree.root], value)
    BY <1>1 DEF Sound, CacheOK
  <2>3. cache[Extreme(s)] \in U[tree.root]
    BY <2>2, <1>3 DEF CacheHolds, Outermost
  <2> QED
    BY <1>1, <1>3, <2>1, <2>3, DetachDeleteSound
<1> QED
  BY <1>2, <1>3

\* jfs_bst_takes of a key that is not there.
LEMMA BadKeySound ==
    ASSUME NEW U, NEW H, NEW O, Sound(U, H, O), IndInv, takes_bad_key
    PROVE  Sound(U, H, O)'
<1>1. pc = "find" /\ Return("BAD_KEY", NULL) /\ UNCHANGED <<tree, value, list, cache, free>>
  BY DEF takes_bad_key, NotFound
<1> QED
  BY <1>1, ReturnSound

-----------------------------------------------------------------------------
(* The successor takes the place of a node with two children *)

\* One step to the left stays left of all that has been passed.
LEMMA SuccessorStep ==
    ASSUME NEW t \in Tree, NEW U, Shape(t, U), NEW val, Ordered(t, U, val),
           NEW r \in U[t.root], NEW z \in U[r], \A m \in U[r] \ U[z] : val[z] < val[m],
           NEW c, c = t.child[z]["left"], c # nil
    PROVE  /\ c \in U[r] /\ c # r /\ t.parent[c] = z
           /\ \A m \in U[r] \ U[c] : val[c] < val[m]
<1>1. z \in U[t.root]
  BY ShapeNode
<1>2. /\ c \in U[t.root] /\ t.parent[c] = z /\ c \in U[z] /\ c # z /\ z \notin U[c] /\ U[c] \subseteq U[z]
  BY <1>1, Sides, ShapeChild
<1>3. U[z] \subseteq U[r]
  BY ShapeClosed
<1>4. c # r
  BY <1>2
<1>5. c \in U[c] /\ Opposite("left") = "right"
  BY <1>2, ShapeNode DEF Opposite
<1>6. val[c] \in Keys /\ val[z] \in Keys /\ val[c] < val[z]
  BY <1>1, <1>2, <1>5, Sides DEF Ordered, Beyond
<1>7. ASSUME NEW m \in U[r] \ U[c] PROVE val[c] < val[m]
  <2>1. m \in U[t.root] /\ val[m] \in Keys
    BY ShapeNode DEF Ordered
  <2>2. CASE m \notin U[z]
    BY <2>1, <2>2, <1>6, KeysAssumption
  <2>3. CASE m = z
    BY <2>3, <1>6
  <2>4. CASE m \in U[t.child[z]["right"]]
    <3>1. val[z] < val[m]
      BY <2>4, <1>1, Sides DEF Ordered, Beyond
    <3>2. val[c] \in Int /\ val[z] \in Int /\ val[m] \in Int
      BY <2>1, <1>6, KeysAssumption
    <3> QED
      BY <3>1, <3>2, <1>6
  <2>5. U[z] = {z} \cup U[c] \cup U[t.child[z]["right"]]
    BY <1>1, <1>5, Sides, ShapeSplit
  <2> QED
    BY <2>2, <2>3, <2>4, <2>5
<1> QED
  BY <1>2, <1>3, <1>4, <1>7

\* The walk to the successor.
LEMMA MinimumStepSound ==
    ASSUME NEW U, NEW H, NEW O, Sound(U, H, O), IndInv, bst_delete_minimum_step
    PROVE  Sound(U, H, O)'
<1> DEFINE r == tree.child[op.node]["right"]
           c == tree.child[x]["left"]
<1>1. pc = "successor" /\ c # nil /\ x' = c /\ UNCHANGED <<tree, value, list, cache, free, pc, op, loc, ret>>
  BY DEF bst_delete_minimum_step
<1>2. tree \in Tree /\ Shape(tree, U) /\ Ordered(tree, U, value)
  BY SoundTree
<1>3. SuccessorOK(U[tree.root], U)
  BY <1>1 DEF Sound
<1>4. op.node \in U[tree.root] /\ x \in U[r] /\ (\A m \in U[r] \ U[x] : value[x] < value[m])
      /\ list[op.node] = NULL /\ loc = NoLoc /\ tree.child[op.node]["left"] # nil
  BY <1>3 DEF SuccessorOK
<1>5. r # nil
  BY <1>2, <1>4 DEF Shape
<1>6. r \in U[tree.root]
  BY <1>2, <1>4, <1>5, Sides, ShapeChild
<1>7. /\ c \in U[r] /\ c # r /\ tree.parent[c] = x
      /\ \A m \in U[r] \ U[c] : value[c] < value[m]
  BY <1>1, <1>2, <1>4, <1>6, SuccessorStep
<1>8. SuccessorOK(U[tree.root], U)'
  BY <1>1, <1>4, <1>7 DEF SuccessorOK
<1>9. c \in U[tree.root]
  BY <1>2, <1>6, <1>7, ShapeNode
<1>10. {loc.node, loc.parent, x}' \subseteq U[tree.root] \cup {nil}
  BY <1>1, <1>4, <1>9 DEF NoLoc
<1>11. Chains(U[tree.root], O)' /\ CacheOK(U[tree.root])'
  BY <1>1 DEF Sound, Chains, CacheOK
<1>12. \A q \in Side : pc' # Extreme(q)
  BY <1>1 DEF Extreme
<1>13. Balanced(tree', U[tree'.root], H)
  BY <1>1 DEF Sound
<1>14. OnlyLastNode(tree'.failed) /\ tree'.color[nil] = BST_BLACK /\ Shape(tree', U) /\ Ordered(tree', U, value') /\ pc' = "successor"
       /\ tree'.root = tree.root
  BY <1>1, <1>2, SoundTree
<1> QED
  BY <1>8, <1>10, <1>11, <1>12, <1>13, <1>14 DEF Sound

\* The splice unlinks n.
LEMMA SpliceUnlinks ==
    ASSUME NEW t \in Tree, NEW U, Shape(t, U), NEW H, Balanced(t, U[t.root], H), t.color[nil] = BST_BLACK,
           OnlyLastNode(t.failed), NEW val, Ordered(t, U, val),
           NEW n, NEW z, NEW r, NEW p, NEW l, NEW y, NEW q, NEW f,
           SpliceNodes(t, U, n, z, r, p, l, y, q, f),
           \A m \in U[y] \ U[z] : Beyond("right", val[m], val[z])
    PROVE  \E W, K : Unlinked(SpliceTree(t, n, z), W, K, U[t.root], n, val, t.color[z], r)
<1> DEFINE u == SpliceTree(t, n, z)
           T == U[t.root]
<1>1. Spliced(u, t, n, z, r, p, l, y, q, f)
  BY SpliceFields
<1> HIDE DEF u
<1>2. PICK W, K :
         /\ Shape(u, W) /\ W[u.root] = T \ {n} /\ Ordered(u, W, val)
         /\ u.color[nil] = BST_BLACK
         /\ t.color[z] = BST_RED => Balanced(u, T \ {n}, K)
         /\ t.color[z] = BST_BLACK => DeleteOK(u, T \ {n}, K, r)
  BY <1>1, SpliceSound
<1>3. OnlyLastNode(u.failed)
  BY <1>1 DEF Spliced
<1>4. z \in Node /\ r # n /\ (r # nil => r \in T) /\ l # nil /\ y # nil /\ n \in T
  BY SpliceApart
<1>5. t.color[z] \in {BST_RED, BST_BLACK}
  BY <1>4, ReadType, Sides
<1>6. l = t.child[n]["left"] /\ y = t.child[n]["right"]
  BY DEF SpliceNodes
<1>7. \A d \in Side : ~Outermost(d, n, T, val)
  BY <1>4, <1>6, OutermostBare DEF Side
<1>8. Unlinked(u, W, K, T, n, val, t.color[z], r)
  BY <1>2, <1>3, <1>4, <1>5, <1>7 DEF Unlinked
<1> QED
  BY <1>8 DEF u

\* bst_delete of a node with two children, once its successor is found.
LEMMA DeleteSpliceSound ==
    ASSUME NEW U, NEW H, NEW O, Sound(U, H, O), IndInv, bst_delete_splice
    PROVE  \E W, K, P : Sound(W, K, P)' /\ W[tree'.root] = U[tree.root] \ {op.node}
<1> DEFINE n == op.node
           r == tree.child[x]["right"]
           p == tree.parent[x]
           l == tree.child[n]["left"]
           y == tree.child[n]["right"]
           q == tree.parent[n]
           f == IF tree.child[q]["left"] = n THEN "left" ELSE "right"
<1>1. /\ pc = "successor" /\ tree.child[x]["left"] = nil /\ x' = r /\ pc' = AfterDelete(tree.color[x])
      /\ UNCHANGED <<value, list, cache, free, op, loc>>
  BY Zenon DEF bst_delete_splice
<1>2. tree' = SpliceTree(tree, n, x)
  BY Zenon DEF bst_delete_splice, SpliceTree
<1>3. SuccessorOK(U[tree.root], U)
  BY <1>1 DEF Sound
<1>4. /\ n \in U[tree.root] /\ loc = NoLoc /\ l # nil /\ x \in U[y]
      /\ x # y => p \in U[y] /\ x = tree.child[p]["left"]
      /\ \A m \in U[y] \ U[x] : value[x] < value[m]
  BY <1>3 DEF SuccessorOK
<1>5. SpliceNodes(tree, U, n, x, r, p, l, y, q, f)
  BY <1>1, <1>4, Sides DEF SpliceNodes
<1>6. \A m \in U[y] \ U[x] : Beyond("right", value[m], value[x])
  BY <1>4 DEF Beyond
<1>7. tree \in Tree /\ Shape(tree, U) /\ Ordered(tree, U, value) /\ tree.color[nil] = BST_BLACK /\ OnlyLastNode(tree.failed)
  BY SoundTree
<1>8. Balanced(tree, U[tree.root], H) /\ CacheHolds(cache, U[tree.root], value)
  BY <1>1 DEF Sound, CacheOK
<1> HIDE DEF n, r, p, l, y, q, f
<1>9. PICK W, K : Unlinked(SpliceTree(tree, n, x), W, K, U[tree.root], n, value, tree.color[x], r)
  BY <1>5, <1>6, <1>7, <1>8, SpliceUnlinks
<1>10. Unlinked(tree', W, K, U[tree.root], n, value, tree.color[x], x')
  BY <1>1, <1>2, <1>9
<1>11. op'.node = n /\ loc' = NoLoc
  BY <1>1, <1>4 DEF n
<1>12. \E P : Sound(W, K, P)'
  BY <1>1, <1>4, <1>8, <1>10, <1>11, UnlinkedSound
<1>13. W[tree'.root] = U[tree.root] \ {op.node}
  BY <1>10 DEF Unlinked, n
<1> QED
  BY <1>12, <1>13

-----------------------------------------------------------------------------
(* bst_fixup_delete *)

\* u is t with other links and colours between the nodes of T.
Fixed(u, W, t, T, val) ==
    /\ u \in Tree /\ Shape(u, W) /\ W[u.root] = T /\ Ordered(u, W, val)
    /\ OnlyLastNode(u.failed) /\ u.color[nil] = BST_BLACK /\ OutsideKept(u, t, T)

\* OutsideKept is transitive.
LEMMA OutsideTrans ==
    ASSUME NEW t, NEW u, NEW v, NEW T, OutsideKept(u, t, T), OutsideKept(v, u, T)
    PROVE  OutsideKept(v, t, T)
  BY DEF OutsideKept

\* The links of the removed node stay as they were when it was unlinked.
LEMMA FollowsKept ==
    ASSUME NEW t, NEW u, NEW T, OutsideKept(u, t, T), NEW n \in Nodes \ T, NEW s \in Side, NEW val,
           Follows(t, n, s, T, val)
    PROVE  Follows(u, n, s, T, val)
<1>1. u.parent[n] = t.parent[n] /\ u.child[n][s] = t.child[n][s]
      /\ u.child[n][Opposite(s)] = t.child[n][Opposite(s)]
  BY Sides DEF OutsideKept
<1> QED
  BY <1>1 DEF Follows

\* A step of the fixup, or its end.
LEMMA FixupSound ==
    ASSUME NEW U, NEW H, NEW O, Sound(U, H, O), IndInv, pc = "fixup_delete",
           NEW W, NEW K, Fixed(tree', W, tree, U[tree.root], value),
           x' \in U[tree.root] \cup {nil}, pc' \in {"fixup_delete", "update_cache"},
           pc' = "fixup_delete" => DeleteOK(tree', U[tree.root], K, x'),
           pc' = "update_cache" => Balanced(tree', U[tree.root], K),
           UNCHANGED <<value, list, cache, free, op, loc>>
    PROVE  Sound(W, K, O)'
<1> DEFINE T == U[tree.root]
<1>1. /\ Shape(tree', W) /\ W[tree'.root] = T /\ Ordered(tree', W, value) /\ OnlyLastNode(tree'.failed)
      /\ tree'.color[nil] = BST_BLACK /\ OutsideKept(tree', tree, T)
  BY DEF Fixed
<1>2. CacheStale(T, O)
  BY DEF Sound
<1>3. CacheStale(W[tree.root], O)'
  <2>1. op'.node \in Nodes \ T /\ O[op'.node] = nil /\ op'.node \notin OnFreeList' /\ value'[op'.node] \in Keys
    BY <1>2 DEF CacheStale, OnFreeList
  <2>2. \A q \in Side : /\ Outermost(q, cache'[Extreme(q)], T \cup {op'.node}, value')
                        /\ op'.node = cache'[Extreme(q)] => Follows(tree', op'.node, q, T, value')
    BY <1>1, <1>2, <2>1, FollowsKept DEF CacheStale
  <2> QED
    BY <2>1, <2>2, <1>1 DEF CacheStale
<1>4. {loc.node, loc.parent, x}' \subseteq W[tree'.root] \cup {nil}
  BY <1>1, SoundTree
<1>5. Chains(W[tree.root], O)'
  BY <1>1, SoundTree DEF Chains
<1>6. \A q \in Side : pc' # Extreme(q)
  BY DEF Extreme
<1>7. /\ pc' = "update_cache" => Balanced(tree', W[tree'.root], K)
      /\ pc' = "fixup_delete" => DeleteOK(tree', W[tree'.root], K, x')
  BY <1>1
<1> QED
  BY <1>1, <1>3, <1>4, <1>5, <1>6, <1>7 DEF Sound

\* Within the loop, a black node is missing above x.
LEMMA DeleteLoopNodes ==
    ASSUME NEW U, NEW H, NEW O, Sound(U, H, O), IndInv, DeleteLoop
    PROVE  /\ Missing(tree, U, H, x, Parent, NodeSide) /\ BlackSibling = SiblingTree(tree, Parent, NodeSide)
           /\ pc = "fixup_delete" /\ Parent \in U[tree.root] /\ NodeSide \in Side
<1>1. pc = "fixup_delete" /\ x # tree.root /\ tree.color[x] = BST_BLACK
  BY DEF DeleteLoop
<1>2. DeleteOK(tree, U[tree.root], H, x)
  BY <1>1 DEF Sound
<1>3. PICK s \in Side : tree.child[tree.parent[x]][s] = x /\ Heights(tree, U[tree.root], H, tree.parent[x], s)
  BY <1>1, <1>2 DEF DeleteOK
<1>4. RedApart(tree, U[tree.root], x, x) /\ tree.color[tree.root] = BST_BLACK /\ tree.parent[x] \in U[tree.root]
  BY <1>1, <1>2 DEF DeleteOK
<1>5. tree \in Tree /\ Shape(tree, U) /\ tree.color[nil] = BST_BLACK
  BY SoundTree
<1>6. Missing(tree, U, H, x, tree.parent[x], s)
  BY <1>1, <1>3, <1>4, <1>5 DEF Missing
<1>7. s = IF x = tree.child[tree.parent[x]]["left"] THEN "left" ELSE "right"
  BY <1>5, <1>6, MissingNodes
<1>8. s = NodeSide
  BY <1>7 DEF NodeSide, Parent
<1>9. BlackSibling = SiblingTree(tree, Parent, NodeSide)
  BY DEF BlackSibling, SiblingTree
<1> QED
  BY <1>1, <1>4, <1>6, <1>8, <1>9 DEF Parent

\* A step of the loop that ends in the parent.
LEMMA DeleteRecolorSound ==
    ASSUME NEW U, NEW H, NEW O, Sound(U, H, O), IndInv, bst_fixup_delete_recolor
    PROVE  \E W, K : Sound(W, K, O)'
<1> DEFINE T == U[tree.root]
           t1 == SiblingTree(tree, Parent, NodeSide)
           w == t1.child[Parent][Opposite(NodeSide)]
<1>1. DeleteLoop /\ x' = Parent /\ UNCHANGED <<value, list, cache, free, pc, op, loc, ret>>
  BY DEF bst_fixup_delete_recolor
<1>2. /\ Missing(tree, U, H, x, Parent, NodeSide) /\ BlackSibling = t1
      /\ pc = "fixup_delete" /\ Parent \in T
  BY <1>1, DeleteLoopNodes
<1>3. (\A s \in Side : t1.color[t1.child[w][s]] = BST_BLACK) /\ tree' = bst_set_color(t1, w, BST_RED)
  BY <1>2 DEF bst_fixup_delete_recolor
<1>4. tree \in Tree /\ Shape(tree, U) /\ Ordered(tree, U, value) /\ OnlyLastNode(tree.failed)
  BY SoundTree
<1>5. OnlyLastNode(t1.failed) /\ OutsideKept(t1, tree, T)
  BY <1>2, <1>4, SiblingSound
<1>6. PICK W, H2 : GapTree(t1, W, T, value, H2, x, Parent, NodeSide)
  BY <1>2, <1>4, SiblingSound
<1> HIDE DEF t1
<1>7. /\ tree' \in Tree /\ Shape(tree', W) /\ W[tree'.root] = T /\ Ordered(tree', W, value)
      /\ tree'.color[nil] = BST_BLACK /\ tree'.failed = t1.failed
      /\ OutsideKept(tree', t1, T)
      /\ \E K : DeleteOK(tree', T, K, Parent)
  BY <1>3, <1>6, PaleSound
<1>8. PICK K : DeleteOK(tree', T, K, Parent)
  BY <1>7
<1>9. Fixed(tree', W, tree, T, value)
  BY <1>5, <1>7, OutsideTrans DEF Fixed
<1>10. Sound(W, K, O)'
  BY <1>1, <1>2, <1>8, <1>9, FixupSound
<1> QED
  BY <1>10

\* A child of the sibling is red.
RedNephew(t, p, s) == \E d \in Side : t.color[t.child[t.child[p][Opposite(s)]][d]] # BST_BLACK

\* The far child of the sibling is the red one in u, which differs from t below p only.
NearDone(u, t, T, val, z, p, s) ==
    /\ \E W, H2 : GapTree(u, W, T, val, H2, z, p, s)
    /\ u.failed = t.failed /\ OutsideKept(u, t, T)
    /\ RedFar(u, p, s)

\* NearSound, by these names.
LEMMA NearWhole ==
    ASSUME NEW t, NEW U, NEW T, NEW val, NEW H, NEW z, NEW p, NEW s, GapTree(t, U, T, val, H, z, p, s),
           RedNephew(t, p, s)
    PROVE  NearDone(NearTree(t, p, s), t, T, val, z, p, s)
  BY NearSound DEF RedNephew, NearDone

\* The step of the loop that ends it.
LEMMA DeleteRotateSound ==
    ASSUME NEW U, NEW H, NEW O, Sound(U, H, O), IndInv, bst_fixup_delete_rotate
    PROVE  \E W, K : Sound(W, K, O)'
<1> DEFINE T == U[tree.root]
           p == Parent
           s == NodeSide
           t1 == SiblingTree(tree, p, s)
           t2 == NearTree(t1, p, s)
           t3 == FarTree(t2, p, s)
<1>1. DeleteLoop /\ x' = tree'.root /\ UNCHANGED <<value, list, cache, free, pc, op, loc, ret>>
  BY Zenon DEF bst_fixup_delete_rotate
<1>2. /\ Missing(tree, U, H, x, p, s) /\ BlackSibling = t1
      /\ pc = "fixup_delete" /\ p \in T
  BY <1>1, DeleteLoopNodes
<1>3. (\E d \in Side : t1.color[t1.child[t1.child[p][Opposite(s)]][d]] # BST_BLACK) /\ tree' = t3
  BY <1>2, Zenon DEF bst_fixup_delete_rotate, NearTree, FarTree
<1>4. tree \in Tree /\ Shape(tree, U) /\ Ordered(tree, U, value) /\ OnlyLastNode(tree.failed)
  BY SoundTree
<1>5. OnlyLastNode(t1.failed) /\ OutsideKept(t1, tree, T)
  BY <1>2, <1>4, SiblingSound
<1>6. PICK W1, H1 : GapTree(t1, W1, T, value, H1, x, p, s)
  BY <1>2, <1>4, SiblingSound
<1> HIDE DEF t1, p, s
<1>7. /\ \E W2, H2 : GapTree(t2, W2, T, value, H2, x, p, s)
      /\ t2.failed = t1.failed /\ OutsideKept(t2, t1, T)
      /\ RedFar(t2, p, s)
  <2>1. RedNephew(t1, p, s)
    BY <1>3 DEF RedNephew
  <2>2. NearDone(t2, t1, T, value, x, p, s)
    BY ONLY <2>1, <1>6, NearWhole
  <2> HIDE DEF t2
  <2> QED
    BY ONLY <2>2 DEF NearDone
<1>8. PICK W2, H2 : GapTree(t2, W2, T, value, H2, x, p, s)
  BY <1>7
<1> HIDE DEF t2
<1>9. Settled(t3, t2, T, value) /\ OutsideKept(t3, t2, T)
  BY <1>7, <1>8, FarSound
<1> HIDE DEF t3
<1>10. PICK W, K : GoodTree(t3, W, T, value, K)
  BY <1>9 DEF Settled
<1>11. OnlyLastNode(t3.failed)
  BY <1>5, <1>7, <1>9 DEF Settled
<1>12. OutsideKept(t3, tree, T)
  BY <1>5, <1>7, <1>9, OutsideTrans
<1>13. /\ t3 \in Tree /\ Shape(t3, W) /\ W[t3.root] = T /\ Ordered(t3, W, value)
       /\ Balanced(t3, T, K) /\ t3.color[nil] = BST_BLACK
  BY <1>10 DEF GoodTree
<1>14. Fixed(tree', W, tree, T, value)
  BY <1>3, <1>11, <1>12, <1>13 DEF Fixed
<1>15. t3.root \in T
  BY <1>2, <1>13 DEF Shape
<1>16. DeleteOK(t3, T, K, t3.root)
  <2>1. RedApart(t3, T, t3.root, t3.root)
    BY <1>13, BalancedApart
  <2> QED
    BY <2>1, <1>13 DEF DeleteOK, Balanced
<1>17. Sound(W, K, O)'
  BY <1>1, <1>2, <1>3, <1>14, <1>15, <1>16, FixupSound
<1> QED
  BY <1>17

\* Painting x black fills the gap.
LEMMA PaintedBalance ==
    ASSUME NEW t \in Tree, NEW U, Shape(t, U), NEW H, NEW z \in Node, DeleteOK(t, U[t.root], H, z),
           t.color[nil] = BST_BLACK, z = t.root \/ t.color[z] = BST_RED,
           NEW u, ColorSet(u, t, z, BST_BLACK)
    PROVE  \E H2 : Balanced(u, U[t.root], H2) /\ u.color[nil] = BST_BLACK
<1>0. RedApart(t, U[t.root], z, z)
  BY DEF DeleteOK
<1>1. CASE z = t.root
  <2>1. Heights(t, U[t.root], H, nil, "left")
    BY <1>1 DEF DeleteOK
  <2> QED
    BY <1>0, <1>1, <2>1, PaintColors
<1>2. CASE z # t.root
  <2>1. t.parent[z] \in U[t.root] /\ t.color[t.root] = BST_BLACK /\ t.color[z] = BST_RED
    BY <1>2 DEF DeleteOK
  <2>2. PICK s \in Side : t.child[t.parent[z]][s] = z /\ Heights(t, U[t.root], H, t.parent[z], s)
    BY <1>2 DEF DeleteOK
  <2> QED
    BY <1>0, <1>2, <2>1, <2>2, PaintColors
<1> QED
  BY <1>1, <1>2

\* The end of bst_fixup_delete.
LEMMA DeleteDoneSound ==
    ASSUME NEW U, NEW H, NEW O, Sound(U, H, O), IndInv, bst_fixup_delete_done
    PROVE  \E K : Sound(U, K, O)'
<1> DEFINE T == U[tree.root]
<1>1. /\ pc = "fixup_delete" /\ (x = tree.root \/ tree.color[x] = BST_RED)
      /\ tree' = bst_set_color(tree, x, BST_BLACK) /\ pc' = "update_cache" /\ x' = x
      /\ UNCHANGED <<value, list, cache, free, op, loc>>
  BY DEF bst_fixup_delete_done
<1>2. /\ tree \in Tree /\ Shape(tree, U) /\ Ordered(tree, U, value) /\ OnlyLastNode(tree.failed) /\ x \in Node
      /\ tree.color[nil] = BST_BLACK /\ x \in T \cup {nil}
  BY SoundTree
<1>3. ColorSet(tree', tree, x, BST_BLACK)
  BY <1>1, <1>2, SetColorFields
<1>4. DeleteOK(tree, T, H, x)
  BY <1>1 DEF Sound
<1>5. PICK K : Balanced(tree', T, K) /\ tree'.color[nil] = BST_BLACK
  BY <1>1, <1>2, <1>3, <1>4, PaintedBalance
<1>6. tree' \in Tree /\ tree'.root = tree.root /\ tree'.child = tree.child /\ tree'.parent = tree.parent /\ OnlyLastNode(tree'.failed)
  BY <1>2, <1>3 DEF ColorSet
<1>7. Shape(tree', U) /\ Ordered(tree', U, value)
  BY <1>2, <1>6, SameLinks
<1>8. OutsideKept(tree', tree, T)
  BY <1>6 DEF OutsideKept
<1>9. Fixed(tree', U, tree, T, value)
  BY <1>5, <1>6, <1>7, <1>8 DEF Fixed
<1>10. Sound(U, K, O)'
  BY <1>1, <1>2, <1>5, <1>9, FixupSound
<1> QED
  BY <1>10

-----------------------------------------------------------------------------
(* bst_update_cache_delete *)

\* What the cache names, and what becomes of it without n.
LEMMA StaleExtremes ==
    ASSUME NEW U, NEW H, NEW O, Sound(U, H, O), IndInv, pc \in {"update_cache", "smallest", "largest"}
    PROVE  /\ op.node \in Nodes \ U[tree.root] /\ O[op.node] = nil /\ (\A j \in DOMAIN free : free[j] # op.node)
           /\ value[op.node] \in Keys
           /\ \A q \in Side :
                /\ Outermost(q, cache[Extreme(q)], U[tree.root] \cup {op.node}, value)
                /\ op.node = cache[Extreme(q)] => Follows(tree, op.node, q, U[tree.root], value)
                /\ op.node # cache[Extreme(q)] =>
                       U[tree.root] # {} /\ Outermost(q, cache[Extreme(q)], U[tree.root], value)
<1>1. CacheStale(U[tree.root], O)
  BY DEF Sound
<1>2. \A q \in Side : op.node # cache[Extreme(q)] =>
         U[tree.root] # {} /\ Outermost(q, cache[Extreme(q)], U[tree.root], value)
  BY <1>1 DEF CacheStale, Outermost
<1> QED
  BY <1>1, <1>2 DEF CacheStale, OnFreeList

\* The end of the call, where an assert may have failed.
LEMMA FreeLastSound ==
    ASSUME NEW U, NEW H, NEW O, Sound(U, H, O), IndInv, pc \in {"update_cache", "smallest", "largest"},
           NEW t \in Tree, SameTree(t, tree), OnlyLastNode(t.failed),
           FreeAndReturn(t), value' = value, CacheHolds(cache', U[tree.root], value)
    PROVE  Sound(U, H, O)'
<1>1. op.node \in Nodes \ U[tree.root] /\ O[op.node] = nil /\ (\A j \in DOMAIN free : free[j] # op.node)
  BY StaleExtremes
<1>2. Balanced(tree, U[tree.root], H)
  BY DEF Sound
<1>3. list \in Lists /\ ChainsOf(U[tree.root], O, value, list, free)
  BY SoundTree
<1>4. jfs_fl_free(t, list, op.node) /\ Return("OK", ret.out)
  BY DEF FreeAndReturn
<1> QED
  BY <1>1, <1>2, <1>3, <1>4, FreeSound

\* The end of the other calls.
LEMMA FreeRemovedSound ==
    ASSUME NEW U, NEW H, NEW O, Sound(U, H, O), IndInv, pc \in {"update_cache", "smallest", "largest"},
           FreeAndReturn(tree), value' = value, CacheHolds(cache', U[tree.root], value)
    PROVE  Sound(U, H, O)'
  BY TreeItself, FreeLastSound

\* The extreme node on side s is replaced by e.
LEMMA CacheMoves ==
    ASSUME NEW U, NEW H, NEW O, Sound(U, H, O), IndInv, pc \in {"update_cache", "smallest", "largest"},
           NEW s \in Side, op.node = cache[Extreme(s)], cache.smallest # cache.largest,
           NEW e, Outermost(s, e, U[tree.root], value), cache' = [cache EXCEPT ![Extreme(s)] = e]
    PROVE  CacheHolds(cache', U[tree.root], value)
<1>1. U[tree.root] # {}
  BY DEF Outermost
<1>2. cache \in Cache
  BY SoundTree
<1>3. ASSUME NEW q \in Side PROVE Outermost(q, cache'[Extreme(q)], U[tree.root], value)
  <2>1. CASE q = s
    <3>1. cache'[Extreme(s)] = e
      BY <1>2 DEF Cache, Extreme, Side
    <3> QED
      BY <2>1, <3>1
  <2>2. CASE q # s
    <3>1. cache'[Extreme(q)] = cache[Extreme(q)] /\ op.node # cache[Extreme(q)]
      BY <1>2, <2>2 DEF Cache, Extreme, Side
    <3>2. Outermost(q, cache[Extreme(q)], U[tree.root], value)
      BY <3>1, StaleExtremes
    <3> QED
      BY <3>1, <3>2
  <2> QED
    BY <2>1, <2>2
<1> QED
  BY <1>1, <1>3 DEF CacheHolds

\* The assert on the root, that may fail, leaves the links and the colours alone.
LEMMA LastAssert ==
    ASSUME NEW t \in Tree, OnlyLastNode(t.failed), NEW holds \in BOOLEAN
    PROVE  LET u == assert(t, "last node is root", holds)
           IN  u \in Tree /\ SameTree(u, t) /\ OnlyLastNode(u.failed)
  BY FailedType, Zenon DEF assert, Failed, Asserts, Tree, SameTree, OnlyLastNode

\* The last node has been removed.
LEMMA CacheLastSound ==
    ASSUME NEW U, NEW H, NEW O, Sound(U, H, O), IndInv, update_cache_last
    PROVE  Sound(U, H, O)'
<1> DEFINE T == U[tree.root]
           n == op.node
           e == cache.smallest
           t == assert(tree, "last node is root", n = tree.root)
<1>1. /\ pc = "update_cache" /\ cache.smallest = cache.largest /\ FreeAndReturn(t) /\ value' = value
      /\ cache' = [cache EXCEPT !.smallest = nil, !.largest = nil]
  BY Zenon DEF update_cache_last, OnlyOne
<1>2. t \in Tree /\ SameTree(t, tree) /\ OnlyLastNode(t.failed)
  BY SoundTree, LastAssert, Zenon
<1> HIDE DEF t
<1>3. n \in Nodes \ T /\ value[n] \in Keys
  BY <1>1, StaleExtremes
<1>4. \A m \in T : value[m] \in Keys
  BY SoundTree DEF Ordered
<1>5. \A q \in Side : Outermost(q, e, T \cup {n}, value)
  <2>1. \A q \in Side : cache[Extreme(q)] = e
    BY <1>1 DEF Extreme
  <2>2. \A q \in Side : Outermost(q, cache[Extreme(q)], T \cup {n}, value)
    BY <1>1, StaleExtremes
  <2> QED
    BY <2>1, <2>2
<1>6. T \cup {n} \subseteq {e}
  <2>1. SUFFICES ASSUME NEW m \in T \cup {n}, m # e PROVE FALSE
    OBVIOUS
  <2>2. Beyond("left", value[e], value[m]) /\ Beyond("right", value[e], value[m]) /\ e \in T \cup {n}
    BY <2>1, <1>5, Sides DEF Outermost
  <2>3. value[e] \in Int /\ value[m] \in Int
    BY <2>2, <1>3, <1>4, KeysAssumption
  <2> QED
    BY <2>2, <2>3 DEF Beyond
<1>7. T = {}
  BY <1>3, <1>6
<1>8. \A q \in Side : cache'[Extreme(q)] = nil
  <2>1. cache \in Cache
    BY SoundTree
  <2> QED
    BY <2>1, <1>1 DEF Cache, Extreme
<1>9. CacheHolds(cache', T, value)
  BY <1>7, <1>8 DEF CacheHolds
<1> QED
  BY <1>1, <1>9, <1>2, FreeLastSound

\* A node that was no extreme has been removed.
LEMMA CacheInnerSound ==
    ASSUME NEW U, NEW H, NEW O, Sound(U, H, O), IndInv, update_cache_inner
    PROVE  Sound(U, H, O)'
<1>1. /\ pc = "update_cache" /\ op.node # cache.smallest /\ op.node # cache.largest
      /\ FreeAndReturn(tree) /\ UNCHANGED <<value, cache>>
  BY DEF update_cache_inner
<1>2. \A q \in Side : op.node # cache[Extreme(q)]
  BY <1>1 DEF Extreme
<1>3. CacheHolds(cache', U[tree.root], value)
  <2>1. \A q \in Side : U[tree.root] # {} /\ Outermost(q, cache[Extreme(q)], U[tree.root], value)
    BY <1>1, <1>2, StaleExtremes
  <2> QED
    BY <1>1, <2>1, Sides DEF CacheHolds
<1> QED
  BY <1>1, <1>3, FreeRemovedSound

\* The node that comes next to the removed extreme node.
LEMMA RemovedNext ==
    ASSUME NEW U, NEW H, NEW O, Sound(U, H, O), IndInv, NEW s \in Side, RemovedExtreme(s)
    PROVE  /\ pc = "update_cache" /\ cache.smallest # cache.largest /\ op.node = cache[Extreme(s)]
           /\ assert(tree, "extreme has no outer child", tree.child[op.node][s] = nil) = tree
           /\ tree.child[op.node][Opposite(s)] # nil =>
                  Outermost(s, tree.child[op.node][Opposite(s)], U[tree.root], value)
           /\ tree.child[op.node][Opposite(s)] = nil =>
                  Outermost(s, tree.parent[op.node], U[tree.root], value)
<1>1. pc = "update_cache" /\ cache.smallest # cache.largest /\ op.node = cache[Extreme(s)]
  BY DEF RemovedExtreme, OnlyOne
<1>2. op.node # cache[Extreme(Opposite(s))] /\ Opposite(s) \in Side
  BY <1>1 DEF Extreme, Opposite, Side
<1>3. U[tree.root] # {}
  BY <1>1, <1>2, StaleExtremes
<1>4. Follows(tree, op.node, s, U[tree.root], value)
  BY <1>1, StaleExtremes
<1> QED
  BY <1>1, <1>3, <1>4 DEF Follows, assert

\* The parent of the removed extreme takes over.
LEMMA CacheParentSound ==
    ASSUME NEW U, NEW H, NEW O, Sound(U, H, O), IndInv, NEW s \in Side, update_cache_parent(s)
    PROVE  Sound(U, H, O)'
<1>1. RemovedExtreme(s) /\ tree.child[op.node][Opposite(s)] = nil /\ value' = value
      /\ cache' = [cache EXCEPT ![Extreme(s)] = tree.parent[op.node]]
      /\ FreeAndReturn(assert(tree, "extreme has no outer child", tree.child[op.node][s] = nil))
  BY Zenon DEF update_cache_parent
<1>2. /\ pc = "update_cache" /\ cache.smallest # cache.largest /\ op.node = cache[Extreme(s)]
      /\ assert(tree, "extreme has no outer child", tree.child[op.node][s] = nil) = tree
      /\ Outermost(s, tree.parent[op.node], U[tree.root], value)
  BY <1>1, RemovedNext, Zenon
<1>3. FreeAndReturn(tree)
  BY <1>1, <1>2, Zenon
<1>4. CacheHolds(cache', U[tree.root], value)
  BY <1>1, <1>2, CacheMoves, Zenon
<1> QED
  BY <1>1, <1>2, <1>3, <1>4, FreeRemovedSound, Zenon

\* The two extremes are different fields of the cache.
LEMMA ExtremeApart ==
    ASSUME NEW s \in Side, NEW q \in Side, Extreme(s) = Extreme(q)
    PROVE  q = s
  BY DEF Side, Extreme

\* The walk to the new extreme begins at the inner child.
LEMMA CacheDescendSound ==
    ASSUME NEW U, NEW H, NEW O, Sound(U, H, O), IndInv, NEW s \in Side, update_cache_descend(s)
    PROVE  Sound(U, H, O)'
<1> DEFINE T == U[tree.root]
<1>1. /\ RemovedExtreme(s) /\ tree.child[op.node][Opposite(s)] # nil
      /\ tree' = assert(tree, "extreme has no outer child", tree.child[op.node][s] = nil)
      /\ x' = tree.child[op.node][Opposite(s)] /\ pc' = Extreme(s)
      /\ UNCHANGED <<value, list, cache, free, op, loc, ret>>
  BY Zenon DEF update_cache_descend
<1>2. /\ pc = "update_cache" /\ cache.smallest # cache.largest /\ op.node = cache[Extreme(s)]
      /\ tree' = tree /\ Outermost(s, x', T, value)
  BY <1>1, RemovedNext, Zenon
<1>3. x' \in T
  BY <1>2 DEF Outermost
<1>4. CacheStale(T, O)
  BY <1>2 DEF Sound
<1>5. CacheStale(U[tree.root], O)'
  BY <1>1, <1>2, <1>4, Zenon DEF CacheStale, OnFreeList
<1>6. \A q \in Side : pc' = Extreme(q) => q = s
  BY <1>1, ExtremeApart, Zenon
<1>7. \A q \in Side : pc' = Extreme(q) =>
        /\ op'.node = cache'[Extreme(q)] /\ cache'.smallest # cache'.largest
        /\ Outermost(q, x', U[tree'.root], value')
  BY <1>1, <1>2, <1>6, Zenon
<1>8. pc' \in {"smallest", "largest"}
  BY <1>1, Zenon DEF Extreme
<1>9. {loc.node, loc.parent, x}' \subseteq U[tree'.root] \cup {nil}
  BY <1>1, <1>2, <1>3, SoundTree, Zenon
<1>10. Balanced(tree', U[tree'.root], H)
  BY <1>2 DEF Sound
<1>11. Chains(U[tree.root], O)'
  BY <1>1, <1>2, SoundTree, Zenon DEF Chains
<1>12. Shape(tree', U) /\ Ordered(tree', U, value') /\ OnlyLastNode(tree'.failed) /\ tree'.color[nil] = BST_BLACK
  BY <1>1, <1>2, SoundTree, Zenon
<1> QED
  BY <1>5, <1>7, <1>8, <1>9, <1>10, <1>11, <1>12 DEF Sound

\* It ends there: that child has no children.
LEMMA CacheWalkSound ==
    ASSUME NEW U, NEW H, NEW O, Sound(U, H, O), IndInv, NEW s \in Side, update_cache_walk(s)
    PROVE  Sound(U, H, O)'
<1>1. pc = Extreme(s) /\ value' = value
  BY DEF update_cache_walk
<1>2. /\ op.node = cache[Extreme(s)] /\ cache.smallest # cache.largest
      /\ Outermost(s, x, U[tree.root], value)
  BY <1>1 DEF Sound
<1>3. tree.child[x][s] = nil
  BY <1>2, SoundTree, OutermostBare
<1>4. cache' = [cache EXCEPT ![Extreme(s)] = x] /\ FreeAndReturn(tree)
  BY <1>3 DEF update_cache_walk
<1>5. pc \in {"smallest", "largest"}
  BY <1>1 DEF Extreme
<1>6. CacheHolds(cache', U[tree.root], value)
  BY <1>2, <1>4, <1>5, CacheMoves
<1> QED
  BY <1>1, <1>4, <1>5, <1>6, FreeRemovedSound

-----------------------------------------------------------------------------
(* The invariant *)

\* The inductive invariant.
SoundTreeInv == IndInv /\ \E U, H, O : Sound(U, H, O)

\* jfs_bst_init establishes it.
LEMMA InitSound == Init => SoundTreeInv
<1> SUFFICES ASSUME Init PROVE \E U, H, O : Sound(U, H, O)
  BY InitInv DEF SoundTreeInv
<1> DEFINE U == [n \in Node |-> {}]
           H == [n \in Node |-> 1]
           O == [n \in Nodes |-> nil]
<1>1. tree.root = nil /\ U[nil] = {} /\ nil \in Node /\ tree.color[nil] = BST_BLACK /\ OnlyLastNode(tree.failed)
  BY NotNil DEF Init, Node, OnlyLastNode
<1>2. U \in [Node -> SUBSET Nodes] /\ H \in [Node -> Nat \ {0}] /\ H[nil] = 1
  BY <1>1
<1>3. Shape(tree, U)
  BY <1>1, <1>2 DEF Shape
<1>4. Ordered(tree, U, value)
  BY <1>1 DEF Ordered
<1>5. Balanced(tree, {}, H)
  BY <1>1, <1>2 DEF Balanced, Heights, RedApart
<1>6. ChainsOf({}, O, value, list, free)
  <2>1. O \in [Nodes -> {} \cup {nil}]
    OBVIOUS
  <2>2. \A m \in Nodes : Chained1({}, O, value, list, m)
    BY DEF Chained1
  <2>3. \A j \in DOMAIN free : Freed1(O, free, j)
    BY DEF Init, Freed1
  <2> QED
    BY <2>1, <2>2, <2>3 DEF ChainsOf
<1>7. CacheHolds(cache, {}, value)
  BY DEF Init, CacheHolds, Extreme
<1>8. pc = "idle" /\ loc = NoLoc /\ x = nil
  BY DEF Init
<1>9. \A q \in Side : pc # Extreme(q)
  BY <1>8 DEF Extreme
<1>10. {loc.node, loc.parent, x} \subseteq U[tree.root] \cup {nil}
  BY <1>8 DEF NoLoc
<1> HIDE DEF U, H, O
<1>11. Sound(U, H, O)
  BY <1>1, <1>3, <1>4, <1>5, <1>6, <1>7, <1>8, <1>9, <1>10 DEF Sound, Chains, CacheOK
<1> QED
  BY <1>11

\* A state with the same variables is as sound.
LEMMA StutterSound ==
    ASSUME NEW U, NEW H, NEW O, Sound(U, H, O), UNCHANGED vars
    PROVE  Sound(U, H, O)'
<1>1. UNCHANGED <<tree, value, list, cache, free, pc, op, loc, x, ret>>
  BY DEF vars
<1>2. /\ Chains(U[tree.root], O)' <=> Chains(U[tree.root], O)
      /\ CacheOK(U[tree.root])' <=> CacheOK(U[tree.root])
      /\ FindOK(U[tree.root], U)' <=> FindOK(U[tree.root], U)
      /\ Allocated(O)' <=> Allocated(O)
      /\ CacheBehind(U[tree.root], U)' <=> CacheBehind(U[tree.root], U)
      /\ SuccessorOK(U[tree.root], U)' <=> SuccessorOK(U[tree.root], U)
      /\ CacheStale(U[tree.root], O)' <=> CacheStale(U[tree.root], O)
  BY <1>1 DEF Chains, CacheOK, FindOK, Allocated, OnFreeList, CacheBehind, SuccessorOK, CacheStale
<1> QED
  BY <1>1, <1>2 DEF Sound

\* Every step keeps it.
LEMMA StepSound ==
    ASSUME CmpMagnitudes = {1}, SoundTreeInv, [Next]_vars
    PROVE  SoundTreeInv'
<1>1. IndInv /\ IndInv'
  BY InductiveStep DEF SoundTreeInv
<1>2. PICK U, H, O : Sound(U, H, O)
  BY DEF SoundTreeInv
<1> SUFFICES \E W, K, P : Sound(W, K, P)'
  BY <1>1 DEF SoundTreeInv
<1>3. ASSUME NEW k \in Keys, jfs_bst_puts(k) PROVE \E W, K, P : Sound(W, K, P)'
  BY <1>1, <1>2, <1>3, PutsSound
<1>4. ASSUME NEW k \in Keys, jfs_bst_takes(k) PROVE \E W, K, P : Sound(W, K, P)'
  BY <1>1, <1>2, <1>4, TakesSound
<1>5. ASSUME NEW s \in Side, jfs_bst_get(s) PROVE \E W, K, P : Sound(W, K, P)'
  BY <1>1, <1>2, <1>5, GetSound
<1>6. CASE bst_find_step
  BY <1>1, <1>2, <1>6, FindSound
<1>7. CASE puts_duplicate
  BY <1>1, <1>2, <1>7, DuplicateSound
<1>8. CASE bst_insert
  BY <1>1, <1>2, <1>8, InsertSound
<1>9. CASE bst_fixup_insert_recolor
  BY <1>1, <1>2, <1>9, RecolorSound
<1>10. CASE bst_fixup_insert_rotate
  BY <1>1, <1>2, <1>10, RotateInsertSound
<1>11. CASE puts_done
  BY <1>1, <1>2, <1>11, PutsDoneSound
<1>12. CASE takes_bad_key
  BY <1>1, <1>2, <1>12, BadKeySound
<1>13. CASE takes_found
  BY <1>1, <1>2, <1>13, TakesFoundSound
<1>14. CASE bst_delete_minimum_step
  BY <1>1, <1>2, <1>14, MinimumStepSound
<1>15. CASE bst_delete_splice
  BY <1>1, <1>2, <1>15, DeleteSpliceSound
<1>16. CASE bst_fixup_delete_recolor
  BY <1>1, <1>2, <1>16, DeleteRecolorSound
<1>17. CASE bst_fixup_delete_rotate
  BY <1>1, <1>2, <1>17, DeleteRotateSound
<1>18. CASE bst_fixup_delete_done
  BY <1>1, <1>2, <1>18, DeleteDoneSound
<1>19. CASE update_cache_last
  BY <1>1, <1>2, <1>19, CacheLastSound
<1>20. CASE update_cache_inner
  BY <1>1, <1>2, <1>20, CacheInnerSound
<1>21. ASSUME NEW s \in Side, update_cache_descend(s) PROVE \E W, K, P : Sound(W, K, P)'
  BY <1>1, <1>2, <1>21, CacheDescendSound
<1>22. ASSUME NEW s \in Side, update_cache_parent(s) PROVE \E W, K, P : Sound(W, K, P)'
  BY <1>1, <1>2, <1>22, CacheParentSound
<1>23. ASSUME NEW s \in Side, update_cache_walk(s) PROVE \E W, K, P : Sound(W, K, P)'
  BY <1>1, <1>2, <1>23, CacheWalkSound
<1>24. CASE UNCHANGED vars
  BY <1>2, <1>24, StutterSound
<1> QED
  BY <1>3, <1>4, <1>5, <1>6, <1>7, <1>8, <1>9, <1>10, <1>11, <1>12, <1>13, <1>14, <1>15, <1>16,
     <1>17, <1>18, <1>19, <1>20, <1>21, <1>22, <1>23, <1>24 DEF Next, Call, Step

\* It holds in every reachable state.
LEMMA AlwaysSound ==
    ASSUME CmpMagnitudes = {1}
    PROVE  Spec => []SoundTreeInv
<1>1. SoundTreeInv /\ [Next]_vars => SoundTreeInv'
  BY StepSound
<1> QED
  BY <1>1, InitSound, PTL DEF Spec

-----------------------------------------------------------------------------
(* What the recursive definitions compute *)

\* above, and the children of its nodes.
Lower(t, above) == above \cup ({t.child[m][s] : m \in above, s \in Side} \ {nil})

\* d[i] are the nodes at most i links below n.
Levels(d, t, n, N) ==
    /\ d[0] = {n} \ {nil}
    /\ \A i \in 1..N : d[i] = Lower(t, d[i-1])

\* The function that Below defines, as the definition writes it.
IsDown(d, t, n, N) ==
    d = [i \in 0..N |->
            IF i = 0 THEN {n} \ {nil}
            ELSE LET above == d[i-1]
                 IN  above \cup ({t.child[m][s] : m \in above, s \in Side} \ {nil})]

\* There is such a function.
LEMMA LevelsExist ==
    ASSUME NEW t, NEW n, NEW N \in Nat
    PROVE  \E d : IsDown(d, t, n, N)
<1> DEFINE G(k, d) == d = [i \in 0..k |-> IF i = 0 THEN {n} \ {nil} ELSE Lower(t, d[i-1])]
           Bad == {k \in Nat : ~\E d : G(k, d)}
<1>0. \A d : G(N, d) => IsDown(d, t, n, N)
  BY DEF IsDown, Lower
<1> HIDE DEF G
<1>1. SUFFICES ASSUME Bad # {} PROVE FALSE
  <2>1. N \notin Bad => \E d : G(N, d)
    OBVIOUS
  <2> QED
    BY <2>1, <1>0
<1> USE DEF G
<1>2. PICK k \in Bad : \A j \in Bad : ~(j < k)
  BY <1>1, LeastNat
<1>3. CASE k = 0
  <2>1. G(0, [i \in 0..0 |-> {n} \ {nil}])
    OBVIOUS
  <2> QED
    BY <1>3, <2>1
<1>4. CASE k # 0
  <2>0. k \in Nat
    OBVIOUS
  <2> HIDE DEF Bad
  <2>1. k - 1 \in Nat /\ k - 1 \notin Bad
    BY <1>2, <1>4, <2>0
  <2> USE DEF Bad
  <2>2. PICK d : G(k-1, d)
    BY <2>1
  <2> DEFINE e == [i \in 0..k |-> IF i = k THEN Lower(t, d[k-1]) ELSE d[i]]
  <2>3. \A i \in 0..k-1 : e[i] = d[i]
    BY <1>4
  <2>4. ASSUME NEW i \in 0..k PROVE e[i] = IF i = 0 THEN {n} \ {nil} ELSE Lower(t, e[i-1])
    <3>1. CASE i = k
      <4>1. k - 1 \in 0..k-1
        BY <2>1
      <4> QED
        BY <1>4, <2>3, <3>1, <4>1
    <3>2. CASE i # k
      <4>1. i \in 0..k-1 /\ (i # 0 => i - 1 \in 0..k-1)
        BY <3>2
      <4>2. d[i] = IF i = 0 THEN {n} \ {nil} ELSE Lower(t, d[i-1])
        BY <2>2, <4>1
      <4> QED
        BY <2>3, <4>1, <4>2
    <3> QED
      BY <3>1, <3>2
  <2>5. G(k, e)
    BY <2>4
  <2> QED
    BY <2>5
<1> QED
  BY <1>3, <1>4

\* Below(n) is its last level.
LEMMA BelowLevels ==
    ASSUME NEW n
    PROVE  \E d : Levels(d, tree, n, Cardinality(Nodes)) /\ Below(n) = d[Cardinality(Nodes)]
<1> DEFINE N == Cardinality(Nodes)
           down == CHOOSE d : IsDown(d, tree, n, N)
<1>1. N \in Nat
  BY NodesAssumption, FS_CardinalityType
<1>2. Below(n) = down[N]
  BY DEF Below, IsDown
<1>3. IsDown(down, tree, n, N)
  BY <1>1, LevelsExist
<1> HIDE DEF down
<1>4. Levels(down, tree, n, N)
  BY <1>1, <1>3 DEF Levels, Lower, IsDown
<1> QED
  BY <1>2, <1>4

\* The levels stay within the subtree.
LEMMA LevelsWithin ==
    ASSUME NEW t \in Tree, NEW U, Shape(t, U), NEW n \in U[t.root] \cup {nil},
           NEW N \in Nat, NEW d, Levels(d, t, n, N), NEW i \in 0..N
    PROVE  d[i] \subseteq U[n]
<1> DEFINE Bad == {k \in 0..N : ~(d[k] \subseteq U[n])}
<1>1. SUFFICES ASSUME Bad # {} PROVE FALSE
  OBVIOUS
<1>2. PICK k \in Bad : \A j \in Bad : ~(j < k)
  <2>1. Bad \subseteq Nat
    OBVIOUS
  <2> HIDE DEF Bad
  <2> QED
    BY <1>1, <2>1, LeastNat
<1>3. k \in 0..N /\ ~(d[k] \subseteq U[n])
  OBVIOUS
<1>4. k # 0
  <2>1. n # nil => n \in U[n]
    BY ShapeNode
  <2> QED
    BY <1>3, <2>1 DEF Levels
<1>5. k - 1 \in 0..N /\ k \in 1..N /\ k - 1 < k
  BY <1>3, <1>4
<1>6. d[k-1] \subseteq U[n]
  BY <1>2, <1>5
<1>7. d[k] = Lower(t, d[k-1])
  BY <1>5 DEF Levels
<1>8. n # nil \/ U[n] = {}
  BY DEF Shape
<1>9. ASSUME NEW m \in d[k-1], NEW s \in Side, t.child[m][s] # nil PROVE t.child[m][s] \in U[n]
  <2>1. m \in U[n] /\ n \in U[t.root]
    BY <1>6, <1>8
  <2>2. m \in U[t.root] /\ U[m] \subseteq U[n]
    BY <2>1, ShapeNode, ShapeClosed
  <2>3. t.child[m][s] \in U[m]
    BY <1>9, <2>2, ShapeChild
  <2> QED
    BY <2>2, <2>3
<1>10. d[k] \subseteq U[n]
  BY <1>6, <1>7, <1>9 DEF Lower
<1> QED
  BY <1>3, <1>10

\* A child has a smaller subtree.
LEMMA SubtreeSize ==
    ASSUME NEW t \in Tree, NEW U, Shape(t, U), NEW n \in U[t.root]
    PROVE  /\ Cardinality(U[n]) \in Nat /\ Cardinality(U[n]) >= 1
           /\ Cardinality(U[n]) <= Cardinality(Nodes)
           /\ \A s \in Side : t.child[n][s] # nil => Cardinality(U[t.child[n][s]]) < Cardinality(U[n])
<1>1. U[n] \subseteq Nodes /\ n \in U[n]
  BY ShapeNode
<1>2. IsFiniteSet(Nodes) /\ IsFiniteSet(U[n]) /\ Cardinality(U[n]) \in Nat
      /\ Cardinality(U[n]) <= Cardinality(Nodes)
  BY <1>1, NodesAssumption, FS_Subset, FS_CardinalityType
<1>3. Cardinality(U[n]) # 0
  BY <1>1, <1>2, FS_EmptySet
<1>4. ASSUME NEW s \in Side, t.child[n][s] # nil
      PROVE  Cardinality(U[t.child[n][s]]) < Cardinality(U[n])
  <2>1. n \notin U[t.child[n][s]] /\ U[t.child[n][s]] \subseteq U[n]
    BY <1>4, ShapeChild
  <2>2. U[t.child[n][s]] # U[n]
    BY <2>1, <1>1
  <2>3. /\ Cardinality(U[t.child[n][s]]) <= Cardinality(U[n])
        /\ Cardinality(U[t.child[n][s]]) = Cardinality(U[n]) => U[t.child[n][s]] = U[n]
        /\ IsFiniteSet(U[t.child[n][s]])
    BY <1>2, <2>1, FS_Subset
  <2>4. Cardinality(U[t.child[n][s]]) \in Nat
    BY <2>3, FS_CardinalityType
  <2> QED
    BY <1>2, <2>2, <2>3, <2>4
<1> QED
  BY <1>2, <1>3, <1>4

\* A node of the subtree of n is no further down than n has nodes outside of its subtree.
LEMMA LevelsReach ==
    ASSUME NEW t \in Tree, NEW U, Shape(t, U), NEW n \in U[t.root],
           NEW N \in Nat, NEW d, Levels(d, t, n, N), NEW i \in 0..N,
           NEW m \in U[n], Cardinality(U[n]) - Cardinality(U[m]) <= i
    PROVE  m \in d[i]
<1> DEFINE c(k) == Cardinality(U[k])
           Good(j) == \A k \in U[n] : c(n) - c(k) <= j => k \in d[j]
           Bad == {j \in 0..N : ~Good(j)}
<1>0. \A k \in U[n] : k \in U[t.root] /\ c(k) \in Nat
  BY ShapeNode, SubtreeSize
<1>1. SUFFICES ASSUME Bad # {} PROVE FALSE
  OBVIOUS
<1>2. PICK j \in Bad : \A k \in Bad : ~(k < j)
  <2>1. Bad \subseteq Nat
    OBVIOUS
  <2> HIDE DEF Bad
  <2> QED
    BY <1>1, <2>1, LeastNat
<1>3. j \in 0..N /\ ~Good(j)
  OBVIOUS
<1>4. PICK k \in U[n] : c(n) - c(k) <= j /\ k \notin d[j]
  BY <1>3
<1>n. n \in U[n] /\ n # nil
  BY ShapeNode
<1>5. ASSUME k # n
      PROVE  /\ t.parent[k] \in U[n] /\ c(k) < c(t.parent[k]) /\ k # nil
             /\ \E s \in Side : t.child[t.parent[k]][s] = k
  <2>1. k \in U[t.root] /\ k # nil
    BY <1>0, ShapeNode
  <2>2. k # t.root
    <3>1. SUFFICES ASSUME k = t.root PROVE FALSE
      OBVIOUS
    <3>2. n # t.root
      BY <3>1, <1>5
    <3>3. t.parent[n] \in U[t.root] /\ t.parent[n] \notin U[n]
      BY <3>2, ShapeParent
    <3>4. U[k] \subseteq U[n]
      BY ShapeClosed
    <3> QED
      BY <3>1, <3>3, <3>4
  <2>3. t.parent[k] \in U[n]
    BY <1>5, ShapeClosed
  <2>4. PICK s \in Side : t.child[t.parent[k]][s] = k
    BY <2>1, <2>2, ShapeParent
  <2>5. t.parent[k] \in U[t.root]
    BY <2>3, <1>0
  <2>6. c(k) < c(t.parent[k])
    BY <2>1, <2>4, <2>5, SubtreeSize
  <2> QED
    BY <2>1, <2>3, <2>4, <2>6
<1>6. c(n) \in Nat /\ c(k) \in Nat /\ (k # n => c(t.parent[k]) \in Nat)
  BY <1>0, <1>5, <1>n
<1> HIDE DEF c
<1>7. CASE j = 0
  <2>1. k # n
    BY <1>4, <1>7, <1>n DEF Levels
  <2>2. t.parent[k] \in U[n] /\ t.parent[k] \in U[t.root] /\ U[t.parent[k]] \subseteq U[n]
    BY <2>1, <1>0, <1>5, ShapeClosed
  <2>3. c(t.parent[k]) <= c(n)
    <3>1. IsFiniteSet(U[n])
      BY <1>0, <1>n, ShapeNode, NodesAssumption, FS_Subset
    <3> QED
      BY <2>2, <3>1, FS_Subset DEF c
  <2> QED
    BY <1>4, <1>5, <1>6, <1>7, <2>1, <2>3
<1>8. CASE j # 0
  <2>1. j - 1 \in 0..N /\ j \in 1..N /\ j - 1 < j
    BY <1>3, <1>8
  <2>2. Good(j-1)
    BY <1>2, <2>1
  <2>3. d[j] = Lower(t, d[j-1])
    BY <2>1 DEF Levels
  <2>4. CASE k = n
    <3>1. c(n) - c(n) <= j - 1
      BY <1>6, <2>1
    <3>2. n \in d[j-1]
      BY <2>2, <3>1, <1>n
    <3> QED
      BY <2>3, <2>4, <3>2, <1>4 DEF Lower
  <2>5. CASE k # n
    <3>1. c(n) - c(t.parent[k]) <= j - 1
      BY <1>4, <1>5, <1>6, <2>1, <2>5
    <3>2. t.parent[k] \in d[j-1]
      BY <2>2, <2>5, <3>1, <1>5
    <3> QED
      BY <1>4, <1>5, <2>3, <2>5, <3>2 DEF Lower
  <2> QED
    BY <2>4, <2>5
<1> QED
  BY <1>7, <1>8

\* Below(n) is the subtree of n.
LEMMA BelowIs ==
    ASSUME tree \in Tree, NEW U, Shape(tree, U), NEW n \in U[tree.root] \cup {nil}
    PROVE  Below(n) = U[n]
<1> DEFINE N == Cardinality(Nodes)
<1>1. N \in Nat
  BY NodesAssumption, FS_CardinalityType
<1>2. PICK d : Levels(d, tree, n, N) /\ Below(n) = d[N]
  BY BelowLevels
<1>3. d[N] \subseteq U[n]
  <2>1. N \in 0..N
    BY <1>1
  <2> QED
    BY <1>1, <1>2, <2>1, LevelsWithin
<1>4. U[n] \subseteq d[N]
  <2>1. SUFFICES ASSUME NEW m \in U[n] PROVE m \in d[N]
    OBVIOUS
  <2>2. n \in U[tree.root]
    BY <2>1 DEF Shape
  <2>3. m \in U[tree.root]
    BY <2>1, <2>2, ShapeNode
  <2>4. Cardinality(U[n]) \in Nat /\ Cardinality(U[m]) \in Nat /\ Cardinality(U[n]) <= N
    BY <2>2, <2>3, SubtreeSize
  <2>5. Cardinality(U[n]) - Cardinality(U[m]) <= N /\ N \in 0..N
    BY <2>4, <1>1
  <2> QED
    BY <1>1, <1>2, <2>2, <2>5, LevelsReach
<1> QED
  BY <1>2, <1>3, <1>4

\* before, and what its nodes link to.
Further(l, before) == before \cup ({l[m] : m \in before} \ {NULL})

\* The function that Behind defines, as the definition writes it.
IsChain(d, l, n, N) ==
    d = [i \in 0..N |->
            IF i = 0 THEN {l[n]} \ {NULL}
            ELSE LET before == d[i-1]
                 IN  before \cup ({l[m] : m \in before} \ {NULL})]

\* There is such a function.
LEMMA ChainExists ==
    ASSUME NEW l, NEW n, NEW N \in Nat
    PROVE  \E d : IsChain(d, l, n, N)
<1> DEFINE G(k, d) == d = [i \in 0..k |-> IF i = 0 THEN {l[n]} \ {NULL} ELSE Further(l, d[i-1])]
           Bad == {k \in Nat : ~\E d : G(k, d)}
<1>0. \A d : G(N, d) => IsChain(d, l, n, N)
  BY DEF IsChain, Further
<1> HIDE DEF G
<1>1. SUFFICES ASSUME Bad # {} PROVE FALSE
  <2>1. N \notin Bad => \E d : G(N, d)
    OBVIOUS
  <2> QED
    BY <2>1, <1>0
<1> USE DEF G
<1>2. PICK k \in Bad : \A j \in Bad : ~(j < k)
  BY <1>1, LeastNat
<1>3. CASE k = 0
  <2>1. G(0, [i \in 0..0 |-> {l[n]} \ {NULL}])
    OBVIOUS
  <2> QED
    BY <1>3, <2>1
<1>4. CASE k # 0
  <2>0. k \in Nat
    OBVIOUS
  <2> HIDE DEF Bad
  <2>1. k - 1 \in Nat /\ k - 1 \notin Bad
    BY <1>2, <1>4, <2>0
  <2> USE DEF Bad
  <2>2. PICK d : G(k-1, d)
    BY <2>1
  <2> DEFINE e == [i \in 0..k |-> IF i = k THEN Further(l, d[k-1]) ELSE d[i]]
  <2>3. \A i \in 0..k-1 : e[i] = d[i]
    BY <1>4
  <2>4. ASSUME NEW i \in 0..k PROVE e[i] = IF i = 0 THEN {l[n]} \ {NULL} ELSE Further(l, e[i-1])
    <3>1. CASE i = k
      <4>1. k - 1 \in 0..k-1
        BY <2>1
      <4> QED
        BY <1>4, <2>3, <3>1, <4>1
    <3>2. CASE i # k
      <4>1. i \in 0..k-1 /\ (i # 0 => i - 1 \in 0..k-1)
        BY <3>2
      <4>2. d[i] = IF i = 0 THEN {l[n]} \ {NULL} ELSE Further(l, d[i-1])
        BY <2>2, <4>1
      <4> QED
        BY <2>3, <4>1, <4>2
    <3> QED
      BY <3>1, <3>2
  <2>5. G(k, e)
    BY <2>4
  <2> QED
    BY <2>5
<1> QED
  BY <1>3, <1>4

\* Everything behind n has n as its owner.
LEMMA BehindOwned ==
    ASSUME NEW T \in SUBSET Nodes, NEW O, ChainsOf(T, O, value, list, free), list \in Lists,
           NEW n \in T, NEW m \in Behind(n)
    PROVE  m \in Nodes \ T /\ O[m] = n /\ value[m] = value[n]
<1> DEFINE N == Cardinality(Nodes)
           chain == CHOOSE d : IsChain(d, list, n, N)
           S == {k \in Nodes \ T : O[k] = n}
           Bad == {i \in 0..N : ~(chain[i] \subseteq S)}
<1>1. N \in Nat
  BY NodesAssumption, FS_CardinalityType
<1>2. Behind(n) = chain[N]
  BY DEF Behind, IsChain
<1>3. IsChain(chain, list, n, N)
  BY <1>1, ChainExists
<1> HIDE DEF chain
<1>4. /\ chain[0] = {list[n]} \ {NULL}
      /\ \A i \in 1..N : chain[i] = Further(list, chain[i-1])
  BY <1>1, <1>3 DEF IsChain, Further
<1>5. ASSUME NEW k \in Nodes, O[k] = n, list[k] # NULL PROVE list[k] \in S
  <2>1. Chained1(T, O, value, list, k) /\ n # nil
    BY NodesAssumption DEF ChainsOf
  <2>2. list[k] \in Nodes
    BY <1>5 DEF Lists
  <2> QED
    BY <1>5, <2>1, <2>2 DEF Chained1
<1>6. n \in Nodes /\ O[n] = n /\ n # nil
  BY NodesAssumption DEF ChainsOf
<1>7. chain[N] \subseteq S
  <2>1. SUFFICES ASSUME Bad # {} PROVE FALSE
    BY <1>1
  <2>2. PICK i \in Bad : \A j \in Bad : ~(j < i)
    <3>1. Bad \subseteq Nat
      BY <1>1
    <3> HIDE DEF Bad
    <3> QED
      BY <2>1, <3>1, LeastNat
  <2>3. i \in 0..N /\ ~(chain[i] \subseteq S)
    OBVIOUS
  <2>4. i # 0
    BY <2>3, <1>4, <1>5, <1>6
  <2>5. i - 1 \in 0..N /\ i \in 1..N /\ i - 1 < i
    BY <2>3, <2>4, <1>1
  <2>6. chain[i-1] \subseteq S
    BY <2>2, <2>5
  <2>7. chain[i] = Further(list, chain[i-1])
    BY <2>5, <1>4
  <2>8. chain[i] \subseteq S
    BY <2>6, <2>7, <1>5 DEF Further
  <2> QED
    BY <2>3, <2>8
<1>8. m \in Nodes \ T /\ O[m] = n
  BY <1>2, <1>7
<1>9. value[m] = value[n]
  BY <1>6, <1>8 DEF ChainsOf, Chained1
<1> QED
  BY <1>8, <1>9

-----------------------------------------------------------------------------
(* The black nodes above the missing children *)

\* The next level of BlackDepths.
Deeper(t, L) ==
    {<<t.child[w[1]][s], w[2] + t.color[t.child[w[1]][s]]>> : w \in {v \in L : v[1] # nil}, s \in Side}

\* The function that BlackDepths defines.
IsDepths(d, t, N) ==
    d = [i \in 0..N |->
            IF i = 0 THEN {<<t.root, t.color[t.root]>>}
            ELSE Deeper(t, d[i-1])]

\* There is such a function.
LEMMA DepthsExist ==
    ASSUME NEW t, NEW N \in Nat
    PROVE  \E d : IsDepths(d, t, N)
<1> DEFINE a == {<<t.root, t.color[t.root]>>}
           G(k, d) == d = [i \in 0..k |-> IF i = 0 THEN a ELSE Deeper(t, d[i-1])]
           Bad == {k \in Nat : ~\E d : G(k, d)}
<1>0. \A d : G(N, d) => IsDepths(d, t, N)
  BY DEF IsDepths
<1> HIDE DEF G, a
<1>1. SUFFICES ASSUME Bad # {} PROVE FALSE
  <2>1. N \notin Bad => \E d : G(N, d)
    OBVIOUS
  <2> QED
    BY <2>1, <1>0
<1> USE DEF G
<1>2. PICK k \in Bad : \A j \in Bad : ~(j < k)
  BY <1>1, LeastNat
<1>3. CASE k = 0
  <2>1. G(0, [i \in 0..0 |-> a])
    OBVIOUS
  <2> QED
    BY <1>3, <2>1
<1>4. CASE k # 0
  <2>0. k \in Nat
    OBVIOUS
  <2> HIDE DEF Bad
  <2>1. k - 1 \in Nat /\ k - 1 \notin Bad
    BY <1>2, <1>4, <2>0
  <2> USE DEF Bad
  <2>2. PICK d : G(k-1, d)
    BY <2>1
  <2> DEFINE e == [i \in 0..k |-> IF i = k THEN Deeper(t, d[k-1]) ELSE d[i]]
  <2>3. \A i \in 0..k-1 : e[i] = d[i]
    BY <1>4
  <2>4. ASSUME NEW i \in 0..k PROVE e[i] = IF i = 0 THEN a ELSE Deeper(t, e[i-1])
    <3>1. CASE i = k
      <4>1. k - 1 \in 0..k-1
        BY <2>1
      <4> QED
        BY <1>4, <2>3, <3>1, <4>1
    <3>2. CASE i # k
      <4>1. i \in 0..k-1 /\ (i # 0 => i - 1 \in 0..k-1)
        BY <3>2
      <4>2. d[i] = IF i = 0 THEN a ELSE Deeper(t, d[i-1])
        BY <2>2, <4>1
      <4> QED
        BY <2>3, <4>1, <4>2
    <3> QED
      BY <3>1, <3>2
  <2>5. G(k, e)
    BY <2>4
  <2> QED
    BY <2>5
<1> QED
  BY <1>3, <1>4

\* On its way down, a walk has met the black nodes that are missing in the height.
Depth(t, T, H, w) ==
    /\ w[1] \in T \cup {nil} /\ w[2] \in Int
    /\ w[2] + H[w[1]] - t.color[w[1]] = H[t.root]

\* A step down keeps that.
LEMMA DepthStep ==
    ASSUME NEW t \in Tree, NEW U, Shape(t, U), NEW H, Heights(t, U[t.root], H, nil, "left"),
           NEW w, Depth(t, U[t.root], H, w), w[1] # nil, NEW s \in Side,
           NEW c, c = t.child[w[1]][s]
    PROVE  Depth(t, U[t.root], H, <<c, w[2] + t.color[c]>>)
<1> DEFINE m == w[1]
<1>1. m \in U[t.root] /\ w[2] \in Int /\ w[2] + H[m] - t.color[m] = H[t.root]
  BY DEF Depth
<1>2. /\ H[m] = t.color[m] + H[c] /\ H[m] \in Nat /\ H[c] \in Nat /\ t.color[m] \in {0, 1} /\ c \in Node
  BY <1>1, HeightsRead
<1>3. t.color[c] \in {0, 1}
  BY <1>2, HeightTypes
<1>4. c \in U[t.root] \cup {nil}
  BY <1>1, ShapeChild
<1> HIDE DEF m
<1>5. (w[2] + t.color[c]) + H[c] - t.color[c] = H[t.root] /\ w[2] + t.color[c] \in Int
  BY <1>1, <1>2, <1>3
<1> QED
  BY <1>4, <1>5 DEF Depth

\* All of them meet as many.
LEMMA DepthsEqual ==
    ASSUME NEW t \in Tree, NEW U, Shape(t, U), NEW H, Heights(t, U[t.root], H, nil, "left"),
           NEW N \in Nat, NEW d, IsDepths(d, t, N), NEW i \in 0..N, NEW w \in d[i]
    PROVE  Depth(t, U[t.root], H, w)
<1> DEFINE Good(k) == \A v \in d[k] : Depth(t, U[t.root], H, v)
           Bad == {k \in 0..N : ~Good(k)}
<1>1. SUFFICES ASSUME Bad # {} PROVE FALSE
  OBVIOUS
<1>2. PICK k \in Bad : \A j \in Bad : ~(j < k)
  <2>1. Bad \subseteq Nat
    OBVIOUS
  <2> HIDE DEF Bad
  <2> QED
    BY <1>1, <2>1, LeastNat
<1>3. k \in 0..N /\ ~Good(k)
  OBVIOUS
<1>4. CASE k = 0
  <2>1. d[0] = {<<t.root, t.color[t.root]>>}
    BY <1>3, <1>4 DEF IsDepths
  <2>2. t.root \in Node /\ t.root \in U[t.root] \cup {nil}
    BY DEF Shape, Tree
  <2>3. H[t.root] \in Nat /\ t.color[t.root] \in {0, 1}
    BY <2>2, HeightTypes
  <2>4. Depth(t, U[t.root], H, <<t.root, t.color[t.root]>>)
    BY <2>2, <2>3 DEF Depth
  <2> QED
    BY <1>3, <1>4, <2>1, <2>4
<1>5. CASE k # 0
  <2>1. k - 1 \in 0..N /\ k - 1 < k
    BY <1>3, <1>5
  <2>2. Good(k-1)
    BY <1>2, <2>1
  <2>3. d[k] = Deeper(t, d[k-1])
    BY <1>3, <1>5 DEF IsDepths
  <2>4. ASSUME NEW v \in d[k] PROVE Depth(t, U[t.root], H, v)
    <3>1. PICK u \in d[k-1], s \in Side :
             u[1] # nil /\ v = <<t.child[u[1]][s], u[2] + t.color[t.child[u[1]][s]]>>
      BY <2>3 DEF Deeper
    <3>2. Depth(t, U[t.root], H, u)
      BY <2>2
    <3> QED
      BY <3>1, <3>2, DepthStep
  <2> QED
    BY <1>3, <2>4
<1> QED
  BY <1>4, <1>5

\* One of them ends.
LEMMA DepthsEnd ==
    ASSUME NEW t \in Tree, NEW U, Shape(t, U), NEW N, N = Cardinality(Nodes),
           NEW d, IsDepths(d, t, N)
    PROVE  \E i \in 0..N : \E w \in d[i] : w[1] = nil
<1> DEFINE Narrow(k) == \E w \in d[k] : w[1] \in U[t.root] /\ Cardinality(U[w[1]]) <= N - k
           Bad == {k \in 0..N : ~Narrow(k)}
<1>0. N \in Nat
  BY NodesAssumption, FS_CardinalityType
<1>1. SUFFICES ASSUME \A i \in 0..N : \A w \in d[i] : w[1] # nil PROVE FALSE
  OBVIOUS
<1>2. Bad # {}
  <2>1. SUFFICES ASSUME Narrow(N) PROVE FALSE
    BY <1>0
  <2>2. PICK w \in d[N] : w[1] \in U[t.root] /\ Cardinality(U[w[1]]) <= N - N
    BY <2>1
  <2>3. Cardinality(U[w[1]]) \in Nat /\ Cardinality(U[w[1]]) >= 1
    BY <2>2, SubtreeSize
  <2> QED
    BY <2>2, <2>3, <1>0
<1>3. PICK k \in Bad : \A j \in Bad : ~(j < k)
  <2>1. Bad \subseteq Nat
    BY <1>0
  <2> HIDE DEF Bad
  <2> QED
    BY <1>2, <2>1, LeastNat
<1>4. k \in 0..N /\ ~Narrow(k)
  OBVIOUS
<1>5. CASE k = 0
  <2>1. d[0] = {<<t.root, t.color[t.root]>>} /\ 0 \in 0..N
    BY <1>0 DEF IsDepths
  <2>2. t.root # nil
    <3>1. <<t.root, t.color[t.root]>> \in d[0] /\ <<t.root, t.color[t.root]>>[1] = t.root
      BY <2>1
    <3> QED
      BY <1>1, <2>1, <3>1
  <2>3. t.root \in U[t.root]
    BY <2>2 DEF Shape
  <2>4. Cardinality(U[t.root]) <= N - 0
    BY <2>3, SubtreeSize, <1>0
  <2>5. <<t.root, t.color[t.root]>>[1] = t.root
    OBVIOUS
  <2> QED
    BY <1>4, <1>5, <2>1, <2>3, <2>4, <2>5
<1>6. CASE k # 0
  <2>1. k - 1 \in 0..N /\ k - 1 < k
    BY <1>0, <1>4, <1>6
  <2>2. Narrow(k-1)
    BY <1>3, <2>1
  <2>3. PICK w \in d[k-1] : w[1] \in U[t.root] /\ Cardinality(U[w[1]]) <= N - (k - 1)
    BY <2>2
  <2>4. d[k] = Deeper(t, d[k-1])
    BY <1>4, <1>6 DEF IsDepths
  <2> DEFINE c == t.child[w[1]]["left"]
             v == <<c, w[2] + t.color[c]>>
  <2>5. w[1] # nil /\ "left" \in Side
    BY <1>1, <2>1, Sides
  <2>6. v \in d[k]
    BY <2>4, <2>5 DEF Deeper
  <2>7. v[1] = c
    OBVIOUS
  <2> HIDE DEF v
  <2>8. c # nil
    BY <1>1, <1>4, <2>6, <2>7
  <2>9. c \in U[t.root] /\ Cardinality(U[c]) < Cardinality(U[w[1]]) /\ Cardinality(U[w[1]]) \in Nat
    BY <2>3, <2>5, <2>8, ShapeChild, SubtreeSize
  <2>10. Cardinality(U[c]) \in Nat
    BY <2>9, SubtreeSize
  <2>11. Cardinality(U[c]) <= N - k
    BY <1>0, <1>4, <2>3, <2>9, <2>10
  <2> QED
    BY <1>4, <2>6, <2>7, <2>9, <2>11
<1> QED
  BY <1>5, <1>6

\* There is one black depth.
LEMMA BlackDepthsIs ==
    ASSUME tree \in Tree, NEW U, Shape(tree, U), NEW H, Heights(tree, U[tree.root], H, nil, "left"),
           tree.color[nil] = BST_BLACK
    PROVE  Cardinality(BlackDepths) = 1
<1> DEFINE N == Cardinality(Nodes)
           down == CHOOSE d : IsDepths(d, tree, N)
<1>1. N \in Nat
  BY NodesAssumption, FS_CardinalityType
<1>2. BlackDepths = {w[2] : w \in {v \in UNION {down[i] : i \in DOMAIN down} : v[1] = nil}}
  BY DEF BlackDepths, IsDepths, Deeper
<1>3. IsDepths(down, tree, N)
  BY <1>1, DepthsExist
<1> HIDE DEF down
<1>4. DOMAIN down = 0..N
  BY <1>3 DEF IsDepths
<1>5. ASSUME NEW i \in 0..N, NEW w \in down[i], w[1] = nil PROVE w[2] = H[tree.root]
  <2>1. Depth(tree, U[tree.root], H, w)
    BY <1>1, <1>3, DepthsEqual
  <2>2. H[nil] = 1 /\ tree.color[nil] = 1
    BY DEF Heights, BST_BLACK
  <2> QED
    BY <1>5, <2>1, <2>2 DEF Depth
<1>6. PICK i \in 0..N : \E w \in down[i] : w[1] = nil
  BY <1>3, DepthsEnd
<1>7. BlackDepths = {H[tree.root]}
  BY <1>2, <1>4, <1>5, <1>6
<1> QED
  BY <1>7, FS_Singleton

-----------------------------------------------------------------------------
(* What the invariant implies *)

\* The linked nodes are those of the subtree of the root.
LEMMA InTreeIs ==
    ASSUME NEW U, NEW H, NEW O, Sound(U, H, O), IndInv
    PROVE  /\ InTree = U[tree.root]
           /\ \A n \in U[tree.root] : \A s \in Side : Below(tree.child[n][s]) = U[tree.child[n][s]]
<1>1. tree \in Tree /\ Shape(tree, U)
  BY SoundTree
<1>2. tree.root \in U[tree.root] \cup {nil}
  BY <1>1 DEF Shape
<1>3. InTree = U[tree.root]
  BY <1>1, <1>2, BelowIs DEF InTree
<1>4. ASSUME NEW n \in U[tree.root], NEW s \in Side PROVE Below(tree.child[n][s]) = U[tree.child[n][s]]
  <2>1. tree.child[n][s] \in U[tree.root] \cup {nil}
    BY <1>1, ShapeChild
  <2> QED
    BY <1>1, <2>1, BelowIs
<1> QED
  BY <1>3, <1>4

\* The invariant implies SearchTree.
LEMMA SearchTreeFollows ==
    ASSUME NEW U, NEW H, NEW O, Sound(U, H, O), IndInv
    PROVE  SearchTree
<1>1. tree \in Tree /\ Shape(tree, U) /\ Ordered(tree, U, value)
  BY SoundTree
<1>2. /\ InTree = U[tree.root]
      /\ \A n \in U[tree.root] : \A s \in Side : Below(tree.child[n][s]) = U[tree.child[n][s]]
  BY InTreeIs
<1>3. tree.root # nil => tree.parent[tree.root] = nil
  BY <1>1 DEF Shape
<1>4. ASSUME NEW n \in InTree
      PROVE  /\ \A s \in Side : tree.child[n][s] # nil => tree.parent[tree.child[n][s]] = n
             /\ \A m \in Below(tree.child[n]["left"])  : value[m] < value[n]
             /\ \A m \in Below(tree.child[n]["right"]) : value[m] > value[n]
  <2>1. n \in U[tree.root]
    BY <1>2
  <2>2. \A s \in Side : tree.child[n][s] # nil => tree.parent[tree.child[n][s]] = n
    BY <1>1, <2>1, ShapeChild
  <2>3. \A s \in Side : \A m \in U[tree.child[n][s]] : Beyond(s, value[m], value[n])
    BY <1>1, <2>1 DEF Ordered
  <2>4. /\ \A m \in U[tree.child[n]["left"]] : value[m] < value[n]
        /\ \A m \in U[tree.child[n]["right"]] : value[n] < value[m]
    BY <2>3, Sides DEF Beyond
  <2>5. value[n] \in Int /\ \A s \in Side : \A m \in U[tree.child[n][s]] : value[m] \in Int
    <3>1. \A k \in U[tree.root] : value[k] \in Int
      BY <1>1, KeysAssumption DEF Ordered
    <3>2. \A s \in Side : U[tree.child[n][s]] \subseteq U[tree.root]
      <4>1. ASSUME NEW s \in Side PROVE U[tree.child[n][s]] \subseteq U[tree.root]
        <5>1. CASE tree.child[n][s] = nil
          BY <1>1, <5>1 DEF Shape
        <5>2. CASE tree.child[n][s] # nil
          BY <1>1, <2>1, <5>2, ShapeChild, ShapeNode
        <5> QED
          BY <5>1, <5>2
      <4> QED
        BY <4>1
    <3> QED
      BY <2>1, <3>1, <3>2
  <2>6. Below(tree.child[n]["left"]) = U[tree.child[n]["left"]] /\ Below(tree.child[n]["right"]) = U[tree.child[n]["right"]]
    BY <1>2, <2>1, Sides
  <2> QED
    BY <2>2, <2>4, <2>5, <2>6, Sides
<1> QED
  BY <1>3, <1>4 DEF SearchTree

\* The invariant implies RedBlack.
LEMMA RedBlackFollows ==
    ASSUME NEW U, NEW H, NEW O, Sound(U, H, O), IndInv
    PROVE  RedBlack
<1>0. SUFFICES ASSUME pc = "idle"
      PROVE  /\ tree.color[nil] = BST_BLACK /\ tree.color[tree.root] = BST_BLACK
             /\ \A n \in InTree :
                  tree.color[n] = BST_RED => \A s \in Side : tree.color[tree.child[n][s]] = BST_BLACK
             /\ Cardinality(BlackDepths) = 1
  BY DEF RedBlack
<1>1. tree \in Tree /\ Shape(tree, U) /\ tree.color[nil] = BST_BLACK /\ nil \notin U[tree.root]
  BY SoundTree
<1>2. Balanced(tree, U[tree.root], H)
  BY <1>0 DEF Sound
<1>3. Cardinality(BlackDepths) = 1
  BY <1>1, <1>2, BlackDepthsIs DEF Balanced
<1>4. InTree = U[tree.root]
  BY InTreeIs
<1>5. \A n \in U[tree.root] :
         tree.color[n] = BST_RED => \A s \in Side : tree.color[tree.child[n][s]] = BST_BLACK
  BY <1>1, <1>2 DEF Balanced, RedApart
<1> QED
  BY <1>1, <1>2, <1>3, <1>4, <1>5 DEF Balanced

\* Where a stored node is: linked, or behind a linked node with the same key.
LEMMA StoredIs ==
    ASSUME NEW U, NEW H, NEW O, Sound(U, H, O), IndInv
    PROVE  /\ InTree = U[tree.root]
           /\ \A n \in U[tree.root] : O[n] = n /\ n # nil /\ n \in Nodes
           /\ \A n \in U[tree.root] : \A m \in Behind(n) :
                  m \in Nodes \ U[tree.root] /\ O[m] = n /\ value[m] = value[n]
           /\ \A m \in Stored : /\ O[m] # nil
                                /\ \E n \in U[tree.root] : value[m] = value[n]
<1>1. ChainsOf(U[tree.root], O, value, list, free) /\ U[tree.root] \in SUBSET Nodes /\ list \in Lists
      /\ nil \notin U[tree.root]
  BY SoundTree
<1>2. InTree = U[tree.root]
  BY InTreeIs
<1>3. \A n \in U[tree.root] : O[n] = n /\ n # nil /\ n \in Nodes
  BY <1>1 DEF ChainsOf
<1>4. \A n \in U[tree.root] : \A m \in Behind(n) :
                  m \in Nodes \ U[tree.root] /\ O[m] = n /\ value[m] = value[n]
  BY <1>1, BehindOwned
<1>5. \A m \in Stored : O[m] # nil /\ \E n \in U[tree.root] : value[m] = value[n]
  BY <1>2, <1>3, <1>4 DEF Stored, Chained
<1> QED
  BY <1>2, <1>3, <1>4, <1>5

\* The invariant implies CacheIsExtreme.
LEMMA CacheFollows ==
    ASSUME NEW U, NEW H, NEW O, Sound(U, H, O), IndInv
    PROVE  CacheIsExtreme
<1> DEFINE T == U[tree.root]
<1>0. SUFFICES ASSUME pc = "idle"
      PROVE  IF tree.root = nil THEN cache.smallest = nil /\ cache.largest = nil
             ELSE /\ {cache.smallest, cache.largest} \subseteq InTree
                  /\ \A n \in Stored : value[cache.smallest] <= value[n] /\ value[n] <= value[cache.largest]
  BY DEF CacheIsExtreme
<1>1. tree \in Tree /\ Shape(tree, U) /\ Ordered(tree, U, value)
  BY SoundTree
<1>2. CacheHolds(cache, T, value)
  BY <1>0 DEF Sound, CacheOK
<1>3. CASE tree.root = nil
  <2>1. T = {}
    BY <1>1, <1>3 DEF Shape
  <2> QED
    BY <1>2, <1>3, <2>1, Sides DEF CacheHolds, Extreme
<1>4. CASE tree.root # nil
  <2>1. T # {}
    BY <1>1, <1>4 DEF Shape
  <2>2. Outermost("left", cache.smallest, T, value) /\ Outermost("right", cache.largest, T, value)
    BY <1>2, <2>1, Sides DEF CacheHolds, Extreme
  <2>3. \A k \in T : value[k] \in Int
    BY <1>1, KeysAssumption DEF Ordered
  <2>4. \A k \in T : value[cache.smallest] <= value[k] /\ value[k] <= value[cache.largest]
    BY <2>2, <2>3 DEF Outermost, Beyond
  <2>5. cache.smallest \in T /\ cache.largest \in T
    BY <2>2 DEF Outermost
  <2>6. InTree = T /\ \A m \in Stored : \E n \in T : value[m] = value[n]
    BY StoredIs
  <2> QED
    BY <1>4, <2>4, <2>5, <2>6
<1> QED
  BY <1>3, <1>4

\* The size of an interval.
LEMMA IntervalSize ==
    ASSUME NEW n \in Nat
    PROVE  IsFiniteSet(1..n) /\ Cardinality(1..n) = n
<1>1. IsFiniteSet(1..n) /\ Cardinality(1..n) = IF 1 > n THEN 0 ELSE n - 1 + 1
  BY FS_Interval
<1> QED
  BY <1>1

\* A sequence without repetitions is as long as it has elements.
LEMMA NoRepetition ==
    ASSUME NEW S, NEW f \in Seq(S), \A i, j \in DOMAIN f : f[i] = f[j] => i = j
    PROVE  Cardinality({f[i] : i \in DOMAIN f}) = Len(f)
<1> DEFINE R == {f[i] : i \in DOMAIN f}
<1>1. Len(f) \in Nat /\ DOMAIN f = 1..Len(f) /\ f = [i \in DOMAIN f |-> f[i]]
  OBVIOUS
<1>2. IsFiniteSet(1..Len(f)) /\ Cardinality(1..Len(f)) = Len(f)
  BY <1>1, IntervalSize
<1>3. f \in [1..Len(f) -> R]
  BY <1>1
<1>4. f \in Injection(1..Len(f), R)
  BY <1>1, <1>3 DEF Injection, IsInjective
<1>5. f \in Surjection(1..Len(f), R)
  BY <1>1, <1>3 DEF Surjection
<1>6. ExistsBijection(1..Len(f), R)
  BY <1>4, <1>5 DEF ExistsBijection, Bijection
<1> QED
  BY <1>2, <1>6, FS_Bijection

\* The invariant implies NodesApart.
LEMMA NodesApartFollows ==
    ASSUME NEW U, NEW H, NEW O, Sound(U, H, O), IndInv
    PROVE  NodesApart
<1> DEFINE T == U[tree.root]
<1>1. ChainsOf(T, O, value, list, free) /\ free \in Seq(Nodes)
  BY SoundTree
<1>2. \A j \in DOMAIN free : O[free[j]] = nil /\ \A k \in DOMAIN free : free[j] = free[k] => j = k
  BY <1>1 DEF ChainsOf, Freed1
<1>3. Cardinality(OnFreeList) = Len(free)
  BY <1>1, <1>2, NoRepetition DEF OnFreeList
<1>4. /\ InTree = T
      /\ \A n \in T : \A m \in Behind(n) : m \in Nodes \ T /\ O[m] = n /\ value[m] = value[n]
      /\ \A m \in Stored : O[m] # nil
  BY StoredIs
<1>5. OnFreeList \cap Stored = {}
  BY <1>2, <1>4 DEF OnFreeList
<1>6. \A n \in InTree :
           /\ Behind(n) \cap InTree = {}
           /\ \A m \in Behind(n) : value[m] = value[n]
           /\ \A k \in InTree \ {n} : Behind(n) \cap Behind(k) = {}
  BY <1>4
<1> QED
  BY <1>3, <1>5, <1>6 DEF NodesApart

\* The invariant implies WalkStaysInTree.
LEMMA WalkFollows ==
    ASSUME NEW U, NEW H, NEW O, Sound(U, H, O), IndInv
    PROVE  WalkStaysInTree
  BY InTreeIs, SoundTree DEF WalkStaysInTree

\* The invariant implies the properties of the runs.
LEMMA SoundImplies ==
    SoundTreeInv => /\ SearchTree /\ RedBlack /\ CacheIsExtreme
                    /\ NodesApart /\ WalkStaysInTree /\ AssertsHold
<1>1. SUFFICES ASSUME IndInv, NEW U, NEW H, NEW O, Sound(U, H, O)
      PROVE  /\ SearchTree /\ RedBlack /\ CacheIsExtreme
             /\ NodesApart /\ WalkStaysInTree /\ AssertsHold
  BY DEF SoundTreeInv
<1>2. AssertsHold
  BY <1>1, SoundTree DEF AssertsHold
<1> QED
  BY <1>1, <1>2, SearchTreeFollows, RedBlackFollows, CacheFollows, NodesApartFollows, WalkFollows

\* Whatever the numbers of nodes and of keys: when no call is running, the links
\* that bst_insert, bst_transplant, the splice of bst_delete and the rotations have
\* left form a search tree in which parents and children agree, so bst_find
\* meets every key.  The caller's cmp has to answer -1, 0 or 1: bst_insert
\* compares its answer with -1.
THEOREM StaysSearchTree ==
    ASSUME CmpMagnitudes = {1}
    PROVE  Spec => []SearchTree
  BY AlwaysSound, SoundImplies, PTL

\* When no call is running, bst_fixup_insert and bst_fixup_delete have restored
\* the red-black rules, in trees of any size and in every case of the fixups: the
\* root is black, no red node has a red child, and there is one black depth.
THEOREM StaysRedBlack ==
    ASSUME CmpMagnitudes = {1}
    PROVE  Spec => []RedBlack
  BY AlwaysSound, SoundImplies, PTL

\* When no call is running, cache.smallest and cache.largest name the nodes with
\* the extreme keys, although bst_update_cache_insert and bst_update_cache_delete
\* look only at one child and the parent of a node, after the fixup's rotations.
THEOREM CacheStaysExtreme ==
    ASSUME CmpMagnitudes = {1}
    PROVE  Spec => []CacheIsExtreme
  BY AlwaysSound, SoundImplies, PTL

\* In every state, also within a call: no node is on the free list twice, or on
\* it and linked or chained, or chained behind two linked nodes, or behind one
\* with another key; also when jfs_bst_puts attaches to a node that
\* cache.previous still names after its removal.
THEOREM NodesStayApart ==
    ASSUME CmpMagnitudes = {1}
    PROVE  Spec => []NodesApart
  BY AlwaysSound, SoundImplies, PTL

\* The loops of bst_find, of both fixups, of the search for the successor and of the
\* new extreme never stand on a node that is not linked.
THEOREM WalksStayInTree ==
    ASSUME CmpMagnitudes = {1}
    PROVE  Spec => []WalkStaysInTree
  BY AlwaysSound, SoundImplies, PTL

\* The asserts on the shape of the tree never fail: those of the rotations, of
\* bst_transplant, bst_insert, bst_fixup_insert (the grandparent is there),
\* bst_detach_and_delete and, on an extreme without outer child, of
\* bst_update_cache_delete.  The one left out is assert(node == tree->root) of
\* line 302, which fails whenever the last node has been removed.
THEOREM AssertsAlwaysHold ==
    ASSUME CmpMagnitudes = {1}
    PROVE  Spec => []AssertsHold
  BY AlwaysSound, SoundImplies, PTL

-----------------------------------------------------------------------------
(* What is stored, as the least set that contains the tree and its chains *)

\* C contains T and whatever its nodes link to.
Grown(C, T, l) == T \subseteq C /\ \A m \in C : l[m] # NULL => l[m] \in C

\* S is the least such set.
IsStored(S, T, l) ==
    /\ S \in SUBSET Nodes /\ Grown(S, T, l)
    /\ \A C \in SUBSET Nodes : Grown(C, T, l) => S \subseteq C

\* There is only one.
LEMMA StoredUnique ==
    ASSUME NEW S, NEW R, NEW T, NEW l, IsStored(S, T, l), IsStored(R, T, l)
    PROVE  S = R
<1>1. S \subseteq R
  BY DEF IsStored
<1>2. R \subseteq S
  BY DEF IsStored
<1> QED
  BY <1>1, <1>2

\* Links of nodes that are not stored do not matter.
LEMMA StoredSame ==
    ASSUME NEW S, NEW T, NEW l, NEW l2, IsStored(S, T, l), \A m \in S : l2[m] = l[m]
    PROVE  IsStored(S, T, l2)
<1>1. Grown(S, T, l2)
  BY DEF IsStored, Grown
<1>2. ASSUME NEW C \in SUBSET Nodes, Grown(C, T, l2) PROVE S \subseteq C
  <2>1. Grown(C \cap S, T, l)
    BY <1>2 DEF IsStored, Grown
  <2>2. S \subseteq C \cap S
    BY <2>1 DEF IsStored
  <2> QED
    BY <2>2
<1> QED
  BY <1>1, <1>2 DEF IsStored

\* A node without a chain joins the tree.
LEMMA StoredLink ==
    ASSUME NEW S, NEW T, NEW l, IsStored(S, T, l), NEW n \in Nodes, l[n] = NULL
    PROVE  IsStored(S \cup {n}, T \cup {n}, l)
<1>1. Grown(S \cup {n}, T \cup {n}, l)
  BY DEF IsStored, Grown
<1>2. ASSUME NEW C \in SUBSET Nodes, Grown(C, T \cup {n}, l) PROVE S \cup {n} \subseteq C
  <2>1. Grown(C, T, l)
    BY <1>2 DEF Grown
  <2> QED
    BY <1>2, <2>1 DEF IsStored, Grown
<1> QED
  BY <1>1, <1>2 DEF IsStored

\* A node without a chain, to which nothing links, leaves the tree.
LEMMA StoredUnlink ==
    ASSUME NEW S, NEW T, NEW l, IsStored(S, T, l), NEW n \in T, l[n] = NULL, n # NULL,
           \A m \in S : l[m] # n
    PROVE  IsStored(S \ {n}, T \ {n}, l)
<1>1. Grown(S \ {n}, T \ {n}, l)
  BY DEF IsStored, Grown
<1>2. ASSUME NEW C \in SUBSET Nodes, Grown(C, T \ {n}, l) PROVE S \ {n} \subseteq C
  <2>1. Grown(C \cup {n}, T, l) /\ C \cup {n} \in SUBSET Nodes
    BY <1>2 DEF IsStored, Grown
  <2>2. S \subseteq C \cup {n}
    BY <2>1 DEF IsStored
  <2> QED
    BY <2>2
<1> QED
  BY <1>1, <1>2 DEF IsStored

\* attach behind a stored node, of the tree or of a chain, stores the new one.
LEMMA StoredAttach ==
    ASSUME NEW S, NEW T, NEW l \in Lists, IsStored(S, T, l), NEW b \in S, NEW n \in Nodes \ S
    PROVE  IsStored(S \cup {n}, T, attach(l, b, n))
<1> DEFINE l2 == attach(l, b, n)
<1>1. b \in Nodes /\ b # n /\ n # NULL
  BY NodesAssumption DEF IsStored
<1>2. l2[b] = n /\ l2[n] = l[b] /\ \A m \in Nodes \ {b, n} : l2[m] = l[m]
  BY <1>1 DEF attach, Lists
<1> HIDE DEF l2
<1>3. Grown(S \cup {n}, T, l2)
  BY <1>1, <1>2 DEF IsStored, Grown
<1>4. ASSUME NEW C \in SUBSET Nodes, Grown(C, T, l2) PROVE S \cup {n} \subseteq C
  <2>1. ASSUME NEW m \in C \cap S, l[m] # NULL PROVE l[m] \in C \cap S
    <3>1. l[m] \in S
      BY <2>1 DEF IsStored, Grown
    <3>2. CASE m = b
      <4>1. n \in C
        BY <1>1, <1>2, <1>4, <3>2 DEF Grown
      <4>2. l[b] \in C
        BY <1>2, <1>4, <2>1, <3>2, <4>1 DEF Grown
      <4> QED
        BY <3>1, <3>2, <4>2
    <3>3. CASE m # b
      <4>1. m \in Nodes \ {b, n}
        BY <3>3 DEF IsStored
      <4>2. l2[m] = l[m]
        BY <1>2, <4>1
      <4>3. l[m] \in C
        BY <1>4, <2>1, <4>2 DEF Grown
      <4> QED
        BY <3>1, <4>3
    <3> QED
      BY <3>2, <3>3
  <2>2. T \subseteq C \cap S
    BY <1>4 DEF IsStored, Grown
  <2>3. S \subseteq C \cap S
    BY <2>1, <2>2 DEF IsStored, Grown
  <2>4. n \in C
    BY <1>1, <1>2, <1>4, <2>3 DEF Grown
  <2> QED
    BY <2>3, <2>4
<1>5. S \cup {n} \in SUBSET Nodes
  BY DEF IsStored
<1> QED
  BY <1>3, <1>4, <1>5 DEF IsStored, l2

\* l2 is l after detach has taken d from behind b and the link of d is cleared.
Detached(l2, l, b, d) == l2 = [[l EXCEPT ![b] = l[d]] EXCEPT ![d] = NULL]

\* detach and the cleared link of the node that is freed.
LEMMA StoredDetach ==
    ASSUME NEW S, NEW T, NEW l \in Lists, IsStored(S, T, l), NEW b \in T, NEW d, d = l[b], d # NULL,
           d \notin T, \A m \in S : l[m] = d => m = b,
           NEW l2, Detached(l2, l, b, d)
    PROVE  d \in S /\ IsStored(S \ {d}, T, l2)
<1>1. d \in S /\ b \in S /\ b # d /\ S \in SUBSET Nodes /\ T \subseteq S
  BY DEF IsStored, Grown
<1>2. l2[b] = l[d] /\ l2[d] = NULL /\ \A m \in Nodes \ {b, d} : l2[m] = l[m]
  BY <1>1 DEF Lists, Detached
<1>3. l[d] # d
  BY <1>1
<1>4. ASSUME NEW m \in S \ {d}, l2[m] # NULL PROVE l2[m] \in S \ {d}
  <2>1. CASE m = b
    BY <1>1, <1>2, <1>3, <1>4, <2>1 DEF IsStored, Grown
  <2>2. CASE m # b
    <3>1. l2[m] = l[m]
      BY <1>1, <1>2, <2>2
    <3> QED
      BY <1>4, <2>2, <3>1 DEF IsStored, Grown
  <2> QED
    BY <2>1, <2>2
<1>5. Grown(S \ {d}, T, l2)
  BY <1>1, <1>4 DEF Grown
<1>6. ASSUME NEW C \in SUBSET Nodes, Grown(C, T, l2) PROVE S \ {d} \subseteq C
  <2>1. C \cup {d} \in SUBSET Nodes /\ T \subseteq C \cup {d}
    BY <1>1, <1>6 DEF Grown
  <2>2. ASSUME NEW m \in C \cup {d}, l[m] # NULL PROVE l[m] \in C \cup {d}
    <3>1. CASE m = b
      BY <3>1
    <3>2. CASE m = d
      <4>1. b \in C
        BY <1>6 DEF Grown
      <4> QED
        BY <1>2, <1>6, <2>2, <3>2, <4>1 DEF Grown
    <3>3. CASE m # b /\ m # d
      <4>1. m \in C /\ l2[m] = l[m]
        BY <1>2, <2>1, <3>3
      <4> QED
        BY <1>6, <2>2, <4>1 DEF Grown
    <3> QED
      BY <3>1, <3>2, <3>3
  <2>3. S \subseteq C \cup {d}
    BY <2>1, <2>2 DEF IsStored, Grown
  <2> QED
    BY <2>3
<1> QED
  BY <1>1, <1>5, <1>6 DEF IsStored

\* What is chained behind n by the links l: the least set with the node n links to.
ChainSet(C, n, l) == (l[n] # NULL => l[n] \in C) /\ \A m \in C : l[m] # NULL => l[m] \in C

\* After as many steps as there are nodes, a chain does not grow any more.
LEMMA ChainLeast ==
    ASSUME NEW l \in Lists, NEW n \in Nodes, NEW d, IsChain(d, l, n, Cardinality(Nodes)),
           NEW B, B = d[Cardinality(Nodes)]
    PROVE  /\ B \in SUBSET Nodes /\ ChainSet(B, n, l)
           /\ \A C \in SUBSET Nodes : ChainSet(C, n, l) => B \subseteq C
<1> DEFINE N == Cardinality(Nodes)
           Still(C) == \A m \in C : l[m] # NULL => l[m] \in C
           P(i) == /\ d[i] \in SUBSET Nodes /\ (l[n] # NULL => l[n] \in d[i])
                   /\ Still(d[i]) \/ Cardinality(d[i]) > i
                   /\ \A C \in SUBSET Nodes : ChainSet(C, n, l) => d[i] \subseteq C
           Bad == {i \in 0..N : ~P(i)}
<1>1. N \in Nat /\ IsFiniteSet(Nodes)
  BY NodesAssumption, FS_CardinalityType
<1>2. /\ d[0] = {l[n]} \ {NULL}
      /\ \A i \in 1..N : d[i] = Further(l, d[i-1])
  BY <1>1 DEF IsChain, Further
<1>3. P(0)
  <2>1. l[n] # NULL => l[n] \in Nodes
    BY DEF Lists
  <2>2. d[0] \in SUBSET Nodes /\ (l[n] # NULL => l[n] \in d[0])
    BY <1>2, <2>1
  <2>3. \A C \in SUBSET Nodes : ChainSet(C, n, l) => d[0] \subseteq C
    BY <1>2 DEF ChainSet
  <2>4. Still(d[0]) \/ Cardinality(d[0]) > 0
    <3>1. CASE l[n] = NULL
      BY <1>2, <3>1
    <3>2. CASE l[n] # NULL
      <4>1. d[0] = {l[n]}
        BY <1>2, <3>2
      <4>2. Cardinality({l[n]}) = 1
        BY FS_Singleton
      <4> QED
        BY <4>1, <4>2
    <3> QED
      BY <3>1, <3>2
  <2> QED
    BY <2>2, <2>3, <2>4
<1>4. ASSUME NEW i \in 1..N, P(i-1) PROVE P(i)
  <2> DEFINE D == d[i-1]
             E == d[i]
  <2>1. E = Further(l, D) /\ i - 1 \in Nat
    BY <1>2
  <2>2. /\ D \in SUBSET Nodes /\ (l[n] # NULL => l[n] \in D)
        /\ Still(D) \/ Cardinality(D) > i - 1
        /\ \A C \in SUBSET Nodes : ChainSet(C, n, l) => D \subseteq C
    BY <1>4
  <2> HIDE DEF D, E
  <2>3. E \in SUBSET Nodes /\ D \subseteq E /\ (l[n] # NULL => l[n] \in E)
    <3>1. \A m \in D : l[m] # NULL => l[m] \in Nodes
      BY <2>2 DEF Lists
    <3> QED
      BY <2>1, <2>2, <3>1 DEF Further
  <2>4. \A C \in SUBSET Nodes : ChainSet(C, n, l) => E \subseteq C
    BY <2>1, <2>2 DEF ChainSet, Further
  <2>5. Still(E) \/ Cardinality(E) > i
    <3>1. CASE Still(D)
      <4>1. E = D
        BY <2>1, <3>1 DEF Further
      <4> QED
        BY <3>1, <4>1
    <3>2. CASE ~Still(D)
      <4>1. E # D
        BY <2>1, <3>2 DEF Further
      <4>2. IsFiniteSet(E) /\ IsFiniteSet(D)
        BY <1>1, <2>2, <2>3, FS_Subset
      <4>3. Cardinality(D) <= Cardinality(E) /\ Cardinality(D) # Cardinality(E)
        BY <2>3, <4>1, <4>2, FS_Subset
      <4>4. Cardinality(D) \in Nat /\ Cardinality(E) \in Nat
        BY <4>2, FS_CardinalityType
      <4>5. Cardinality(D) > i - 1
        BY <2>2, <3>2
      <4> HIDE DEF Still
      <4> QED
        BY <2>1, <4>3, <4>4, <4>5
    <3> QED
      BY <3>1, <3>2
  <2> QED
    BY <2>3, <2>4, <2>5 DEF E
<1> HIDE DEF P
<1>5. P(N)
  <2>1. SUFFICES ASSUME Bad # {} PROVE FALSE
    BY <1>1
  <2>2. PICK i \in Bad : \A j \in Bad : ~(j < i)
    <3>1. Bad \subseteq Nat
      BY <1>1
    <3> HIDE DEF Bad
    <3> QED
      BY <2>1, <3>1, LeastNat
  <2>3. i \in 0..N /\ ~P(i)
    OBVIOUS
  <2>4. i # 0
    BY <1>3, <2>3
  <2>5. i \in 1..N /\ i - 1 \in 0..N /\ i - 1 < i
    BY <1>1, <2>3, <2>4
  <2>6. P(i-1)
    BY <2>2, <2>5
  <2> QED
    BY <1>4, <2>3, <2>5, <2>6
<1>6. /\ B \in SUBSET Nodes /\ (l[n] # NULL => l[n] \in B) /\ (Still(B) \/ Cardinality(B) > N)
      /\ \A C \in SUBSET Nodes : ChainSet(C, n, l) => B \subseteq C
  BY <1>5 DEF P
<1>7. Cardinality(B) <= N /\ Cardinality(B) \in Nat
  BY <1>1, <1>6, FS_Subset, FS_CardinalityType
<1>8. Still(B)
  <2> HIDE DEF Still
  <2> QED
    BY <1>1, <1>6, <1>7
<1> QED
  BY <1>6, <1>8 DEF ChainSet

\* What the properties call Stored is that least set.
LEMMA StoredLeast ==
    ASSUME InTree \in SUBSET Nodes, list \in Lists
    PROVE  IsStored(Stored, InTree, list)
<1>1. ASSUME NEW n \in Nodes
      PROVE  /\ Behind(n) \in SUBSET Nodes /\ ChainSet(Behind(n), n, list)
             /\ \A C \in SUBSET Nodes : ChainSet(C, n, list) => Behind(n) \subseteq C
  <2> DEFINE N == Cardinality(Nodes)
             chain == CHOOSE d : IsChain(d, list, n, N)
  <2>1. N \in Nat
    BY NodesAssumption, FS_CardinalityType
  <2>2. Behind(n) = chain[N]
    BY DEF Behind, IsChain
  <2>3. IsChain(chain, list, n, N)
    BY <2>1, ChainExists
  <2> HIDE DEF chain
  <2> QED
    BY <2>2, <2>3, ChainLeast
<1>2. Stored = InTree \cup UNION {Behind(n) : n \in InTree}
  BY DEF Stored, Chained
<1>3. Stored \in SUBSET Nodes
  BY <1>1, <1>2
<1>4. Grown(Stored, InTree, list)
  BY <1>1, <1>2 DEF Grown, ChainSet
<1>5. ASSUME NEW C \in SUBSET Nodes, Grown(C, InTree, list) PROVE Stored \subseteq C
  <2>1. \A n \in InTree : Behind(n) \subseteq C
    BY <1>1, <1>5 DEF Grown, ChainSet
  <2> QED
    BY <1>2, <1>5, <2>1 DEF Grown
<1> QED
  BY <1>3, <1>4, <1>5 DEF IsStored

\* In every state of the invariant.
LEMMA StoredExact ==
    \A U, H, O : Sound(U, H, O) /\ IndInv => IsStored(Stored, U[tree.root], list)
<1> SUFFICES ASSUME NEW U, NEW H, NEW O, Sound(U, H, O), IndInv
             PROVE  IsStored(Stored, U[tree.root], list)
  OBVIOUS
<1>1. InTree = U[tree.root]
  BY InTreeIs
<1>2. U[tree.root] \in SUBSET Nodes /\ list \in Lists
  BY SoundTree
<1> QED
  BY <1>1, <1>2, StoredLeast

\* And in the next one.
LEMMA StoredNext ==
    ASSUME NEW W, NEW K, NEW P, Sound(W, K, P)', IndInv', NEW S, IsStored(S, W[tree'.root], list')
    PROVE  Stored' = S
<1>1. (\A U, H, O : Sound(U, H, O) /\ IndInv => IsStored(Stored, U[tree.root], list))'
  BY StoredExact, PTL
<1>2. IsStored(Stored', W[tree'.root], list')
  BY <1>1
<1> QED
  BY <1>2, StoredUnique

\* A stored node has an owner, so it is not free; nodes of the tree are not chained,
\* and no two nodes link to the same.
LEMMA StoredFacts ==
    ASSUME NEW U, NEW H, NEW O, Sound(U, H, O), IndInv
    PROVE  /\ IsStored(Stored, U[tree.root], list)
           /\ U[tree.root] \subseteq Stored /\ Stored \in SUBSET Nodes
           /\ \A m \in Stored : O[m] # nil
           /\ \A m \in Stored : list[m] # NULL => list[m] \notin U[tree.root]
           /\ \A m, k \in Stored : list[m] # NULL /\ list[k] = list[m] => k = m
           /\ \A j \in DOMAIN free : free[j] \notin Stored
<1>1. IsStored(Stored, U[tree.root], list)
  BY StoredExact
<1>2. U[tree.root] \subseteq Stored /\ Stored \in SUBSET Nodes
  BY <1>1 DEF IsStored, Grown
<1>3. \A m \in Stored : O[m] # nil
  BY StoredIs
<1>4. ChainsOf(U[tree.root], O, value, list, free)
  BY SoundTree
<1>5. \A m \in Stored : Chained1(U[tree.root], O, value, list, m)
  BY <1>2, <1>4 DEF ChainsOf
<1>6. \A m \in Stored : list[m] # NULL => list[m] \notin U[tree.root]
  BY <1>3, <1>5 DEF Chained1
<1>7. \A m, k \in Stored : list[m] # NULL /\ list[k] = list[m] => k = m
  BY <1>2, <1>3, <1>5 DEF Chained1
<1>8. \A j \in DOMAIN free : free[j] \notin Stored
  BY <1>3, <1>4 DEF ChainsOf, Freed1
<1> QED
  BY <1>1, <1>2, <1>3, <1>6, <1>7, <1>8

\* Nodes of the tree own themselves: with the same owners the tree has the same nodes.
LEMMA SameOwners ==
    ASSUME NEW U, NEW H, NEW O, Sound(U, H, O), IndInv, NEW W, NEW K, Sound(W, K, O)', IndInv'
    PROVE  W[tree'.root] = U[tree.root]
<1>1. ASSUME NEW T, NEW v, NEW l, NEW f, ChainsOf(T, O, v, l, f), T \in SUBSET Nodes
      PROVE  T = {n \in Nodes : O[n] = n}
  BY <1>1, NodesAssumption DEF ChainsOf
<1>2. ChainsOf(U[tree.root], O, value, list, free) /\ U[tree.root] \in SUBSET Nodes
  BY SoundTree
<1>3. ChainsOf(W[tree'.root], O, value', list', free')
  BY DEF Sound, Chains
<1>4. Shape(tree', W) /\ tree' \in Tree
  BY DEF Sound, IndInv, TypeOK
<1>5. W[tree'.root] \in SUBSET Nodes
  BY <1>4 DEF Shape, Tree
<1> QED
  BY <1>1, <1>2, <1>3, <1>5

\* A step that keeps the nodes of the tree and the links of what is stored.
LEMMA QuietStored ==
    ASSUME NEW U, NEW H, NEW O, Sound(U, H, O), IndInv, NEW W, NEW K, NEW P, Sound(W, K, P)', IndInv',
           W[tree'.root] = U[tree.root], \A m \in Stored : list'[m] = list[m]
    PROVE  Stored' = Stored
<1>1. IsStored(Stored, U[tree.root], list')
  BY StoredFacts, StoredSame
<1> QED
  BY <1>1, StoredNext

-----------------------------------------------------------------------------
(* What the steps do to what is stored *)

\* The same values are stored.
Kept == Stored' = Stored /\ \A m \in Stored : value'[m] = value[m]

\* One with key k more, in node n.
Gained(n, k) ==
    /\ n \in Nodes \ Stored /\ Stored' = Stored \cup {n} /\ value'[n] = k
    /\ \A m \in Stored : value'[m] = value[m]

\* One less, the one in node n.
Removed(n) ==
    /\ n \in Stored /\ Stored' = Stored \ {n}
    /\ \A m \in Stored : value'[m] = value[m]

\* The steps that move nothing: they walk, rotate and recolor, or return.
QuietStep ==
    \/ bst_find_step \/ bst_fixup_insert_recolor \/ bst_fixup_insert_rotate \/ puts_done
    \/ takes_bad_key \/ bst_delete_minimum_step
    \/ bst_fixup_delete_recolor \/ bst_fixup_delete_rotate \/ bst_fixup_delete_done
    \/ \E s \in Side : update_cache_descend(s) \/ (update_cache_walk(s) /\ pc' # "idle")

\* The steps that free the node that has been unlinked.
FreeingStep ==
    \/ update_cache_last \/ update_cache_inner
    \/ \E s \in Side : update_cache_parent(s) \/ (update_cache_walk(s) /\ pc' = "idle")

\* Links of stored nodes and owners stay.
LEMMA KeptOwners ==
    ASSUME NEW U, NEW H, NEW O, Sound(U, H, O), IndInv, NEW W, NEW K, Sound(W, K, O)', IndInv',
           \A m \in Stored : list'[m] = list[m], value' = value
    PROVE  Kept
<1>1. W[tree'.root] = U[tree.root]
  BY SameOwners
<1>2. Stored' = Stored
  BY <1>1, QuietStored
<1> QED
  BY <1>2 DEF Kept

\* A quiet step.
LEMMA QuietEffect ==
    ASSUME NEW U, NEW H, NEW O, Sound(U, H, O), IndInv, IndInv', CmpMagnitudes = {1}, QuietStep
    PROVE  Kept /\ UNCHANGED <<value, list, free>>
<1>1. UNCHANGED <<value, list, free>>
  <2>1. ASSUME NEW s \in Side, update_cache_walk(s), pc' # "idle" PROVE UNCHANGED <<value, list, free>>
    BY <2>1 DEF update_cache_walk, FreeAndReturn, Return
  <2>2. ASSUME NEW s \in Side, update_cache_descend(s) PROVE UNCHANGED <<value, list, free>>
    BY <2>2, Zenon DEF update_cache_descend
  <2>3. CASE bst_fixup_insert_recolor \/ bst_fixup_insert_rotate \/ bst_fixup_delete_recolor \/ bst_fixup_delete_rotate
    BY <2>3, Zenon DEF bst_fixup_insert_recolor, bst_fixup_insert_rotate, bst_fixup_delete_recolor, bst_fixup_delete_rotate
  <2>4. CASE bst_find_step \/ puts_done \/ takes_bad_key \/ bst_delete_minimum_step \/ bst_fixup_delete_done
    BY <2>4 DEF bst_find_step, puts_done, takes_bad_key, bst_delete_minimum_step, bst_fixup_delete_done
  <2> QED
    BY <2>1, <2>2, <2>3, <2>4 DEF QuietStep
<1>2. \E W, K : Sound(W, K, O)'
  <2>1. CASE bst_find_step
    BY <2>1, FindSound
  <2>2. CASE bst_fixup_insert_recolor
    BY <2>2, RecolorSound
  <2>3. CASE bst_fixup_insert_rotate
    BY <2>3, RotateInsertSound
  <2>4. CASE puts_done
    BY <2>4, PutsDoneSound
  <2>5. CASE takes_bad_key
    BY <2>5, BadKeySound
  <2>6. CASE bst_delete_minimum_step
    BY <2>6, MinimumStepSound
  <2>7. CASE bst_fixup_delete_recolor
    BY <2>7, DeleteRecolorSound
  <2>8. CASE bst_fixup_delete_rotate
    BY <2>8, DeleteRotateSound
  <2>9. CASE bst_fixup_delete_done
    BY <2>9, DeleteDoneSound
  <2>10. ASSUME NEW s \in Side, update_cache_descend(s) PROVE \E W, K : Sound(W, K, O)'
    BY <2>10, CacheDescendSound
  <2>11. ASSUME NEW s \in Side, update_cache_walk(s) PROVE \E W, K : Sound(W, K, O)'
    BY <2>11, CacheWalkSound
  <2> QED
    BY <2>1, <2>2, <2>3, <2>4, <2>5, <2>6, <2>7, <2>8, <2>9, <2>10, <2>11 DEF QuietStep
<1> QED
  BY <1>1, <1>2, KeptOwners

\* A step that frees the node that has been unlinked.
LEMMA FreeingEffect ==
    ASSUME NEW U, NEW H, NEW O, Sound(U, H, O), IndInv, IndInv', FreeingStep
    PROVE  /\ Kept /\ value' = value
           /\ op.node \in Nodes \ Stored /\ free' = <<op.node>> \o free
           /\ pc \in {"update_cache", "smallest", "largest"} /\ Return("OK", ret.out)
<1>1. ASSUME NEW s \in Side, update_cache_walk(s), pc' = "idle"
      PROVE  \E t : FreeAndReturn(t) /\ value' = value /\ pc \in {"smallest", "largest"}
  BY <1>1 DEF update_cache_walk, Extreme
<1>2. ASSUME NEW s \in Side, update_cache_parent(s)
      PROVE  \E t : FreeAndReturn(t) /\ value' = value /\ pc = "update_cache"
  BY <1>2, Zenon DEF update_cache_parent, RemovedExtreme
<1>3. update_cache_last \/ update_cache_inner
         => \E t : FreeAndReturn(t) /\ value' = value /\ pc = "update_cache"
  BY Zenon DEF update_cache_last, update_cache_inner
<1>4. \E t : FreeAndReturn(t) /\ value' = value /\ pc \in {"update_cache", "smallest", "largest"}
  BY <1>1, <1>2, <1>3 DEF FreeingStep
<1>5. /\ free' = <<op.node>> \o free /\ list' = [list EXCEPT ![op.node] = NULL] /\ value' = value
      /\ pc \in {"update_cache", "smallest", "largest"} /\ Return("OK", ret.out)
  BY <1>4 DEF FreeAndReturn, jfs_fl_free
<1>6. CacheStale(U[tree.root], O)
  BY <1>5 DEF Sound
<1>7. op.node \in Nodes /\ O[op.node] = nil
  BY <1>6 DEF CacheStale
<1>8. op.node \notin Stored /\ Stored \in SUBSET Nodes /\ list \in Lists
  BY <1>7, StoredFacts, SoundTree
<1>9. \A m \in Stored : list'[m] = list[m]
  BY <1>5, <1>8 DEF Lists
<1>10. Sound(U, H, O)'
  <2>1. CASE update_cache_last
    BY <2>1, CacheLastSound
  <2>2. CASE update_cache_inner
    BY <2>2, CacheInnerSound
  <2>3. ASSUME NEW s \in Side, update_cache_parent(s) PROVE Sound(U, H, O)'
    BY <2>3, CacheParentSound
  <2>4. ASSUME NEW s \in Side, update_cache_walk(s) PROVE Sound(U, H, O)'
    BY <2>4, CacheWalkSound
  <2> QED
    BY <2>1, <2>2, <2>3, <2>4 DEF FreeingStep
<1>11. Kept
  BY <1>5, <1>9, <1>10, KeptOwners
<1> QED
  BY <1>5, <1>7, <1>8, <1>11

\* bst_insert links the node of the call.
LEMMA InsertEffect ==
    ASSUME NEW U, NEW H, NEW O, Sound(U, H, O), IndInv, IndInv', bst_insert
    PROVE  Gained(op.node, op.key) /\ UNCHANGED <<value, free>>
<1>1. pc = "find" /\ op.fn = "puts" /\ UNCHANGED <<value, list, free>>
  BY DEF bst_insert, NotFound
<1>2. Allocated(O)
  BY <1>1 DEF Sound
<1>3. op.node \in Nodes /\ O[op.node] = nil /\ list[op.node] = NULL /\ value[op.node] = op.key
  BY <1>2 DEF Allocated
<1>4. PICK W, K, P : Sound(W, K, P)' /\ W[tree'.root] = U[tree.root] \cup {op.node}
  BY InsertSound
<1>5. IsStored(Stored, U[tree.root], list) /\ op.node \notin Stored
  BY <1>3, StoredFacts
<1>6. IsStored(Stored \cup {op.node}, W[tree'.root], list')
  BY <1>1, <1>3, <1>4, <1>5, StoredLink
<1>7. Stored' = Stored \cup {op.node}
  BY <1>4, <1>6, StoredNext
<1> QED
  BY <1>1, <1>3, <1>5, <1>7 DEF Gained

\* attach stores the node behind one that is stored.
LEMMA AttachEffect ==
    ASSUME NEW U, NEW H, NEW O, Sound(U, H, O), IndInv, IndInv', NEW P, Sound(U, H, P)', tree' = tree,
           NEW b \in Stored, NEW n \in Nodes \ Stored,
           NEW l \in Lists, \A m \in Stored : l[m] = list[m], list' = attach(l, b, n)
    PROVE  Stored' = Stored \cup {n}
<1>1. IsStored(Stored, U[tree.root], list)
  BY StoredFacts
<1>2. IsStored(Stored, U[tree.root], l)
  BY <1>1, StoredSame
<1>3. IsStored(Stored \cup {n}, U[tree'.root], list')
  BY <1>2, StoredAttach
<1> QED
  BY <1>3, StoredNext

\* jfs_bst_puts of a key that is linked.
LEMMA DuplicateEffect ==
    ASSUME NEW U, NEW H, NEW O, Sound(U, H, O), IndInv, IndInv', puts_duplicate
    PROVE  Gained(op.node, op.key) /\ UNCHANGED <<value, free>>
<1>1. /\ pc = "find" /\ op.fn = "puts" /\ loc.node # nil
      /\ list' = attach(list, loc.node, op.node) /\ UNCHANGED <<tree, value, free>>
  BY DEF puts_duplicate, Found
<1>2. Allocated(O)
  BY <1>1 DEF Sound
<1>3. op.node \in Nodes /\ O[op.node] = nil /\ value[op.node] = op.key
  BY <1>2 DEF Allocated
<1>4. PICK P : Sound(U, H, P)'
  BY DuplicateSound
<1>5. op.node \notin Stored /\ loc.node \in Stored /\ list \in Lists
  BY <1>1, <1>3, StoredFacts, SoundTree
<1>6. Stored' = Stored \cup {op.node}
  BY <1>1, <1>3, <1>4, <1>5, AttachEffect
<1> QED
  BY <1>1, <1>3, <1>5, <1>6 DEF Gained

\* The node jfs_bst_puts takes from the free list.
LEMMA HeadFree ==
    ASSUME NEW U, NEW H, NEW O, Sound(U, H, O), IndInv, free # <<>>
    PROVE  Head(free) \in Nodes \ Stored
<1>1. free \in Seq(Nodes) /\ \A j \in DOMAIN free : free[j] \notin Stored
  BY StoredFacts, SoundTree
<1> QED
  BY <1>1

\* The extremes that the cache names between calls are stored.
LEMMA CacheStored ==
    ASSUME NEW U, NEW H, NEW O, Sound(U, H, O), IndInv, pc = "idle"
    PROVE  {cache.smallest, cache.largest} \subseteq Stored \cup {nil}
<1>1. CacheHolds(cache, U[tree.root], value)
  BY DEF Sound, CacheOK
<1>2. \A s \in Side : cache[Extreme(s)] \in U[tree.root] \cup {nil}
  BY <1>1 DEF CacheHolds, Outermost
<1>3. cache.smallest \in U[tree.root] \cup {nil} /\ cache.largest \in U[tree.root] \cup {nil}
  BY <1>2, Sides DEF Extreme
<1> QED
  BY <1>3, StoredFacts

\* What jfs_bst_puts finds in the cache is stored, unless it is cache.previous.
LEMMA CheckCacheStored ==
    ASSUME NEW U, NEW H, NEW O, Sound(U, H, O), IndInv, pc = "idle", NEW val, NEW key,
           NEW c, c = bst_check_cache(val, key), c # nil
    PROVE  c \in Nodes /\ val[c] = key /\ (c \in Stored \/ c = cache.previous)
<1>1. c \in {cache.previous, cache.smallest, cache.largest}
  BY DEF bst_check_cache
<1>2. c \in Node
  BY <1>1, SoundTree DEF Cache
<1> QED
  BY <1>1, <1>2, CacheStored, CheckCache, NotNil

\* jfs_bst_puts, up to bst_find or to the end.
LEMMA PutsEffect ==
    ASSUME NEW U, NEW H, NEW O, Sound(U, H, O), IndInv, IndInv', NEW key \in Keys, jfs_bst_puts(key),
           free # <<>>, NEW node, node = Head(free), NEW packed, packed = [value EXCEPT ![node] = key],
           NEW cached, cached = bst_check_cache(packed, key)
    PROVE  /\ node \in Nodes \ Stored /\ free' = Tail(free) /\ value' = packed
           /\ cached = nil => Kept /\ StartFind("puts", key, node)
           /\ cached # nil => /\ Return("OK", NULL)
                              /\ cached \in Stored => Gained(node, key)
                              /\ cached \notin Stored => Kept
<1> DEFINE fresh == [list EXCEPT ![node] = NULL]
<1>1. /\ pc = "idle" /\ free' = Tail(free) /\ value' = packed
      /\ IF cached # nil
         THEN list' = attach(fresh, cached, node) /\ Return("OK", NULL) /\ UNCHANGED tree
         ELSE list' = fresh /\ StartFind("puts", key, node)
  BY DEF jfs_bst_puts
<1>2. node \in Nodes \ Stored /\ list \in Lists /\ value \in [Nodes -> Keys \cup {NULL}] /\ Stored \in SUBSET Nodes
  BY HeadFree, SoundTree, StoredFacts
<1>3. fresh \in Lists /\ \A m \in Stored : fresh[m] = list[m]
  BY <1>2 DEF Lists
<1>4. value'[node] = key /\ \A m \in Stored : value'[m] = value[m]
  BY <1>1, <1>2
<1>5. PICK P : Sound(U, H, P)'
  BY PutsSound
<1> HIDE DEF fresh
<1>6. CASE cached = nil
  <2>1. tree' = tree /\ list' = fresh
    BY <1>1, <1>6 DEF StartFind
  <2>2. Stored' = Stored
    BY <1>3, <1>5, <2>1, QuietStored
  <2> QED
    BY <1>1, <1>2, <1>4, <1>6, <2>2 DEF Kept
<1>7. CASE cached # nil
  <2>1. tree' = tree /\ list' = attach(fresh, cached, node)
    BY <1>1, <1>7
  <2>2. cached \in Nodes
    BY <1>1, <1>7, CheckCacheStored
  <2>3. CASE cached \in Stored
    <3>1. Stored' = Stored \cup {node}
      BY <1>2, <1>3, <1>5, <2>1, <2>3, AttachEffect
    <3> QED
      BY <1>1, <1>2, <1>4, <1>7, <2>3, <3>1 DEF Gained
  <2>4. CASE cached \notin Stored
    <3>1. \A m \in Nodes \ {cached, node} : list'[m] = fresh[m]
      BY <1>2, <1>3, <2>1, <2>2 DEF attach, Lists
    <3>2. \A m \in Stored : list'[m] = list[m]
      BY <1>2, <1>3, <2>4, <3>1
    <3>3. Stored' = Stored
      BY <1>5, <2>1, <3>2, QuietStored
    <3> QED
      BY <1>1, <1>2, <1>4, <1>7, <2>4, <3>3 DEF Kept
  <2> QED
    BY <2>3, <2>4
<1> QED
  BY <1>6, <1>7

\* A step that touches neither links nor values.
LEMMA KeptSame ==
    ASSUME UNCHANGED <<tree, value, list>>
    PROVE  Kept
  BY DEF Kept, Stored, Chained, InTree, Below, Behind

\* A node without a chain that leaves the tree.
LEMMA UnlinkStored ==
    ASSUME NEW U, NEW H, NEW O, Sound(U, H, O), IndInv, NEW n \in U[tree.root], list[n] = NULL,
           NEW W, NEW K, NEW P, Sound(W, K, P)', IndInv', W[tree'.root] = U[tree.root] \ {n}, list' = list
    PROVE  n \in Stored /\ Stored' = Stored \ {n}
<1>1. /\ IsStored(Stored, U[tree.root], list) /\ n \in Stored /\ n # NULL
      /\ \A m \in Stored : list[m] # n
  <2>1. n \in Nodes /\ n # NULL
    BY SoundTree, NodesAssumption
  <2> QED
    BY <2>1, StoredFacts
<1>2. IsStored(Stored \ {n}, W[tree'.root], list')
  BY <1>1, StoredUnlink
<1> QED
  BY <1>1, <1>2, StoredNext

\* bst_detach_and_delete.
LEMMA DetachEffect ==
    ASSUME NEW U, NEW H, NEW O, Sound(U, H, O), IndInv, IndInv', NEW n \in U[tree.root], pc \in {"idle", "find"},
           NEW fn, NEW key, bst_detach_and_delete(fn, key, n)
    PROVE  /\ value' = value /\ n \in Stored
           /\ list[n] # NULL => /\ Removed(list[n]) /\ free' = <<list[n]>> \o free
                                /\ value[list[n]] = value[n] /\ Return("OK", value[n])
           /\ list[n] = NULL => /\ free' = free /\ op' = [fn |-> fn, key |-> key, node |-> n]
                                /\ ret' = [err |-> "none", out |-> value[n]]
                                /\ pc' \in {"successor", "fixup_delete", "update_cache"}
                                /\ pc' = "successor" => Kept
                                /\ pc' # "successor" => Removed(n)
<1> DEFINE t == assert(tree, "delete from empty", tree.root # nil)
           d == detach(list, n)
<1>1. /\ UNCHANGED <<value, cache>>
      /\ IF d.node = n
         THEN /\ bst_delete(n, t)
              /\ op' = [fn |-> fn, key |-> key, node |-> n]
              /\ ret' = [err |-> "none", out |-> value[n]]
              /\ loc' = NoLoc
              /\ UNCHANGED <<list, free>>
         ELSE /\ jfs_fl_free(t, d.list, d.node)
              /\ Return("OK", value[d.node])
  BY Zenon DEF bst_detach_and_delete
<1>2. PICK W, K, P : /\ Sound(W, K, P)'
                     /\ W[tree'.root] = IF list[n] = NULL /\ pc' # "successor"
                                        THEN U[tree.root] \ {n} ELSE U[tree.root]
  BY DetachDeleteSound
<1>3. /\ IsStored(Stored, U[tree.root], list) /\ n \in Stored /\ Stored \in SUBSET Nodes /\ n \in Nodes
      /\ list \in Lists
  BY StoredFacts, SoundTree
<1>4. CASE list[n] = NULL
  <2>1. d.node = n
    BY <1>4 DEF detach
  <2>2. /\ op' = [fn |-> fn, key |-> key, node |-> n] /\ ret' = [err |-> "none", out |-> value[n]]
        /\ UNCHANGED <<value, list, free>> /\ bst_delete(n, t)
    BY <1>1, <2>1, Zenon
  <2>3. pc' \in {"successor", "fixup_delete", "update_cache"}
    BY <2>2, Zenon DEF bst_delete, AfterDelete
  <2>4. pc' = "successor" => Kept
    <3>1. SUFFICES ASSUME pc' = "successor" PROVE Kept
      OBVIOUS
    <3>2. W[tree'.root] = U[tree.root]
      BY <1>2, <3>1
    <3>3. Stored' = Stored
      BY <1>2, <2>2, <3>2, QuietStored, Zenon
    <3> QED
      BY <2>2, <3>3, Zenon DEF Kept
  <2>5. pc' # "successor" => Removed(n)
    <3>1. SUFFICES ASSUME pc' # "successor" PROVE Removed(n)
      OBVIOUS
    <3>2. W[tree'.root] = U[tree.root] \ {n}
      BY <1>2, <1>4, <3>1
    <3>3. n \in Stored /\ Stored' = Stored \ {n}
      BY <1>2, <1>4, <2>2, <3>2, UnlinkStored, Zenon
    <3> QED
      BY <2>2, <3>3, Zenon DEF Removed
  <2> QED
    BY <1>3, <1>4, <2>2, <2>3, <2>4, <2>5, Zenon
<1>5. CASE list[n] # NULL
  <2> DEFINE c == list[n]
  <2>1. d.node = c /\ d.list = [list EXCEPT ![n] = list[c]]
    BY <1>5 DEF detach
  <2>2. c # n /\ c \notin U[tree.root] /\ c \in Nodes /\ c # NULL
    BY <1>3, <1>5, StoredFacts DEF Lists
  <2>3. /\ free' = <<c>> \o free /\ list' = [d.list EXCEPT ![c] = NULL] /\ value' = value
        /\ Return("OK", value[c])
    BY <1>1, <2>1, <2>2, Zenon DEF jfs_fl_free
  <2>4. \A m \in Stored : list[m] = c => m = n
    BY <1>3, <1>5, StoredFacts
  <2>5. value[c] = value[n]
    <3>1. ChainsOf(U[tree.root], O, value, list, free) /\ O[n] # nil
      BY <1>3, StoredFacts, SoundTree
    <3>2. O[n] = n /\ Chained1(U[tree.root], O, value, list, n) /\ Chained1(U[tree.root], O, value, list, c)
      BY <1>3, <2>2, <3>1 DEF ChainsOf
    <3>3. O[c] = n
      BY <1>5, <3>1, <3>2 DEF Chained1
    <3>4. n # nil
      BY <1>3, NotNil
    <3> QED
      BY <3>2, <3>3, <3>4 DEF Chained1
  <2> HIDE DEF c
  <2>6. Detached(list', list, n, c)
    BY <2>1, <2>3 DEF Detached
  <2>7. c = list[n]
    BY DEF c
  <2>8. c \in Stored /\ IsStored(Stored \ {c}, U[tree.root], list')
    <3>1. c \notin U[tree.root] /\ c # NULL /\ list \in Lists /\ IsStored(Stored, U[tree.root], list)
      BY <1>3, <2>2
    <3> QED
      BY ONLY <2>4, <2>6, <2>7, <3>1, n \in U[tree.root], StoredDetach
  <2>9. W[tree'.root] = U[tree.root]
    BY <1>2, <1>5
  <2>10. Stored' = Stored \ {c}
    BY <1>2, <2>8, <2>9, StoredNext
  <2> QED
    BY <1>3, <1>5, <2>3, <2>5, <2>7, <2>8, <2>10 DEF Removed
<1> QED
  BY <1>4, <1>5

\* bst_delete_splice unlinks the node of the call.
LEMMA SpliceEffect ==
    ASSUME NEW U, NEW H, NEW O, Sound(U, H, O), IndInv, IndInv', bst_delete_splice
    PROVE  Removed(op.node) /\ UNCHANGED <<value, free, op, ret>>
<1>1. pc = "successor" /\ UNCHANGED <<value, list, free, op, ret>>
  BY Zenon DEF bst_delete_splice
<1>2. SuccessorOK(U[tree.root], U)
  BY <1>1 DEF Sound
<1>3. op.node \in U[tree.root] /\ list[op.node] = NULL
  BY <1>2 DEF SuccessorOK
<1>4. PICK W, K, P : Sound(W, K, P)' /\ W[tree'.root] = U[tree.root] \ {op.node}
  BY DeleteSpliceSound
<1>5. Stored' = Stored \ {op.node} /\ op.node \in Stored
  BY <1>1, <1>3, <1>4, UnlinkStored
<1> QED
  BY <1>1, <1>5 DEF Removed

-----------------------------------------------------------------------------
(* What a running call knows of its own arguments and answer *)

\* Where a call has linked its node, and where it is unlinking one.
PutPlaces  == {"fixup_insert", "insert_done"}
TakePlaces == {"successor", "fixup_delete", "update_cache", "smallest", "largest"}

\* The arguments in op, and the value that has been copied out of the node.
CallInv ==
    /\ pc = "idle" => op = NoOp
    /\ pc = "find" => /\ ret = NoRet /\ op.fn \in {"puts", "takes"} /\ op.key \in Keys
                      /\ op.fn = "takes" => op.node = nil /\ tree.root # nil
    /\ pc \in PutPlaces => ret = NoRet /\ op.fn = "puts" /\ value[op.node] = op.key
    /\ pc \in TakePlaces => /\ op.fn \in {"takes", "get"} /\ ret = [err |-> "none", out |-> value[op.node]]
                            /\ op.fn = "takes" => op.key = value[op.node]
    /\ pc = "successor" => op.fn = "takes"

\* A call that returns.
LEMMA CallReturns ==
    ASSUME NEW err, NEW out, Return(err, out)
    PROVE  CallInv'
  BY DEF Return, CallInv, PutPlaces, TakePlaces

\* A step within the same phase of a call.
LEMMA CallWithin ==
    ASSUME CallInv, UNCHANGED <<op, ret, value>>,
           \/ pc = "find" /\ pc' = "find" /\ tree' = tree
           \/ pc \in PutPlaces /\ pc' \in PutPlaces
           \/ pc \in TakePlaces /\ pc' \in TakePlaces /\ (pc' = "successor" => pc = "successor")
    PROVE  CallInv'
  BY DEF CallInv, PutPlaces, TakePlaces

\* The start of bst_find.
LEMMA CallFinds ==
    ASSUME NEW fn \in {"puts", "takes"}, NEW key \in Keys, NEW node, StartFind(fn, key, node),
           fn = "takes" => node = nil /\ tree.root # nil
    PROVE  CallInv'
<1>1. pc' = "find" /\ ret' = NoRet /\ op'.fn = fn /\ op'.key = key /\ op'.node = node /\ tree' = tree
  BY DEF StartFind
<1> QED
  BY <1>1 DEF CallInv, PutPlaces, TakePlaces

\* bst_detach_and_delete copies the value out; for an extreme it needs no successor.
LEMMA CallDetaches ==
    ASSUME NEW U, NEW H, NEW O, Sound(U, H, O), IndInv, IndInv', NEW n \in U[tree.root], pc \in {"idle", "find"},
           NEW fn \in {"takes", "get"}, NEW key, bst_detach_and_delete(fn, key, n),
           fn = "takes" => key = value[n],
           fn = "get" => tree.child[n]["left"] = nil \/ tree.child[n]["right"] = nil
    PROVE  CallInv'
<1>1. CASE list[n] # NULL
  BY <1>1, DetachEffect, CallReturns
<1>2. CASE list[n] = NULL
  <2>1. /\ value' = value /\ op' = [fn |-> fn, key |-> key, node |-> n]
        /\ ret' = [err |-> "none", out |-> value[n]]
        /\ pc' \in {"successor", "fixup_delete", "update_cache"}
    BY <1>2, DetachEffect
  <2>2. op'.fn = fn /\ op'.key = key /\ op'.node = n
    BY <2>1
  <2>3. pc' = "successor" => fn = "takes"
    <3>1. bst_delete(n, assert(tree, "delete from empty", tree.root # nil))
      BY <1>2, Zenon DEF bst_detach_and_delete, detach
    <3>2. assert(tree, "delete from empty", tree.root # nil).child = tree.child
      BY SoundTree DEF assert, Failed, Tree
    <3> QED
      BY <3>1, <3>2, Zenon DEF bst_delete, AfterDelete
  <2> QED
    BY <2>1, <2>2, <2>3 DEF CallInv, PutPlaces, TakePlaces
<1> QED
  BY <1>1, <1>2

\* jfs_bst_init establishes it.
LEMMA CallInit == Init => CallInv
  BY DEF Init, CallInv, PutPlaces, TakePlaces

\* Every step keeps it.
LEMMA CallStep ==
    ASSUME NEW U, NEW H, NEW O, Sound(U, H, O), IndInv, IndInv', CallInv, [Next]_vars
    PROVE  CallInv'
<1>1. ASSUME NEW k \in Keys, jfs_bst_puts(k) PROVE CallInv'
  <2>1. CASE free = <<>>
    BY <1>1, <2>1, CallReturns DEF jfs_bst_puts
  <2>2. CASE free # <<>>
    <3>1. Return("OK", NULL) \/ StartFind("puts", k, Head(free))
      BY <1>1, <2>2 DEF jfs_bst_puts
    <3> QED
      BY <3>1, CallReturns, CallFinds
  <2> QED
    BY <2>1, <2>2
<1>2. ASSUME NEW k \in Keys, jfs_bst_takes(k) PROVE CallInv'
  <2>1. (\E err, out : Return(err, out)) \/ (tree.root # nil /\ StartFind("takes", k, nil))
    BY <1>2 DEF jfs_bst_takes
  <2> QED
    BY <2>1, CallReturns, CallFinds
<1>3. ASSUME NEW s \in Side, jfs_bst_get(s) PROVE CallInv'
  <2>1. CASE cache[Extreme(s)] = nil
    BY <1>3, <2>1, CallReturns DEF jfs_bst_get
  <2>2. CASE cache[Extreme(s)] # nil
    <3> DEFINE n == cache[Extreme(s)]
    <3>1. pc = "idle" /\ bst_detach_and_delete("get", NULL, n)
      BY <1>3, <2>2 DEF jfs_bst_get
    <3>2. CacheHolds(cache, U[tree.root], value)
      BY <3>1 DEF Sound, CacheOK
    <3>3. Outermost(s, n, U[tree.root], value)
      BY <2>2, <3>2 DEF CacheHolds
    <3>4. n \in U[tree.root] /\ tree.child[n][s] = nil
      BY <3>3, SoundTree, OutermostBare DEF Outermost
    <3>5. tree.child[n]["left"] = nil \/ tree.child[n]["right"] = nil
      BY <3>4 DEF Side
    <3> HIDE DEF n
    <3> QED
      BY <3>1, <3>4, <3>5, CallDetaches
  <2> QED
    BY <2>1, <2>2
<1>4. CASE takes_found
  <2>1. /\ pc = "find" /\ loc.node # nil /\ op.key = value[loc.node]
        /\ bst_detach_and_delete("takes", op.key, loc.node)
    BY <1>4 DEF takes_found, Found
  <2>2. loc.node \in U[tree.root]
    BY <2>1, SoundTree
  <2> QED
    BY <2>1, <2>2, CallDetaches
<1>5. CASE bst_insert
  <2>1. pc = "find" /\ op.fn = "puts" /\ pc' = "fixup_insert" /\ UNCHANGED <<value, op, ret>>
    BY <1>5 DEF bst_insert, NotFound
  <2>2. value[op.node] = op.key /\ ret = NoRet
    BY <2>1 DEF Sound, Allocated, CallInv
  <2> QED
    BY <2>1, <2>2 DEF CallInv, PutPlaces, TakePlaces
<1>6. CASE puts_duplicate \/ puts_done \/ takes_bad_key
  <2>1. \E err, out : Return(err, out)
    BY <1>6 DEF puts_duplicate, puts_done, takes_bad_key
  <2> QED
    BY <2>1, CallReturns
<1>7. CASE FreeingStep
  BY <1>7, FreeingEffect, CallReturns
<1>8. CASE bst_find_step
  BY <1>8, CallWithin DEF bst_find_step
<1>9. CASE bst_fixup_insert_recolor \/ bst_fixup_insert_rotate
  <2>1. pc \in PutPlaces /\ pc' \in PutPlaces /\ UNCHANGED <<op, ret, value>>
    BY <1>9 DEF bst_fixup_insert_recolor, bst_fixup_insert_rotate, InsertLoop, PutPlaces
  <2> QED
    BY <2>1, CallWithin
<1>10. CASE bst_delete_minimum_step \/ bst_delete_splice
  <2>1. /\ pc \in TakePlaces /\ pc' \in TakePlaces /\ UNCHANGED <<op, ret, value>>
        /\ pc' = "successor" => pc = "successor"
    BY <1>10, Zenon DEF bst_delete_minimum_step, bst_delete_splice, AfterDelete, TakePlaces
  <2> QED
    BY <2>1, CallWithin
<1>11. CASE bst_fixup_delete_recolor \/ bst_fixup_delete_rotate \/ bst_fixup_delete_done
  <2>1. /\ pc \in TakePlaces /\ pc' \in TakePlaces /\ UNCHANGED <<op, ret, value>>
        /\ pc' = "successor" => pc = "successor"
    BY <1>11, Zenon DEF bst_fixup_delete_recolor, bst_fixup_delete_rotate, bst_fixup_delete_done, DeleteLoop, TakePlaces
  <2> QED
    BY <2>1, CallWithin
<1>12. ASSUME NEW s \in Side, update_cache_descend(s) \/ update_cache_walk(s), pc' # "idle" PROVE CallInv'
  <2>1. /\ pc \in TakePlaces /\ pc' \in TakePlaces /\ UNCHANGED <<op, ret, value>>
        /\ pc' = "successor" => pc = "successor"
    BY <1>12, Zenon DEF update_cache_descend, update_cache_walk, RemovedExtreme, FreeAndReturn, Return, Extreme, TakePlaces
  <2> QED
    BY <2>1, CallWithin
<1>13. ASSUME NEW s \in Side, update_cache_descend(s) PROVE pc' # "idle"
  BY <1>13, Zenon DEF update_cache_descend, Extreme
<1>14. CASE UNCHANGED vars
  BY <1>14 DEF vars, CallInv, PutPlaces, TakePlaces
<1> QED
  BY <1>1, <1>2, <1>3, <1>4, <1>5, <1>6, <1>7, <1>8, <1>9, <1>10, <1>11, <1>12, <1>13, <1>14
     DEF Next, Call, Step, FreeingStep

\* The invariant of the tree and of the call.
BagInv == SoundTreeInv /\ CallInv

\* It holds in every reachable state.
LEMMA AlwaysBagInv ==
    ASSUME CmpMagnitudes = {1}
    PROVE  Spec => []BagInv
<1>1. Init => BagInv
  BY InitSound, CallInit DEF BagInv
<1>2. BagInv /\ [Next]_vars => BagInv'
  <2>1. SUFFICES ASSUME BagInv, [Next]_vars PROVE BagInv'
    OBVIOUS
  <2>2. SoundTreeInv'
    BY <2>1, StepSound DEF BagInv
  <2>3. CallInv'
    BY <2>1, <2>2, CallStep DEF BagInv, SoundTreeInv
  <2> QED
    BY <2>2, <2>3 DEF BagInv
<1> QED
  BY <1>1, <1>2, PTL DEF Spec

-----------------------------------------------------------------------------
(* No value gets lost but through cache.previous, and none is handed out twice *)

\* The kinds of steps.
LEMMA StepKinds ==
    ASSUME [Next]_vars
    PROVE  \/ QuietStep \/ FreeingStep \/ bst_insert \/ puts_duplicate \/ takes_found \/ bst_delete_splice
           \/ UNCHANGED vars
           \/ \E k \in Keys : jfs_bst_puts(k) \/ jfs_bst_takes(k)
           \/ \E s \in Side : jfs_bst_get(s)
  BY DEF Next, Call, Step, QuietStep, FreeingStep

\* Where a call that removes a node finds it.
LEMMA RemovalNode ==
    ASSUME NEW U, NEW H, NEW O, Sound(U, H, O), IndInv
    PROVE  /\ takes_found => /\ loc.node \in U[tree.root] /\ op.key = value[loc.node] /\ pc = "find"
                             /\ op.fn = "takes"
                             /\ bst_detach_and_delete("takes", op.key, loc.node)
           /\ \A s \in Side : jfs_bst_get(s) /\ cache[Extreme(s)] # nil =>
                  /\ pc = "idle" /\ cache[Extreme(s)] \in U[tree.root]
                  /\ bst_detach_and_delete("get", NULL, cache[Extreme(s)])
<1>1. takes_found => /\ loc.node # nil /\ op.key = value[loc.node] /\ pc = "find" /\ op.fn = "takes"
                     /\ bst_detach_and_delete("takes", op.key, loc.node)
  BY DEF takes_found, Found
<1>2. loc.node \in U[tree.root] \cup {nil}
  BY SoundTree
<1>3. ASSUME NEW s \in Side, jfs_bst_get(s), cache[Extreme(s)] # nil
      PROVE  /\ pc = "idle" /\ cache[Extreme(s)] \in U[tree.root]
             /\ bst_detach_and_delete("get", NULL, cache[Extreme(s)])
  <2>1. pc = "idle" /\ bst_detach_and_delete("get", NULL, cache[Extreme(s)])
    BY <1>3 DEF jfs_bst_get
  <2>2. CacheHolds(cache, U[tree.root], value)
    BY <2>1 DEF Sound, CacheOK
  <2> QED
    BY <1>3, <2>1, <2>2 DEF CacheHolds, Outermost
<1> QED
  BY <1>1, <1>2, <1>3

\* The nodes on a list.
On(f) == {f[i] : i \in DOMAIN f}

\* The free list after a step that frees n.
LEMMA Pushed ==
    ASSUME NEW f \in Seq(Nodes), NEW n \in Nodes, NEW g, g = <<n>> \o f
    PROVE  /\ Head(g) = n /\ Len(g) > Len(f)
           /\ On(g) = On(f) \cup {n}
<1>1. /\ g \in Seq(Nodes) /\ Len(g) = Len(f) + 1 /\ g[1] = n /\ DOMAIN g = 1..Len(g) /\ DOMAIN f = 1..Len(f)
      /\ \A i \in 1..Len(f) : g[i + 1] = f[i]
  OBVIOUS
<1>2. \A i \in DOMAIN g : i = 1 \/ (i - 1 \in DOMAIN f /\ g[i] = f[i - 1])
  BY <1>1
<1>3. \A i \in DOMAIN f : i + 1 \in DOMAIN g /\ g[i + 1] = f[i]
  BY <1>1
<1>4. On(g) \subseteq On(f) \cup {n}
  <2>1. ASSUME NEW i \in DOMAIN g PROVE g[i] \in On(f) \cup {n}
    BY <1>1, <1>2 DEF On
  <2> QED
    BY <2>1 DEF On
<1>5. n \in On(g)
  <2>1. 1 \in DOMAIN g
    BY <1>1
  <2> QED
    BY <1>1, <2>1 DEF On
<1>6. On(f) \subseteq On(g)
  <2>1. ASSUME NEW i \in DOMAIN f PROVE f[i] \in On(g)
    BY <1>3 DEF On
  <2> QED
    BY <2>1 DEF On
<1>7. Head(g) = n /\ Len(g) > Len(f)
  BY <1>1
<1> QED
  BY <1>4, <1>5, <1>6, <1>7

\* And after one that takes its head.
LEMMA Popped ==
    ASSUME NEW f \in Seq(Nodes), f # <<>>, \A i, j \in DOMAIN f : f[i] = f[j] => i = j
    PROVE  /\ Len(Tail(f)) < Len(f)
           /\ On(Tail(f)) = On(f) \ {Head(f)} /\ Head(f) \in On(f)
<1>1. /\ Tail(f) \in Seq(Nodes) /\ Len(Tail(f)) = Len(f) - 1 /\ Len(f) >= 1 /\ Head(f) = f[1] /\ DOMAIN f = 1..Len(f)
      /\ DOMAIN Tail(f) = 1..(Len(f) - 1)
      /\ \A i \in 1..(Len(f) - 1) : Tail(f)[i] = f[i + 1]
  OBVIOUS
<1>2. \A i \in DOMAIN f : i # 1 => i - 1 \in DOMAIN Tail(f) /\ Tail(f)[i - 1] = f[i] /\ f[i] # f[1]
  BY <1>1
<1>3. \A i \in DOMAIN Tail(f) : i + 1 \in DOMAIN f /\ Tail(f)[i] = f[i + 1] /\ f[i + 1] # f[1]
  BY <1>1
<1>4. On(Tail(f)) \subseteq On(f) \ {Head(f)}
  <2>1. ASSUME NEW i \in DOMAIN Tail(f) PROVE Tail(f)[i] \in On(f) \ {Head(f)}
    BY <1>1, <1>3 DEF On
  <2> QED
    BY <2>1 DEF On
<1>5. On(f) \ {Head(f)} \subseteq On(Tail(f))
  <2>1. ASSUME NEW i \in DOMAIN f, f[i] # Head(f) PROVE f[i] \in On(Tail(f))
    <3>1. i # 1
      BY <1>1, <2>1
    <3> QED
      BY <1>2, <3>1 DEF On
  <2> QED
    BY <2>1 DEF On
<1>6. Head(f) \in On(f) /\ Len(Tail(f)) < Len(f)
  <2>1. 1 \in DOMAIN f /\ Len(Tail(f)) < Len(f)
    BY <1>1
  <2> QED
    BY <1>1, <2>1 DEF On
<1> QED
  BY <1>4, <1>5, <1>6

\* What a step that frees a node hands to the caller.
LEMMA FreedStep ==
    ASSUME CmpMagnitudes = {1}, BagInv, BagInv', [Next]_vars, Len(free') > Len(free)
    PROVE  /\ Head(free') \in Stored \cup {op.node} /\ Head(free') \notin Stored'
           /\ ret'.out = value[Head(free')] /\ ret'.err = "OK"
<1>1. PICK U, H, O : Sound(U, H, O)
  BY DEF BagInv, SoundTreeInv
<1>2. IndInv /\ IndInv' /\ CallInv
  BY DEF BagInv, SoundTreeInv
<1>3. free \in Seq(Nodes)
  BY <1>1, <1>2, SoundTree
<1>4. free' # free
  BY <1>3
<1>5. CASE FreeingStep
  <2>1. /\ Kept /\ op.node \in Nodes \ Stored /\ free' = <<op.node>> \o free
        /\ pc \in TakePlaces /\ Return("OK", ret.out)
    BY <1>1, <1>2, <1>5, FreeingEffect DEF TakePlaces
  <2>2. Head(free') = op.node
    BY <1>3, <2>1, Pushed
  <2>3. ret = [err |-> "none", out |-> value[op.node]]
    BY <1>2, <2>1 DEF CallInv
  <2>4. ret'.out = value[op.node] /\ ret'.err = "OK"
    BY <2>1, <2>3 DEF Return
  <2> QED
    BY <2>1, <2>2, <2>4 DEF Kept
<1>6. ASSUME NEW n \in U[tree.root], pc \in {"idle", "find"}, NEW fn, NEW key, bst_detach_and_delete(fn, key, n)
      PROVE  /\ Head(free') \in Stored \cup {op.node} /\ Head(free') \notin Stored'
             /\ ret'.out = value[Head(free')] /\ ret'.err = "OK"
  <2>1. list[n] # NULL
    BY <1>1, <1>2, <1>4, <1>6, DetachEffect
  <2>2. /\ Removed(list[n]) /\ free' = <<list[n]>> \o free
        /\ value[list[n]] = value[n] /\ Return("OK", value[n])
    BY <1>1, <1>2, <1>6, <2>1, DetachEffect
  <2>3. list[n] \in Nodes
    BY <1>1, <1>2, <2>2, StoredFacts DEF Removed
  <2>4. Head(free') = list[n]
    BY <1>3, <2>2, <2>3, Pushed
  <2>5. ret'.out = value[n] /\ ret'.err = "OK"
    BY <2>2 DEF Return
  <2> QED
    BY <2>2, <2>4, <2>5 DEF Removed
<1>7. CASE takes_found
  BY <1>1, <1>2, <1>6, <1>7, RemovalNode
<1>8. ASSUME NEW s \in Side, jfs_bst_get(s)
      PROVE  /\ Head(free') \in Stored \cup {op.node} /\ Head(free') \notin Stored'
             /\ ret'.out = value[Head(free')] /\ ret'.err = "OK"
  <2>1. cache[Extreme(s)] # nil
    BY <1>4, <1>8 DEF jfs_bst_get
  <2> QED
    BY <1>1, <1>2, <1>6, <1>8, <2>1, RemovalNode
<1>9. ASSUME NEW k \in Keys, jfs_bst_puts(k) \/ jfs_bst_takes(k) PROVE FALSE
  <2>1. free' = free \/ (free # <<>> /\ free' = Tail(free))
    BY <1>9 DEF jfs_bst_puts, jfs_bst_takes
  <2>2. free # <<>> => Len(Tail(free)) = Len(free) - 1 /\ Len(free) \in Nat
    BY <1>3
  <2> QED
    BY <1>4, <2>1, <2>2
<1>10. ASSUME QuietStep \/ bst_insert \/ puts_duplicate \/ bst_delete_splice \/ UNCHANGED vars PROVE FALSE
  BY <1>1, <1>2, <1>4, <1>10, QuietEffect, InsertEffect, DuplicateEffect, SpliceEffect DEF vars
<1> QED
  BY <1>5, <1>7, <1>8, <1>9, <1>10, StepKinds

\* No step but jfs_bst_puts, when it trusts a cache.previous that is not stored,
\* makes a node neither free nor stored nor held by a call.
LEMMA LostStep ==
    ASSUME CmpMagnitudes = {1}, BagInv, BagInv', [Next]_vars, Lost' # Lost
    PROVE  /\ pc = "idle" /\ cache.previous # nil /\ cache.previous \notin Stored
           /\ Lost' = Lost \cup {Head(free)}
<1>1. PICK U, H, O : Sound(U, H, O)
  BY DEF BagInv, SoundTreeInv
<1>2. IndInv /\ IndInv' /\ CallInv
  BY DEF BagInv, SoundTreeInv
<1>3. free \in Seq(Nodes) /\ nil \notin Nodes /\ NoOp.node = nil
  BY <1>1, <1>2, SoundTree, NotNil DEF NoOp
<1>f. OnFreeList = On(free) /\ OnFreeList' = On(free')
  BY DEF OnFreeList, On
<1>4. pc = "idle" => op.node = nil
  BY <1>2, <1>3 DEF CallInv
<1>5. ASSUME QuietStep PROVE FALSE
  <2>1. Kept /\ UNCHANGED <<value, list, free>>
    BY <1>1, <1>2, <1>5, QuietEffect
  <2>2. op'.node = op.node \/ (op'.node = nil /\ op.node \in Stored \cup {nil})
    <3>1. CASE puts_done
      <4>1. pc \in {"fixup_insert", "insert_done"} /\ op' = NoOp
        BY <3>1 DEF puts_done, Return
      <4>2. op.node \in U[tree.root]
        BY <1>1, <4>1 DEF Sound, CacheBehind
      <4> QED
        BY <1>1, <1>2, <1>3, <4>1, <4>2, StoredFacts
    <3>2. CASE takes_bad_key
      BY <1>2, <1>3, <3>2 DEF takes_bad_key, NotFound, Return, CallInv
    <3>3. CASE bst_fixup_insert_recolor \/ bst_fixup_insert_rotate \/ bst_fixup_delete_recolor \/ bst_fixup_delete_rotate
      BY <3>3, Zenon DEF bst_fixup_insert_recolor, bst_fixup_insert_rotate, bst_fixup_delete_recolor, bst_fixup_delete_rotate
    <3>4. CASE bst_find_step \/ bst_delete_minimum_step \/ bst_fixup_delete_done
      BY <3>4 DEF bst_find_step, bst_delete_minimum_step, bst_fixup_delete_done
    <3>5. ASSUME NEW s \in Side, update_cache_descend(s) \/ (update_cache_walk(s) /\ pc' # "idle") PROVE op' = op
      BY <3>5, Zenon DEF update_cache_descend, update_cache_walk, FreeAndReturn, Return
    <3> QED
      BY <1>5, <3>1, <3>2, <3>3, <3>4, <3>5 DEF QuietStep
  <2> QED
    BY <1>3, <2>1, <2>2 DEF Lost, OnFreeList, Kept
<1>6. ASSUME FreeingStep PROVE FALSE
  <2>1. Kept /\ op.node \in Nodes \ Stored /\ free' = <<op.node>> \o free /\ op' = NoOp
    BY <1>1, <1>2, <1>6, FreeingEffect DEF Return
  <2>2. OnFreeList' = OnFreeList \cup {op.node}
    BY <1>3, <1>f, <2>1, Pushed
  <2> QED
    BY <1>3, <2>1, <2>2 DEF Lost, Kept
<1>7. ASSUME bst_insert \/ puts_duplicate PROVE FALSE
  <2>1. Gained(op.node, op.key) /\ free' = free
    BY <1>1, <1>2, <1>7, InsertEffect, DuplicateEffect
  <2>2. op'.node \in {op.node, nil}
    BY <1>3, <1>7 DEF bst_insert, puts_duplicate, Return
  <2> QED
    BY <1>3, <2>1, <2>2 DEF Lost, OnFreeList, Gained
<1>8. ASSUME bst_delete_splice PROVE FALSE
  <2>1. Removed(op.node) /\ free' = free /\ op' = op
    BY <1>1, <1>2, <1>8, SpliceEffect
  <2> QED
    BY <2>1 DEF Lost, OnFreeList, Removed
<1>9. ASSUME NEW n \in U[tree.root], pc \in {"idle", "find"}, op.node = nil,
             NEW fn, NEW key, bst_detach_and_delete(fn, key, n)
      PROVE  FALSE
  <2>1. CASE list[n] # NULL
    <3>1. Removed(list[n]) /\ free' = <<list[n]>> \o free /\ Return("OK", value[n])
      BY <1>1, <1>2, <1>9, <2>1, DetachEffect
    <3>2. list[n] \in Nodes
      BY <1>1, <1>2, <3>1, StoredFacts DEF Removed
    <3>3. OnFreeList' = OnFreeList \cup {list[n]} /\ op'.node = nil
      BY <1>3, <1>f, <3>1, <3>2, Pushed DEF Return
    <3> QED
      BY <1>3, <1>9, <3>1, <3>2, <3>3 DEF Lost, Removed
  <2>2. CASE list[n] = NULL
    <3>1. /\ n \in Stored /\ free' = free /\ op' = [fn |-> fn, key |-> key, node |-> n]
          /\ Kept \/ Removed(n)
      BY <1>1, <1>2, <1>9, <2>2, DetachEffect
    <3>2. op'.node = n
      BY <3>1
    <3> QED
      BY <1>3, <1>9, <3>1, <3>2 DEF Lost, OnFreeList, Kept, Removed
  <2> QED
    BY <2>1, <2>2
<1>10. ASSUME takes_found PROVE FALSE
  <2>1. op.node = nil
    BY <1>2, <1>10 DEF CallInv, takes_found, Found
  <2> QED
    BY <1>1, <1>2, <1>9, <1>10, <2>1, RemovalNode
<1>11. ASSUME NEW s \in Side, jfs_bst_get(s) PROVE FALSE
  <2>1. CASE cache[Extreme(s)] # nil
    BY <1>1, <1>2, <1>4, <1>9, <1>11, <2>1, RemovalNode
  <2>2. CASE cache[Extreme(s)] = nil
    <3>1. pc = "idle" /\ UNCHANGED <<tree, value, list, free>> /\ op' = NoOp
      BY <1>11, <2>2 DEF jfs_bst_get, Return
    <3>2. Stored' = Stored
      BY <3>1, KeptSame DEF Kept
    <3> QED
      BY <1>3, <1>4, <3>1, <3>2 DEF Lost, OnFreeList
  <2> QED
    BY <2>1, <2>2
<1>12. ASSUME NEW k \in Keys, jfs_bst_takes(k) PROVE FALSE
  <2>1. pc = "idle" /\ UNCHANGED <<tree, value, list, free>> /\ op'.node = nil
    BY <1>3, <1>12 DEF jfs_bst_takes, Return, StartFind
  <2>2. Stored' = Stored
    BY <2>1, KeptSame DEF Kept
  <2> QED
    BY <1>4, <2>1, <2>2 DEF Lost, OnFreeList
<1>13. ASSUME UNCHANGED vars PROVE FALSE
  <2>1. UNCHANGED <<tree, value, list, free, op>>
    BY <1>13 DEF vars
  <2>2. Stored' = Stored
    BY <2>1, KeptSame DEF Kept
  <2> QED
    BY <2>1, <2>2 DEF Lost, OnFreeList
<1>14. ASSUME NEW k \in Keys, jfs_bst_puts(k)
       PROVE  /\ pc = "idle" /\ cache.previous # nil /\ cache.previous \notin Stored
              /\ Lost' = Lost \cup {Head(free)}
  <2>1. pc = "idle" /\ op.node = nil
    BY <1>4, <1>14 DEF jfs_bst_puts
  <2>2. free # <<>>
    <3>1. SUFFICES ASSUME free = <<>> PROVE FALSE
      OBVIOUS
    <3>2. UNCHANGED <<tree, value, list, free>> /\ op' = NoOp
      BY <1>14, <3>1 DEF jfs_bst_puts, Return
    <3>3. Stored' = Stored
      BY <3>2, KeptSame DEF Kept
    <3> QED
      BY <1>3, <2>1, <3>2, <3>3 DEF Lost, OnFreeList
  <2> DEFINE node   == Head(free)
             packed == [value EXCEPT ![node] = k]
             cached == bst_check_cache(packed, k)
  <2>3. /\ node \in Nodes \ Stored /\ free' = Tail(free)
        /\ cached = nil => Kept /\ StartFind("puts", k, node)
        /\ cached # nil => /\ Return("OK", NULL)
                           /\ cached \in Stored => Gained(node, k)
                           /\ cached \notin Stored => Kept
    BY <1>1, <1>2, <1>14, <2>2, PutsEffect
  <2>4. cached # nil => cached \in Stored \/ cached = cache.previous
    BY <1>1, <1>2, <2>1, CheckCacheStored
  <2> HIDE DEF node, packed, cached
  <2>5. OnFreeList' = OnFreeList \ {node} /\ node \in OnFreeList
    <3>1. \A i, j \in DOMAIN free : free[i] = free[j] => i = j
      BY <1>1, <1>2, SoundTree DEF ChainsOf, Freed1
    <3>2. On(Tail(free)) = On(free) \ {Head(free)} /\ Head(free) \in On(free)
      BY <1>3, <2>2, <3>1, Popped
    <3> QED
      BY <1>f, <2>3, <3>2 DEF node
  <2>6. CASE cached = nil
    <3>1. op'.node = node /\ Kept
      BY <2>3, <2>6 DEF StartFind
    <3> QED
      BY <1>3, <2>1, <2>3, <2>5, <3>1 DEF Lost, Kept
  <2>7. CASE cached # nil /\ cached \in Stored
    <3>1. op'.node = nil /\ Gained(node, k)
      BY <1>3, <2>3, <2>7 DEF Return
    <3> QED
      BY <1>3, <2>1, <2>3, <2>5, <3>1 DEF Lost, Gained
  <2>8. CASE cached # nil /\ cached \notin Stored
    <3>1. op'.node = nil /\ Kept /\ cached = cache.previous
      BY <1>3, <2>3, <2>4, <2>8 DEF Return
    <3>2. Lost' = Lost \cup {node}
      BY <1>3, <2>1, <2>3, <2>5, <3>1 DEF Lost, Kept
    <3> QED
      BY <2>1, <2>8, <3>1, <3>2 DEF node
  <2> QED
    BY <2>6, <2>7, <2>8
<1> QED
  BY <1>5, <1>6, <1>7, <1>8, <1>10, <1>11, <1>12, <1>13, <1>14, StepKinds

\* For every set of nodes and keys: the node that a step puts back on the free list
\* was stored, or had been unlinked by the same call, it is not stored any more, and the
\* caller is given the value in it, also after the rotations and the splice
\* of bst_delete and the walk of bst_update_cache_delete in between.
THEOREM FreedNodesAreReturned ==
    ASSUME CmpMagnitudes = {1}
    PROVE  Spec => FreedIsReturned
<1> DEFINE A == Len(free') > Len(free) =>
           /\ Head(free') \in Stored \cup {op.node} /\ Head(free') \notin Stored'
           /\ ret'.out = value[Head(free')] /\ ret'.err = "OK"
<1>1. BagInv /\ BagInv' /\ [Next]_vars => [A]_vars
  BY FreedStep
<1> QED
  BY <1>1, AlwaysBagInv, PTL DEF Spec, FreedIsReturned

\* For every set of nodes and keys: in no step of any call does a node leave
\* the free list and what is stored for good, except when jfs_bst_puts trusts a
\* cache.previous that has left the tree; then exactly the node it has allocated
\* is lost.
THEOREM NodesAreLostOnlyThroughPrevious ==
    ASSUME CmpMagnitudes = {1}
    PROVE  Spec => LostOnlyThroughPrevious
<1> DEFINE A == Lost' # Lost =>
           /\ pc = "idle" /\ cache.previous # nil /\ cache.previous \notin Stored
           /\ Lost' = Lost \cup {Head(free)}
<1>1. BagInv /\ BagInv' /\ [Next]_vars => [A]_vars
  BY LostStep
<1> QED
  BY <1>1, AlwaysBagInv, PTL DEF Spec, LostOnlyThroughPrevious

-----------------------------------------------------------------------------
(* What is stored, as an ordered bag *)

\* The nodes of S whose value has key k.
Having(S, v, k) == {m \in S : v[m] = k}

\* Counts counts them.
LEMMA CountsIs ==
    /\ Counts = [k \in Keys |-> Cardinality(Having(Stored, value, k))]
    /\ Counts' = [k \in Keys |-> Cardinality(Having(Stored', value', k))]
  BY DEF Counts, Having

\* What is stored is finite and has keys.
LEMMA StoredKeys ==
    ASSUME NEW U, NEW H, NEW O, Sound(U, H, O), IndInv
    PROVE  /\ IsFiniteSet(Nodes) /\ IsFiniteSet(Stored) /\ Stored \in SUBSET Nodes
           /\ Cardinality(Stored) \in Nat /\ Cardinality(Nodes) \in Nat
           /\ \A m \in Stored : value[m] \in Keys
           /\ \A k : IsFiniteSet(Having(Stored, value, k)) /\ Cardinality(Having(Stored, value, k)) \in Nat
           /\ Counts \in [Keys -> Nat]
<1>1. Stored \in SUBSET Nodes /\ IsFiniteSet(Nodes)
  BY StoredFacts, NodesAssumption
<1>2. IsFiniteSet(Stored)
  BY <1>1, FS_Subset
<1>3. Cardinality(Stored) \in Nat /\ Cardinality(Nodes) \in Nat
  BY <1>1, <1>2, FS_CardinalityType
<1>4. \A m \in Stored : value[m] \in Keys
  BY StoredIs, SoundTree DEF Ordered
<1>5. ASSUME NEW k PROVE IsFiniteSet(Having(Stored, value, k)) /\ Cardinality(Having(Stored, value, k)) \in Nat
  <2>1. Having(Stored, value, k) \in SUBSET Stored
    BY DEF Having
  <2> QED
    BY <1>2, <2>1, FS_Subset, FS_CardinalityType
<1>6. Counts \in [Keys -> Nat]
  BY <1>5, CountsIs
<1> QED
  BY <1>1, <1>2, <1>3, <1>4, <1>5, <1>6

\* Nothing has changed in the bag.
LEMMA CountsKept ==
    ASSUME Kept
    PROVE  Counts' = Counts /\ Cardinality(Stored)' = Cardinality(Stored)
<1>1. \A k : Having(Stored', value', k) = Having(Stored, value, k)
  BY DEF Kept, Having
<1> QED
  BY <1>1, CountsIs DEF Kept

\* One value has been added.
LEMMA CountsGained ==
    ASSUME NEW U, NEW H, NEW O, Sound(U, H, O), IndInv, NEW n, NEW k \in Keys, Gained(n, k)
    PROVE  /\ Counts' = [Counts EXCEPT ![k] = @ + 1]
           /\ Cardinality(Stored)' = Cardinality(Stored) + 1
           /\ Cardinality(Stored) < Cardinality(Nodes)
<1>1. n \in Nodes /\ n \notin Stored /\ Stored' = Stored \cup {n}
  BY DEF Gained
<1>2. Having(Stored', value', k) = Having(Stored, value, k) \cup {n} /\ n \notin Having(Stored, value, k)
  BY <1>1 DEF Gained, Having
<1>3. \A j : j # k => Having(Stored', value', j) = Having(Stored, value, j)
  BY <1>1 DEF Gained, Having
<1>4. Cardinality(Having(Stored', value', k)) = Cardinality(Having(Stored, value, k)) + 1
  BY <1>2, StoredKeys, FS_AddElement
<1>5. Cardinality(Stored') = Cardinality(Stored) + 1
  BY <1>1, StoredKeys, FS_AddElement
<1>6. Cardinality(Stored) < Cardinality(Nodes)
  <2>1. Cardinality(Stored) <= Cardinality(Nodes) /\ (Cardinality(Stored) = Cardinality(Nodes) => Stored = Nodes)
    BY StoredKeys, FS_Subset
  <2> QED
    BY <1>1, <2>1, StoredKeys
<1>7. \A j \in Keys : Counts'[j] = IF j = k THEN Counts[k] + 1 ELSE Counts[j]
  BY <1>3, <1>4, CountsIs
<1>8. Counts' = [j \in Keys |-> Counts'[j]] /\ Counts \in [Keys -> Nat]
  BY CountsIs, StoredKeys
<1>9. Counts' = [Counts EXCEPT ![k] = @ + 1]
  BY <1>7, <1>8
<1> QED
  BY <1>5, <1>6, <1>9

\* A key is counted when some stored node has it.
LEMMA CountPositive ==
    ASSUME NEW U, NEW H, NEW O, Sound(U, H, O), IndInv, NEW n \in Stored
    PROVE  Counts[value[n]] > 0
<1> DEFINE S == Having(Stored, value, value[n])
<1>1. n \in S
  BY DEF Having
<1>2. IsFiniteSet(S) /\ Cardinality(S) \in Nat /\ value[n] \in Keys
  BY StoredKeys
<1>3. Cardinality(S) # 0
  BY <1>1, <1>2, FS_EmptySet
<1>4. Counts[value[n]] = Cardinality(S)
  BY <1>2, CountsIs
<1> HIDE DEF S
<1> QED
  BY <1>2, <1>3, <1>4

\* And not when none has.
LEMMA CountZero ==
    ASSUME NEW k \in Keys, \A m \in Stored : value[m] # k
    PROVE  Counts[k] = 0
<1>1. Having(Stored, value, k) = {}
  BY DEF Having
<1> QED
  BY <1>1, CountsIs, FS_EmptySet

\* One value has been taken out.
LEMMA CountsRemoved ==
    ASSUME NEW U, NEW H, NEW O, Sound(U, H, O), IndInv, NEW n, NEW k, value[n] = k, Removed(n)
    PROVE  /\ k \in Keys /\ Counts[k] > 0
           /\ Counts' = [Counts EXCEPT ![k] = @ - 1]
           /\ Cardinality(Stored)' = Cardinality(Stored) - 1
<1>1. n \in Stored /\ Stored' = Stored \ {n}
  BY DEF Removed
<1>2. k \in Keys
  BY <1>1, StoredKeys
<1>3. Having(Stored', value', k) = Having(Stored, value, k) \ {n} /\ n \in Having(Stored, value, k)
  BY <1>1 DEF Removed, Having
<1>4. \A j : j # k => Having(Stored', value', j) = Having(Stored, value, j)
  BY <1>1 DEF Removed, Having
<1>5. Cardinality(Having(Stored', value', k)) = Cardinality(Having(Stored, value, k)) - 1
  <2>1. IsFiniteSet(Having(Stored, value, k))
    BY StoredKeys
  <2> QED
    BY ONLY <1>3, <2>1, FS_RemoveElement
<1>6. Cardinality(Stored') = Cardinality(Stored) - 1
  BY <1>1, StoredKeys, FS_RemoveElement
<1>7. \A j \in Keys : Counts'[j] = IF j = k THEN Counts[k] - 1 ELSE Counts[j]
  BY <1>2, <1>4, <1>5, CountsIs
<1>8. Counts' = [j \in Keys |-> Counts'[j]] /\ Counts \in [Keys -> Nat]
  BY CountsIs, StoredKeys
<1>9. Counts' = [Counts EXCEPT ![k] = @ - 1]
  BY <1>2, <1>7, <1>8
<1>10. Counts[k] > 0
  BY <1>1, CountPositive
<1> QED
  BY <1>2, <1>6, <1>9, <1>10

\* The keys that the bag holds are those of the stored nodes.
LEMMA HeldIs ==
    ASSUME NEW U, NEW H, NEW O, Sound(U, H, O), IndInv
    PROVE  Bag!Held = {value[m] : m \in Stored}
<1>1. Bag!Held = {k \in Keys : Counts[k] > 0}
  BY DEF Bag!Held
<1>2. \A m \in Stored : value[m] \in Keys /\ Counts[value[m]] > 0
  BY StoredKeys, CountPositive
<1>3. \A k \in Keys : Counts[k] > 0 => \E m \in Stored : value[m] = k
  BY CountZero
<1> QED
  BY <1>1, <1>2, <1>3

\* Two nodes of the tree meet in one that is above both, or in one of the two.
LEMMA Meet ==
    ASSUME NEW t \in Tree, NEW U, Shape(t, U), NEW p \in U[t.root], NEW m \in U[t.root]
    PROVE  \E a \in U[t.root] :
               \/ a = p /\ m \in U[a]
               \/ a = m /\ p \in U[a]
               \/ \E r \in Side : p \in U[t.child[a][r]] /\ m \in U[t.child[a][Opposite(r)]]
<1> DEFINE D == {a \in U[t.root] : p \in U[a] /\ m \in U[a]}
           Sizes == {Cardinality(U[a]) : a \in D}
<1>1. t.root \in D
  BY ShapeNode DEF Shape
<1>2. Sizes \subseteq Nat /\ Sizes # {}
  BY <1>1, SubtreeSize
<1>3. PICK a \in D : \A b \in D : ~(Cardinality(U[b]) < Cardinality(U[a]))
  <2>1. PICK i \in Sizes : \A j \in Sizes : ~(j < i)
    <3> HIDE DEF Sizes
    <3> QED
      BY <1>2, LeastNat
  <2> QED
    BY <2>1
<1>4. \A r \in Side : ~(p \in U[t.child[a][r]] /\ m \in U[t.child[a][r]])
  <2>1. SUFFICES ASSUME NEW r \in Side, p \in U[t.child[a][r]], m \in U[t.child[a][r]] PROVE FALSE
    OBVIOUS
  <2>2. t.child[a][r] # nil
    BY <2>1 DEF Shape
  <2>3. t.child[a][r] \in U[t.root] /\ Cardinality(U[t.child[a][r]]) < Cardinality(U[a])
    BY <2>2, ShapeChild, SubtreeSize
  <2> QED
    BY <1>3, <2>1, <2>3
<1>5. /\ U[a] = {a} \cup U[t.child[a]["left"]] \cup U[t.child[a]["right"]]
      /\ Opposite("left") = "right" /\ Opposite("right") = "left"
  BY ShapeSplit, Sides DEF Opposite
<1> QED
  BY <1>4, <1>5, Sides

\* The walk of bst_find ends at a missing child of p on the side of the key: no
\* node of the tree has the key.
LEMMA Absent ==
    ASSUME NEW t \in Tree, NEW U, Shape(t, U), NEW val, Ordered(t, U, val),
           NEW p \in U[t.root], NEW s \in Side, t.child[p][s] = nil,
           NEW key \in Keys, Beyond(s, key, val[p]),
           \A m \in U[t.root] \ {p} : \A r \in Side : p \in U[t.child[m][r]] => Beyond(r, key, val[m]),
           NEW m \in U[t.root]
    PROVE  val[m] # key
<1>1. \A k \in U[t.root] : val[k] \in Int
  BY KeysAssumption DEF Ordered
<1>2. key \in Int
  BY KeysAssumption
<1>3. PICK a \in U[t.root] :
               \/ a = p /\ m \in U[a]
               \/ a = m /\ p \in U[a]
               \/ \E r \in Side : p \in U[t.child[a][r]] /\ m \in U[t.child[a][Opposite(r)]]
  BY Meet
<1>4. \A n \in U[t.root] : \A r \in Side : \A k \in U[t.child[n][r]] : Beyond(r, val[k], val[n])
  BY DEF Ordered
<1>5. \A n \in U[t.root] : \A r \in Side :
          U[n] = {n} \cup U[t.child[n][r]] \cup U[t.child[n][Opposite(r)]] /\ n \notin U[t.child[n][r]]
  BY ShapeSplit
<1>6. CASE a = p /\ m \in U[p]
  <2>1. m = p \/ m \in U[t.child[p][Opposite(s)]]
    BY <1>5, <1>6 DEF Shape
  <2>2. CASE m = p
    BY <1>1, <1>2, <2>2 DEF Beyond
  <2>3. CASE m \in U[t.child[p][Opposite(s)]]
    <3>1. Beyond(Opposite(s), val[m], val[p])
      BY <1>4, <2>3, Sides
    <3> QED
      BY <1>1, <1>2, <3>1 DEF Beyond, Opposite, Side
  <2> QED
    BY <2>1, <2>2, <2>3
<1>7. CASE a = m /\ p \in U[m] /\ m # p
  <2>1. \E r \in Side : p \in U[t.child[m][r]]
    BY <1>5, <1>7, Sides
  <2>2. \E r \in Side : Beyond(r, key, val[m])
    BY <1>7, <2>1
  <2> QED
    BY <1>1, <1>2, <2>2 DEF Beyond
<1>8. CASE \E r \in Side : p \in U[t.child[a][r]] /\ m \in U[t.child[a][Opposite(r)]]
  <2>1. PICK r \in Side : p \in U[t.child[a][r]] /\ m \in U[t.child[a][Opposite(r)]]
    BY <1>8
  <2>2. a # p
    BY <1>5, <2>1
  <2>3. Beyond(r, key, val[a]) /\ Beyond(Opposite(r), val[m], val[a])
    BY <1>4, <2>1, <2>2, Sides
  <2> QED
    BY <1>1, <1>2, <2>3 DEF Beyond, Opposite, Side
<1> QED
  BY <1>3, <1>6, <1>7, <1>8

\* When bst_find has not found the key, nothing that is stored has it.
LEMMA NotFoundAbsent ==
    ASSUME NEW U, NEW H, NEW O, Sound(U, H, O), IndInv, NotFound
    PROVE  \A m \in Stored : value[m] # op.key
<1> DEFINE T == U[tree.root]
<1>1. pc = "find" /\ loc.node = nil
  BY DEF NotFound
<1>2. FindOK(T, U)
  BY <1>1 DEF Sound
<1>3. \A m \in Stored : \E n \in T : value[m] = value[n]
  BY StoredIs
<1>4. ASSUME NEW n \in T PROVE value[n] # op.key
  <2>1. CASE loc.parent = nil
    <3>1. tree.root = nil
      BY <1>1, <1>2, <2>1 DEF FindOK
    <3>2. T = {}
      BY <3>1, SoundTree DEF Shape
    <3> QED
      BY <3>2
  <2>2. CASE loc.parent # nil
    <3>1. PICK s \in Side : loc.node = tree.child[loc.parent][s] /\ Beyond(s, op.key, value[loc.parent])
      BY <1>2, <2>2 DEF FindOK
    <3>2. /\ op.key \in Keys
          /\ \A m \in T \ {loc.parent} : \A r \in Side :
                 loc.parent \in U[tree.child[m][r]] => Beyond(r, op.key, value[m])
      BY <1>2 DEF FindOK
    <3>3. loc.parent \in T /\ tree \in Tree /\ Shape(tree, U) /\ Ordered(tree, U, value)
      BY <2>2, SoundTree
    <3> QED
      BY <1>1, <3>1, <3>2, <3>3, Absent
  <2> QED
    BY <2>1, <2>2
<1> QED
  BY <1>3, <1>4

-----------------------------------------------------------------------------
(* The steps, as operations of the bag *)

\* The answer of a state.
LEMMA AnsweredIs ==
    /\ pc = "idle" => Answered = ret
    /\ pc \in {"find", "successor"} => Answered = NoRet
    /\ pc \in PutPlaces \cup (TakePlaces \ {"successor"}) => Answered = [err |-> "OK", out |-> ret.out]
  BY DEF Answered, TookEffect, PutPlaces, TakePlaces

\* The same for the next state.
LEMMA AnsweredNext ==
    /\ pc' = "idle" => Answered' = ret'
    /\ pc' \in {"find", "successor"} => Answered' = NoRet
    /\ pc' \in PutPlaces \cup (TakePlaces \ {"successor"}) => Answered' = [err |-> "OK", out |-> ret'.out]
  BY DEF Answered, TookEffect, PutPlaces, TakePlaces

\* A step that changes neither what is stored nor the answer.
LEMMA BagSame ==
    ASSUME Kept, Answered' = Answered
    PROVE  UNCHANGED Bag!vars
  BY CountsKept DEF Bag!vars

\* A call begins.
LEMMA BagBegin ==
    ASSUME Kept, Answered' = NoRet
    PROVE  Bag!Begin
  BY CountsKept DEF Bag!Begin, Bag!Nothing, NoRet

\* A value is added.
LEMMA BagPut ==
    ASSUME NEW U, NEW H, NEW O, Sound(U, H, O), IndInv, NEW n, NEW k \in Keys, Gained(n, k),
           Answered' = [err |-> "OK", out |-> NULL]
    PROVE  Bag!Put(k)
  BY CountsGained DEF Bag!Put, Bag!Answer

\* There is no room.
LEMMA BagFull ==
    ASSUME NEW k, Kept, Stored = Nodes, Answered' = [err |-> "FULL", out |-> NULL]
    PROVE  Bag!Put(k)
  BY CountsKept DEF Bag!Put, Bag!Answer

\* A value is removed.
LEMMA BagRemove ==
    ASSUME NEW U, NEW H, NEW O, Sound(U, H, O), IndInv, NEW n, NEW k, value[n] = k, Removed(n),
           Answered' = [err |-> "OK", out |-> k]
    PROVE  Bag!Remove(k)
  BY CountsRemoved DEF Bag!Remove, Bag!Answer

\* A value that is held is handed out.
LEMMA BagPeek ==
    ASSUME NEW U, NEW H, NEW O, Sound(U, H, O), IndInv, NEW n \in Stored, Kept,
           Answered' = [err |-> "OK", out |-> value[n]]
    PROVE  Bag!Peek(value[n])
  BY CountsKept, CountPositive DEF Bag!Peek, Bag!Answer

\* No value with the key is held.
LEMMA BagBadKey ==
    ASSUME NEW U, NEW H, NEW O, Sound(U, H, O), IndInv, NEW k \in Keys, Kept,
           \A m \in Stored : value[m] # k, Stored # {},
           Answered' = [err |-> "BAD_KEY", out |-> NULL]
    PROVE  Bag!Take(k)
<1>1. Counts[k] = 0
  BY CountZero
<1>2. Bag!Held # {}
  BY HeldIs
<1> QED
  BY <1>1, <1>2, CountsKept DEF Bag!Take, Bag!Answer

\* Nothing is held.
LEMMA BagEmpty ==
    ASSUME NEW U, NEW H, NEW O, Sound(U, H, O), IndInv, Kept, Stored = {},
           Answered' = [err |-> "EMPTY", out |-> NULL]
    PROVE  Bag!Empty
<1>1. Bag!Held = {}
  BY HeldIs
<1> QED
  BY <1>1, CountsKept DEF Bag!Empty, Bag!Answer

\* The least and the greatest key that is held.
LEMMA HeldExtremes ==
    ASSUME NEW U, NEW H, NEW O, Sound(U, H, O), IndInv, pc = "idle", tree.root # nil
    PROVE  /\ Bag!Held # {}
           /\ Bag!Min(Bag!Held) = value[cache.smallest]
           /\ Bag!Max(Bag!Held) = value[cache.largest]
<1>1. CacheIsExtreme /\ InTree = U[tree.root] /\ U[tree.root] \subseteq Stored
  BY CacheFollows, InTreeIs, StoredFacts
<1>2. /\ cache.smallest \in Stored /\ cache.largest \in Stored
      /\ \A n \in Stored : value[cache.smallest] <= value[n] /\ value[n] <= value[cache.largest]
  BY <1>1 DEF CacheIsExtreme
<1>3. \A n \in Stored : value[n] \in Int
  BY StoredKeys, KeysAssumption
<1>4. Bag!Held = {value[m] : m \in Stored}
  BY HeldIs
<1>5. ASSUME NEW S, S \subseteq Int, NEW v \in S, \A y \in S : v <= y PROVE Bag!Min(S) = v
  <2>1. \A y \in S : v =< y
    BY <1>5
  <2>2. Bag!Min(S) \in S /\ \A y \in S : Bag!Min(S) =< y
    <3>1. \E w \in S : \A y \in S : w =< y
      BY <2>1
    <3> QED
      BY <3>1, Zenon DEF Bag!Min
  <2> DEFINE w == Bag!Min(S)
  <2>3. w \in S /\ w =< v /\ v =< w
    BY <2>1, <2>2
  <2> HIDE DEF w
  <2>4. w \in Int /\ v \in Int
    BY <1>5, <2>3
  <2>5. w = v
    BY <2>3, <2>4
  <2> QED
    BY <2>5 DEF w
<1>6. ASSUME NEW S, S \subseteq Int, NEW v \in S, \A y \in S : y <= v PROVE Bag!Max(S) = v
  <2>1. \A y \in S : v >= y
    BY <1>6
  <2>2. Bag!Max(S) \in S /\ \A y \in S : Bag!Max(S) >= y
    <3>1. \E w \in S : \A y \in S : w >= y
      BY <2>1
    <3> QED
      BY <3>1, Zenon DEF Bag!Max
  <2> DEFINE w == Bag!Max(S)
  <2>3. w \in S /\ w >= v /\ v >= w
    BY <2>1, <2>2
  <2> HIDE DEF w
  <2>4. w \in Int /\ v \in Int
    BY <1>6, <2>3
  <2>5. w = v
    BY <2>3, <2>4
  <2> QED
    BY <2>5 DEF w
<1>7. /\ Bag!Held \subseteq Int /\ value[cache.smallest] \in Bag!Held /\ value[cache.largest] \in Bag!Held
      /\ \A y \in Bag!Held : value[cache.smallest] <= y /\ y <= value[cache.largest]
  BY <1>2, <1>3, <1>4
<1> QED
  BY <1>5, <1>6, <1>7

\* Nothing is stored when the tree is empty.
LEMMA StoredEmpty ==
    ASSUME NEW U, NEW H, NEW O, Sound(U, H, O), IndInv
    PROVE  Stored = {} <=> tree.root = nil
<1>1. tree.root = nil <=> U[tree.root] = {}
  BY SoundTree DEF Shape
<1>2. IsStored(Stored, U[tree.root], list) /\ U[tree.root] \subseteq Stored
  BY StoredFacts
<1>3. ASSUME U[tree.root] = {} PROVE Stored = {}
  <2>1. Grown({}, U[tree.root], list)
    BY <1>3 DEF Grown
  <2> QED
    BY <1>2, <2>1 DEF IsStored
<1> QED
  BY <1>1, <1>2, <1>3

\* jfs_bst_puts begins or puts: unless it trusts a cache.previous that is not stored,
\* and as long as no node is lost.
LEMMA PutsIsBag ==
    ASSUME NEW U, NEW H, NEW O, Sound(U, H, O), IndInv, IndInv', CallInv, NEW k \in Keys, jfs_bst_puts(k),
           ~TrustsStale, Lost = {}
    PROVE  Bag!Begin \/ Bag!Put(k)
<1>1. pc = "idle" /\ op.node = nil
  BY DEF jfs_bst_puts, CallInv, NoOp
<1>2. ~StaleForPut(k)
  BY DEF TrustsStale
<1>3. CASE free = <<>>
  <2>1. UNCHANGED <<tree, value, list>> /\ Return("FULL", NULL)
    BY <1>3 DEF jfs_bst_puts
  <2>2. Answered' = [err |-> "FULL", out |-> NULL]
    BY <2>1, AnsweredNext DEF Return
  <2>3. Stored = Nodes
    <3>1. OnFreeList = {} /\ Stored \in SUBSET Nodes
      BY <1>3, StoredFacts DEF OnFreeList
    <3> QED
      BY <1>1, <3>1, NotNil DEF Lost
  <2> QED
    BY <2>1, <2>2, <2>3, KeptSame, BagFull
<1>4. CASE free # <<>>
  <2> DEFINE node   == Head(free)
             packed == [value EXCEPT ![node] = k]
             cached == bst_check_cache(packed, k)
  <2>1. /\ node \in Nodes \ Stored
        /\ cached = nil => Kept /\ StartFind("puts", k, node)
        /\ cached # nil => Return("OK", NULL) /\ (cached \in Stored => Gained(node, k))
    BY <1>4, PutsEffect
  <2>2. cached # nil => /\ cached \in Nodes /\ packed[cached] = k
                        /\ cached \in Stored \/ cached = cache.previous
    BY <1>1, CheckCacheStored
  <2>3. \A m \in Nodes : m # node => packed[m] = value[m]
    BY SoundTree
  <2> HIDE DEF packed, cached
  <2>4. CASE cached = nil
    <3>1. Answered' = NoRet /\ Kept
      BY <2>1, <2>4, AnsweredNext DEF StartFind
    <3> QED
      BY <3>1, BagBegin
  <2>5. CASE cached # nil
    <3>1. cached \in Stored
      <4>1. SUFFICES ASSUME cached \notin Stored PROVE FALSE
        OBVIOUS
      <4>2. cached = cache.previous /\ cached \in Nodes /\ packed[cached] = k
        BY <2>2, <2>5, <4>1
      <4>3. cached # node
        BY <1>2, <1>4, <4>2 DEF StaleForPut
      <4>4. value[cached] = k
        BY <2>3, <4>2, <4>3
      <4> QED
        BY <1>2, <2>5, <4>1, <4>2, <4>4 DEF StaleForPut, Stale
    <3>2. Gained(node, k) /\ Return("OK", NULL)
      BY <2>1, <2>5, <3>1
    <3>3. Answered' = [err |-> "OK", out |-> NULL]
      BY <3>2, AnsweredNext DEF Return
    <3> QED
      BY <3>2, <3>3, BagPut
  <2> QED
    BY <2>4, <2>5
<1> QED
  BY <1>3, <1>4

\* jfs_bst_takes begins, finds the tree empty, or hands out a key from the cache.
LEMMA TakesIsBag ==
    ASSUME NEW U, NEW H, NEW O, Sound(U, H, O), IndInv, NEW k \in Keys, jfs_bst_takes(k), ~TrustsStale
    PROVE  Bag!Begin \/ Bag!Empty \/ Bag!Take(k)
<1>1. pc = "idle" /\ UNCHANGED <<value, list, free>>
  BY DEF jfs_bst_takes
<1>2. ~Stale(k)
  BY DEF TrustsStale
<1>3. CASE tree.root = nil
  <2>1. tree' = tree /\ Return("EMPTY", NULL)
    BY <1>3 DEF jfs_bst_takes
  <2>2. Answered' = [err |-> "EMPTY", out |-> NULL] /\ Kept
    BY <1>1, <2>1, AnsweredNext, KeptSame DEF Return
  <2> QED
    BY <1>3, <2>2, StoredEmpty, BagEmpty
<1>4. CASE tree.root # nil
  <2> DEFINE cached == bst_check_cache(value, k)
  <2>1. /\ cached = nil => StartFind("takes", k, nil)
        /\ cached # nil => tree' = tree /\ Return("OK", value[cached])
    BY <1>4 DEF jfs_bst_takes
  <2>2. cached # nil => value[cached] = k /\ (cached \in Stored \/ cached = cache.previous)
    BY <1>1, CheckCacheStored
  <2> HIDE DEF cached
  <2>3. CASE cached = nil
    <3>1. Answered' = NoRet /\ Kept
      BY <1>1, <2>1, <2>3, AnsweredNext, KeptSame DEF StartFind
    <3> QED
      BY <3>1, BagBegin
  <2>4. CASE cached # nil
    <3>1. cached \in Stored /\ value[cached] = k
      BY <1>2, <2>2, <2>4 DEF Stale
    <3>2. Answered' = [err |-> "OK", out |-> value[cached]] /\ Kept
      BY <1>1, <2>1, <2>4, AnsweredNext, KeptSame DEF Return
    <3>3. Bag!Peek(k)
      BY <3>1, <3>2, BagPeek
    <3> QED
      BY <3>3 DEF Bag!Take
  <2> QED
    BY <2>3, <2>4
<1> QED
  BY <1>3, <1>4

\* bst_detach_and_delete removes a value of the key, now or when it has found the successor.
LEMMA DetachIsBag ==
    ASSUME NEW U, NEW H, NEW O, Sound(U, H, O), IndInv, IndInv', NEW n \in U[tree.root], pc \in {"idle", "find"},
           NEW fn, NEW key, bst_detach_and_delete(fn, key, n)
    PROVE  \/ pc' # "successor" /\ Bag!Remove(value[n])
           \/ pc' = "successor" /\ op'.fn = fn /\ Kept
<1>1. CASE list[n] # NULL
  <2>1. Removed(list[n]) /\ value[list[n]] = value[n] /\ Return("OK", value[n])
    BY <1>1, DetachEffect
  <2>2. Answered' = [err |-> "OK", out |-> value[n]] /\ pc' # "successor"
    BY <2>1, AnsweredNext DEF Return
  <2> QED
    BY <2>1, <2>2, BagRemove
<1>2. CASE list[n] = NULL
  <2>1. /\ op' = [fn |-> fn, key |-> key, node |-> n]
        /\ ret' = [err |-> "none", out |-> value[n]]
        /\ pc' \in {"successor", "fixup_delete", "update_cache"}
        /\ pc' = "successor" => Kept
        /\ pc' # "successor" => Removed(n)
    BY <1>2, DetachEffect
  <2>2. CASE pc' = "successor"
    BY <2>1, <2>2
  <2>3. CASE pc' # "successor"
    <3>1. Answered' = [err |-> "OK", out |-> value[n]]
      BY <2>1, <2>3, AnsweredNext DEF TakePlaces
    <3> QED
      BY <2>1, <2>3, <3>1, BagRemove
  <2> QED
    BY <2>2, <2>3
<1> QED
  BY <1>1, <1>2

\* jfs_bst_get_smallest and jfs_bst_get_largest remove the extreme key.
LEMMA GetIsBag ==
    ASSUME NEW U, NEW H, NEW O, Sound(U, H, O), IndInv, IndInv', CallInv', NEW s \in Side, jfs_bst_get(s)
    PROVE  Bag!Empty \/ (IF s = "left" THEN Bag!GetSmallest ELSE Bag!GetLargest)
<1>1. pc = "idle"
  BY DEF jfs_bst_get
<1>2. CacheHolds(cache, U[tree.root], value)
  BY <1>1 DEF Sound, CacheOK
<1>3. CASE cache[Extreme(s)] = nil
  <2>1. U[tree.root] = {}
    <3>1. nil \notin U[tree.root]
      BY SoundTree
    <3> QED
      BY <1>2, <1>3, <3>1 DEF CacheHolds, Outermost
  <2>2. tree.root = nil
    BY <2>1, SoundTree DEF Shape
  <2>3. UNCHANGED <<tree, value, list>> /\ Return("EMPTY", NULL)
    BY <1>3 DEF jfs_bst_get
  <2>4. Answered' = [err |-> "EMPTY", out |-> NULL] /\ Kept
    BY <2>3, AnsweredNext, KeptSame DEF Return
  <2> QED
    BY <2>2, <2>4, StoredEmpty, BagEmpty
<1>4. CASE cache[Extreme(s)] # nil
  <2> DEFINE n == cache[Extreme(s)]
  <2>1. n \in U[tree.root] /\ bst_detach_and_delete("get", NULL, n)
    BY <1>4, RemovalNode
  <2>2. tree.root # nil
    BY <2>1, SoundTree, ShapeNode
  <2>3. ~(pc' = "successor" /\ op'.fn = "get")
    BY DEF CallInv
  <2>4. Bag!Remove(value[n])
    BY <1>1, <2>1, <2>3, DetachIsBag
  <2>5. /\ Bag!Held # {} /\ Bag!Min(Bag!Held) = value[cache.smallest] /\ Bag!Max(Bag!Held) = value[cache.largest]
    BY <1>1, <2>2, HeldExtremes
  <2>6. CASE s = "left"
    <3>1. n = cache.smallest
      BY <2>6 DEF Extreme
    <3> HIDE DEF n
    <3> QED
      BY <2>4, <2>5, <2>6, <3>1 DEF Bag!GetSmallest
  <2>7. CASE s = "right"
    <3>1. n = cache.largest
      BY <2>7 DEF Extreme
    <3> HIDE DEF n
    <3> QED
      BY <2>4, <2>5, <2>7, <3>1 DEF Bag!GetLargest
  <2> QED
    BY <2>6, <2>7 DEF Side
<1> QED
  BY <1>3, <1>4

\* What a step behind the first one of a call is to the bag.
OfRunningCall ==
    \/ UNCHANGED Bag!vars
    \/ op.fn = "puts"  /\ op.key \in Keys /\ Bag!Put(op.key)
    \/ op.fn = "takes" /\ op.key \in Keys /\ Bag!Take(op.key)

\* The quiet steps but the refusal of a key change nothing.
LEMMA QuietIsBag ==
    ASSUME NEW U, NEW H, NEW O, Sound(U, H, O), IndInv, IndInv', CallInv, CmpMagnitudes = {1},
           QuietStep, ~takes_bad_key
    PROVE  OfRunningCall
<1>1. Kept
  BY QuietEffect
<1>2. Answered' = Answered
  <2>1. CASE puts_done
    <3>1. pc \in PutPlaces /\ Return("OK", NULL)
      BY <2>1 DEF puts_done, PutPlaces
    <3>2. ret = NoRet
      BY <3>1 DEF CallInv
    <3>3. Answered = [err |-> "OK", out |-> NULL]
      BY <3>1, <3>2, AnsweredIs DEF NoRet
    <3> QED
      BY <3>1, <3>3, AnsweredNext DEF Return
  <2>2. ASSUME \/ pc \in {"find", "successor"} /\ pc' = pc
               \/ pc \in PutPlaces /\ pc' \in PutPlaces
               \/ pc \in TakePlaces \ {"successor"} /\ pc' \in TakePlaces \ {"successor"},
               ret' = ret
        PROVE  Answered' = Answered
    BY <2>2, AnsweredIs, AnsweredNext
  <2>3. CASE bst_find_step \/ bst_delete_minimum_step
    BY <2>2, <2>3 DEF bst_find_step, bst_delete_minimum_step
  <2>4. CASE bst_fixup_insert_recolor \/ bst_fixup_insert_rotate
    BY <2>2, <2>4 DEF bst_fixup_insert_recolor, bst_fixup_insert_rotate, InsertLoop, PutPlaces
  <2>5. CASE bst_fixup_delete_recolor \/ bst_fixup_delete_rotate \/ bst_fixup_delete_done
    BY <2>2, <2>5, Zenon DEF bst_fixup_delete_recolor, bst_fixup_delete_rotate, bst_fixup_delete_done, DeleteLoop, TakePlaces
  <2>6. ASSUME NEW s \in Side, update_cache_descend(s) \/ (update_cache_walk(s) /\ pc' # "idle")
        PROVE  Answered' = Answered
    <3>1. pc \in TakePlaces \ {"successor"} /\ pc' \in TakePlaces \ {"successor"} /\ ret' = ret
      BY <2>6, Zenon DEF update_cache_descend, update_cache_walk, RemovedExtreme, FreeAndReturn, Return, Extreme, TakePlaces
    <3> QED
      BY <2>2, <3>1
  <2> QED
    BY <2>1, <2>3, <2>4, <2>5, <2>6 DEF QuietStep
<1> QED
  BY <1>1, <1>2, BagSame DEF OfRunningCall

\* Every step behind the first one of a call.
LEMMA StepIsBag ==
    ASSUME NEW U, NEW H, NEW O, Sound(U, H, O), IndInv, IndInv', CallInv, CmpMagnitudes = {1}, Step
    PROVE  OfRunningCall
<1>1. CASE FreeingStep
  <2>1. Kept /\ pc \in TakePlaces \ {"successor"} /\ Return("OK", ret.out)
    BY <1>1, FreeingEffect DEF TakePlaces
  <2>2. Answered' = Answered
    BY <2>1, AnsweredIs, AnsweredNext DEF Return
  <2> QED
    BY <2>1, <2>2, BagSame DEF OfRunningCall
<1>2. CASE takes_bad_key
  <2>1. NotFound /\ pc = "find" /\ op.fn = "takes" /\ Return("BAD_KEY", NULL) /\ UNCHANGED <<tree, value, list>>
    BY <1>2 DEF takes_bad_key, NotFound
  <2>2. op.key \in Keys /\ tree.root # nil
    BY <2>1 DEF CallInv
  <2>3. \A m \in Stored : value[m] # op.key
    BY <2>1, NotFoundAbsent
  <2>4. Answered' = [err |-> "BAD_KEY", out |-> NULL] /\ Kept
    BY <2>1, AnsweredNext, KeptSame DEF Return
  <2>5. Stored # {}
    BY <2>2, StoredEmpty
  <2>6. Bag!Take(op.key)
    BY <2>2, <2>3, <2>4, <2>5, BagBadKey
  <2> QED
    BY <2>1, <2>2, <2>6 DEF OfRunningCall
<1>3. CASE bst_insert
  <2>1. pc = "find" /\ op.fn = "puts" /\ pc' = "fixup_insert" /\ ret' = ret
    BY <1>3 DEF bst_insert, NotFound
  <2>2. op.key \in Keys /\ ret = NoRet
    BY <2>1 DEF CallInv
  <2>3. Answered' = [err |-> "OK", out |-> NULL]
    BY <2>1, <2>2, AnsweredNext DEF PutPlaces, NoRet
  <2>4. Bag!Put(op.key)
    BY <1>3, <2>2, <2>3, InsertEffect, BagPut
  <2> QED
    BY <2>1, <2>2, <2>4 DEF OfRunningCall
<1>4. CASE puts_duplicate
  <2>1. pc = "find" /\ op.fn = "puts" /\ Return("OK", NULL)
    BY <1>4 DEF puts_duplicate, Found
  <2>2. op.key \in Keys
    BY <2>1 DEF CallInv
  <2>3. Answered' = [err |-> "OK", out |-> NULL]
    BY <2>1, AnsweredNext DEF Return
  <2>4. Bag!Put(op.key)
    BY <1>4, <2>2, <2>3, DuplicateEffect, BagPut
  <2> QED
    BY <2>1, <2>2, <2>4 DEF OfRunningCall
<1>5. CASE takes_found
  <2>1. /\ loc.node \in U[tree.root] /\ op.key = value[loc.node] /\ pc = "find" /\ op.fn = "takes"
        /\ bst_detach_and_delete("takes", op.key, loc.node)
    BY <1>5, RemovalNode
  <2>2. op.key \in Keys
    BY <2>1 DEF CallInv
  <2>3. CASE pc' = "successor"
    <3>1. Kept
      BY <2>1, <2>3, DetachIsBag
    <3>2. Answered' = Answered
      BY <2>1, <2>3, AnsweredIs, AnsweredNext
    <3> QED
      BY <3>1, <3>2, BagSame DEF OfRunningCall
  <2>4. CASE pc' # "successor"
    <3>1. Bag!Remove(op.key)
      BY <2>1, <2>4, DetachIsBag
    <3>2. Bag!Take(op.key)
      BY <3>1 DEF Bag!Take
    <3> QED
      BY <2>1, <2>2, <3>2 DEF OfRunningCall
  <2> QED
    BY <2>3, <2>4
<1>6. CASE bst_delete_splice
  <2>1. Removed(op.node) /\ ret' = ret
    BY <1>6, SpliceEffect
  <2>2. pc = "successor" /\ pc' \in {"fixup_delete", "update_cache"}
    BY <1>6, Zenon DEF bst_delete_splice, AfterDelete
  <2>3. op.fn = "takes" /\ ret.out = value[op.node] /\ op.key = value[op.node]
    BY <2>2 DEF CallInv, TakePlaces
  <2>4. Answered' = [err |-> "OK", out |-> op.key]
    BY <2>1, <2>2, <2>3, AnsweredNext DEF TakePlaces
  <2>5. Bag!Remove(op.key)
    BY <2>1, <2>3, <2>4, BagRemove
  <2>6. Bag!Take(op.key)
    BY <2>5 DEF Bag!Take
  <2>7. op.key \in Keys
    BY <2>1, <2>3, CountsRemoved
  <2> QED
    BY <2>3, <2>6, <2>7 DEF OfRunningCall
<1>7. CASE QuietStep /\ ~takes_bad_key
  BY <1>7, QuietIsBag
<1> QED
  BY <1>1, <1>2, <1>3, <1>4, <1>5, <1>6, <1>7 DEF Step, QuietStep, FreeingStep

\* Every step of the tree is a step of the bag, and the one of its own call.
LEMMA BagStep ==
    ASSUME CmpMagnitudes = {1}, BagInv, BagInv', [Next]_vars, ~TrustsStale, Lost = {}
    PROVE  [Bag!Next]_(Bag!vars) /\ StepOfCall
<1>1. PICK U, H, O : Sound(U, H, O)
  BY DEF BagInv, SoundTreeInv
<1>2. IndInv /\ IndInv' /\ CallInv /\ CallInv'
  BY DEF BagInv, SoundTreeInv
<1>3. ASSUME NEW k \in Keys, jfs_bst_puts(k) PROVE Bag!Begin \/ Bag!Put(k)
  BY <1>1, <1>2, <1>3, PutsIsBag
<1>4. ASSUME NEW k \in Keys, jfs_bst_takes(k) PROVE Bag!Begin \/ Bag!Empty \/ Bag!Take(k)
  BY <1>1, <1>2, <1>4, TakesIsBag
<1>5. ASSUME NEW s \in Side, jfs_bst_get(s)
      PROVE  Bag!Empty \/ (IF s = "left" THEN Bag!GetSmallest ELSE Bag!GetLargest)
  BY <1>1, <1>2, <1>5, GetIsBag
<1>6. Step => OfRunningCall
  BY <1>1, <1>2, StepIsBag
<1>7. (jfs_bst_get("left") => Bag!Empty \/ Bag!GetSmallest) /\ (jfs_bst_get("right") => Bag!Empty \/ Bag!GetLargest)
  BY <1>5, Sides
<1>8. StepOfCall
  BY <1>3, <1>4, <1>6, <1>7 DEF StepOfCall, OfRunningCall
<1>9. UNCHANGED vars => UNCHANGED Bag!vars
  <2>1. SUFFICES ASSUME UNCHANGED vars PROVE UNCHANGED Bag!vars
    OBVIOUS
  <2>2. Kept
    BY <2>1, KeptSame DEF vars
  <2>3. Answered' = Answered
    BY <2>1 DEF vars, Answered, TookEffect
  <2> QED
    BY <2>2, <2>3, BagSame
<1>10. Step => [Bag!Next]_(Bag!vars)
  BY <1>6 DEF OfRunningCall, Bag!Next
<1>11. Call => Bag!Next
  BY <1>3, <1>4, <1>5 DEF Call, Bag!Next
<1> QED
  BY <1>8, <1>9, <1>10, <1>11 DEF Next

\* jfs_bst_init leaves an empty bag.
LEMMA BagInit == Init => Bag!Init
<1> SUFFICES ASSUME Init PROVE Bag!Init
  OBVIOUS
<1>1. PICK U, H, O : Sound(U, H, O)
  BY InitSound DEF SoundTreeInv
<1>2. IndInv /\ tree.root = nil /\ pc = "idle" /\ ret = NoRet
  BY InitSound DEF SoundTreeInv, Init
<1>3. Stored = {}
  BY <1>1, <1>2, StoredEmpty
<1>4. Counts = [k \in Keys |-> 0]
  <2>1. \A k : Having(Stored, value, k) = {}
    BY <1>3 DEF Having
  <2> QED
    BY <2>1, CountsIs, FS_EmptySet
<1>5. Cardinality(Stored) = 0
  BY <1>3, FS_EmptySet
<1>6. Answered = NoRet
  BY <1>2, AnsweredIs
<1> QED
  BY <1>4, <1>5, <1>6 DEF Bag!Init, Bag!Nothing, NoRet

\* For every set of nodes and keys, when cmp answers -1, 0 or 1: the tree is an
\* ordered bag.  Each call takes effect in one of its steps, and that step is
\* the bag's operation of this call with its key: jfs_bst_puts adds one value or finds
\* all nodes used, jfs_bst_takes hands out a value with the key or says truly
\* that there is none, jfs_bst_get_smallest and jfs_bst_get_largest remove an extreme.
\* Excepted are a call that trusts a cache.previous that is not stored, and
\* what follows once such a call has lost a node.
THEOREM TreeImplementsOrderedBag ==
    ASSUME CmpMagnitudes = {1}
    PROVE  Spec => ImplementsOrderedBag
<1> DEFINE A == ~TrustsStale /\ Lost = {} => [Bag!Next]_(Bag!vars) /\ StepOfCall
<1>1. BagInv /\ BagInv' /\ [Next]_vars => [A]_vars
  BY BagStep
<1> QED
  BY <1>1, AlwaysBagInv, BagInit, PTL DEF Spec, ImplementsOrderedBag

\* The conjunction that the run on deeper trees checks: between calls a search
\* tree, red-black, with the extremes in the cache, and inside a call no walk off the
\* tree and no failed assert but that of line 302, in trees of every size.
THEOREM TreeStaysSound ==
    ASSUME CmpMagnitudes = {1}
    PROVE  Spec => []TreeIsSound
<1>1. SoundTreeInv => TreeIsSound
  BY SoundImplies DEF TreeIsSound
<1> QED
  BY <1>1, AlwaysSound, PTL
=============================================================================
