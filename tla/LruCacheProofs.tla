-------------------------- MODULE LruCacheProofs --------------------------
(***************************************************************************)
(* For every set of keys and every obj_count: the slots never hold a key   *)
(* twice, the caller's loads and evictions balance, and the cache evicts   *)
(* what has not been used for longest, as RecencyCache does.               *)
(***************************************************************************)
EXTENDS LruCache, FiniteSetTheorems, TLAPS

\* What the running call knows: which slots the search has passed, that a slot
\* is set aside for the object, that the object is in it.
CallInv ==
    /\ pc = "search" => i <= count /\ \A j \in 0 .. i - 1 : mem[j] # key
    /\ pc \in {"miss", "promote"} => count >= 1
    /\ pc = "miss" => \A j \in 0 .. count - 2 : mem[j] # key
    /\ pc = "promote" => mem[count - 1] = key
    /\ pc = "free" => i <= count

IndInv == TypeOK /\ NoKeyTwice /\ LoadsBalance /\ CallInv

-----------------------------------------------------------------------------
(* lru_promote *)

\* lru_promote moves slot index to the front, the slots before it up by one,
\* and leaves the rest alone.
LEMMA PromoteMoves ==
    ASSUME NEW m \in [Slots -> Keys], NEW index \in Slots
    PROVE  /\ lru_promote(m, index) \in [Slots -> Keys]
           /\ \A j \in Slots :
                  lru_promote(m, index)[j] = IF j = 0 THEN m[index]
                                             ELSE IF j <= index THEN m[j - 1] ELSE m[j]
  BY ObjCountAssumption, SMT
     DEF lru_promote, jfs_mb_remap, jfs_mb_write, Slots, Capacity, make_desc_count

\* The first c slots hold different keys; one of them holds k.
Distinct(m, c) == \A a, b \in 0 .. c - 1 : m[a] = m[b] => a = b
Holds(m, c, k) == \E j \in 0 .. c - 1 : m[j] = k

\* Promoting one of the first c slots permutes them: no key appears twice that
\* did not before, and the same keys are there.
LEMMA PromotePermutes ==
    ASSUME NEW m \in [Slots -> Keys], NEW c \in 0 .. Capacity, NEW index \in 0 .. c - 1
    PROVE  /\ Distinct(m, c) => Distinct(lru_promote(m, index), c)
           /\ \A k \in Keys : Holds(lru_promote(m, index), c, k) <=> Holds(m, c, k)
  <1> DEFINE p == lru_promote(m, index)
             from(j) == IF j = 0 THEN index ELSE IF j <= index THEN j - 1 ELSE j
             to(j) == IF j = index THEN 0 ELSE IF j < index THEN j + 1 ELSE j
  <1>1. index \in Slots /\ 0 .. c - 1 \subseteq Slots
    BY ObjCountAssumption DEF Slots, Capacity, make_desc_count
  <1>2. \A j \in 0 .. c - 1 : p[j] = m[from(j)]
    BY <1>1, PromoteMoves
  <1>3. \A j \in 0 .. c - 1 : from(j) \in 0 .. c - 1 /\ to(j) \in 0 .. c - 1 /\ from(to(j)) = j
    BY ObjCountAssumption DEF Capacity, make_desc_count
  <1>4. \A a, b \in 0 .. c - 1 : from(a) = from(b) => a = b
    BY ObjCountAssumption DEF Capacity, make_desc_count
  <1> HIDE DEF p, from, to
  <1>5. ASSUME Distinct(m, c)
        PROVE  Distinct(p, c)
    BY <1>2, <1>3, <1>4, <1>5 DEF Distinct
  <1>6. ASSUME NEW k \in Keys
        PROVE  Holds(p, c, k) <=> Holds(m, c, k)
    BY <1>2, <1>3 DEF Holds
  <1> QED
    BY <1>5, <1>6 DEF p

-----------------------------------------------------------------------------
(* The inductive invariant *)

\* There is at least one slot, and slot count - 1 is one of them.
LEMMA SlotsFacts ==
    /\ Capacity \in Nat /\ Capacity >= 1
    /\ Slots = 0 .. Capacity - 1
    /\ \A c \in 0 .. Capacity : 0 .. c - 1 \subseteq Slots
  BY ObjCountAssumption DEF Slots, Capacity, make_desc_count

\* An uninitialised cache holds nothing, whatever its memory looks like.
LEMMA InitInv == Init => IndInv
  BY SlotsFacts DEF Init, IndInv, TypeOK, NoKeyTwice, LoadsBalance, Loaded, CallInv

\* A promotion while every slot in use holds an object keeps the keys apart and
\* the callbacks balanced.
LEMMA PromoteStep ==
    ASSUME IndInv, NEW index \in 0 .. count - 1,
           mem' = lru_promote(mem, index), loads' = loads,
           Loaded = 0 .. count - 1, Loaded' = 0 .. count - 1
    PROVE  NoKeyTwice' /\ LoadsBalance'
  <1> DEFINE p == lru_promote(mem, index)
  <1>1. mem \in [Slots -> Keys] /\ count \in 0 .. Capacity
    BY DEF IndInv, TypeOK
  <1>2. Distinct(mem, count)
    BY DEF IndInv, NoKeyTwice, Distinct
  <1>3. /\ Distinct(p, count)
        /\ \A k \in Keys : Holds(p, count, k) <=> Holds(mem, count, k)
    BY <1>1, <1>2, PromotePermutes
  <1>4. mem' = p
    OBVIOUS
  <1> HIDE DEF p
  <1>5. NoKeyTwice'
    BY <1>3, <1>4 DEF Distinct, NoKeyTwice
  <1>6. LoadsBalance'
    <2>1. ASSUME NEW k \in Keys
          PROVE  loads[k] = IF Holds(mem, count, k) THEN 1 ELSE 0
      BY DEF IndInv, LoadsBalance, Holds
    <2>2. ASSUME NEW k \in Keys
          PROVE  loads'[k] = IF Holds(p, count, k) THEN 1 ELSE 0
      BY <1>3, <2>1
    <2> QED
      BY <1>4, <2>2 DEF LoadsBalance, Holds
  <1> QED
    BY <1>5, <1>6

\* No step of jfs_lru_init, jfs_lru_access or jfs_lru_free breaks the invariant.
LEMMA InductiveStep == IndInv /\ [Next]_vars => IndInv'
  <1> SUFFICES ASSUME IndInv, [Next]_vars PROVE IndInv'
    OBVIOUS
  <1> USE SlotsFacts
  <1>t. /\ mem \in [Slots -> Keys] /\ count \in 0 .. Capacity
        /\ key \in Keys /\ i \in 0 .. Capacity /\ loads \in [Keys -> Int]
    BY DEF IndInv, TypeOK
  <1>1. CASE jfs_lru_init
    BY <1>1 DEF jfs_lru_init, IndInv, TypeOK, NoKeyTwice, LoadsBalance, Loaded, CallInv
  <1>2. CASE jfs_lru_free
    BY <1>2 DEF jfs_lru_free, IndInv, TypeOK, NoKeyTwice, LoadsBalance, Loaded, CallInv
  <1>3. ASSUME NEW k \in Keys, jfs_lru_access(k) PROVE IndInv'
    BY <1>3 DEF jfs_lru_access, IndInv, TypeOK, NoKeyTwice, LoadsBalance, Loaded, CallInv
  <1>4. CASE access_next
    BY <1>4 DEF access_next, IndInv, TypeOK, NoKeyTwice, LoadsBalance, Loaded, CallInv
  <1>5. CASE access_hit
    <2>1. i \in 0 .. count - 1 /\ i \in Slots
      BY <1>t, <1>5 DEF access_hit
    <2>2. TypeOK' /\ CallInv'
      BY <1>5, <1>t, <2>1, PromoteMoves DEF access_hit, IndInv, TypeOK, CallInv
    <2>3. Loaded = 0 .. count - 1 /\ Loaded' = 0 .. count - 1
      BY <1>5 DEF access_hit, Loaded
    <2>4. NoKeyTwice' /\ LoadsBalance'
      <3>1. CASE i = 0
        BY <1>5, <2>3, <3>1 DEF access_hit, IndInv, NoKeyTwice, LoadsBalance
      <3>2. CASE i # 0
        <4>1. mem' = lru_promote(mem, i) /\ loads' = loads
          BY <1>5, <3>2 DEF access_hit
        <4> QED BY <2>1, <2>3, <4>1, PromoteStep
      <3> QED BY <3>1, <3>2
    <2> QED BY <2>2, <2>4 DEF IndInv
  <1>6. CASE access_grow
    BY <1>6, <1>t DEF access_grow, IndInv, TypeOK, NoKeyTwice, LoadsBalance, Loaded, CallInv
  <1>7. CASE access_evict
    <2>1. count = Capacity /\ count - 1 \in Slots
      BY <1>7, <1>t DEF access_evict
    <2>2. TypeOK' /\ CallInv'
      BY <1>7, <1>t, <2>1 DEF access_evict, IndInv, TypeOK, CallInv
    <2>3. Loaded = 0 .. count - 1 /\ Loaded' = 0 .. count - 2
      BY <1>7, <1>t DEF access_evict, Loaded
    <2>4. NoKeyTwice'
      BY <1>7, <1>t, <2>3 DEF access_evict, IndInv, NoKeyTwice
    <2>5. LoadsBalance'
      <3>1. SUFFICES ASSUME NEW k \in Keys
                     PROVE  loads'[k] = IF \E j \in 0 .. count - 2 : mem[j] = k THEN 1 ELSE 0
        BY <1>7, <2>3 DEF access_evict, LoadsBalance
      <3>2. loads[k] = IF \E j \in 0 .. count - 1 : mem[j] = k THEN 1 ELSE 0
        BY <2>3 DEF IndInv, LoadsBalance
      <3>3. CASE k = mem[count - 1]
        <4>1. loads'[k] = 0
          BY <1>7, <1>t, <2>1, <3>2, <3>3 DEF access_evict
        <4>2. \A j \in 0 .. count - 2 : mem[j] # k
          BY <1>t, <2>1, <2>3, <3>3 DEF IndInv, NoKeyTwice
        <4> QED BY <4>1, <4>2
      <3>4. CASE k # mem[count - 1]
        <4>1. loads'[k] = loads[k]
          BY <1>7, <1>t, <3>4 DEF access_evict
        <4> QED BY <1>t, <2>1, <3>2, <3>4, <4>1
      <3> QED BY <3>3, <3>4
    <2> QED BY <2>2, <2>4, <2>5 DEF IndInv
  <1>8. CASE access_miss
    <2>1. count >= 1 /\ count - 1 \in Slots
      BY <1>8, <1>t DEF access_miss, IndInv, CallInv
    <2>2. /\ mem'[count - 1] = key
          /\ \A j \in 0 .. count - 2 : mem'[j] = mem[j] /\ mem[j] # key
      BY <1>8, <1>t, <2>1 DEF access_miss, jfs_mb_write, IndInv, CallInv
    <2>3. TypeOK' /\ CallInv'
      BY <1>8, <1>t, <2>1, <2>2 DEF access_miss, jfs_mb_write, IndInv, TypeOK, CallInv
    <2>4. Loaded = 0 .. count - 2 /\ Loaded' = 0 .. count - 1
      BY <1>8, <1>t DEF access_miss, Loaded
    <2>5. NoKeyTwice'
      BY <1>t, <2>1, <2>2, <2>4 DEF IndInv, NoKeyTwice
    <2>6. LoadsBalance'
      <3>1. SUFFICES ASSUME NEW k \in Keys
                     PROVE  loads'[k] = IF \E j \in 0 .. count - 1 : mem'[j] = k THEN 1 ELSE 0
        BY <2>4 DEF LoadsBalance
      <3>2. loads[k] = IF \E j \in 0 .. count - 2 : mem[j] = k THEN 1 ELSE 0
        BY <2>4 DEF IndInv, LoadsBalance
      <3>3. CASE k = key
        BY <1>8, <1>t, <2>1, <2>2, <3>2, <3>3 DEF access_miss
      <3>4. CASE k # key
        <4>1. loads'[k] = loads[k]
          BY <1>8, <1>t, <3>4 DEF access_miss
        <4>2. ASSUME NEW j \in 0 .. count - 1, mem'[j] = k
              PROVE  \E l \in 0 .. count - 2 : mem[l] = k
          <5>1. j \in 0 .. count - 2
            BY <1>t, <2>1, <2>2, <3>4, <4>2
          <5> QED BY <2>2, <4>2, <5>1
        <4>3. ASSUME NEW j \in 0 .. count - 2, mem[j] = k
              PROVE  \E l \in 0 .. count - 1 : mem'[l] = k
          <5>1. j \in 0 .. count - 1
            BY <1>t, <2>1
          <5> QED BY <2>2, <4>3, <5>1
        <4> QED BY <3>2, <4>1, <4>2, <4>3
      <3> QED BY <3>3, <3>4
    <2> QED BY <2>3, <2>5, <2>6 DEF IndInv
  <1>9. CASE access_promote
    <2>1. count - 1 \in 0 .. count - 1 /\ count - 1 \in Slots
      BY <1>9, <1>t DEF access_promote, IndInv, CallInv
    <2>2. TypeOK' /\ CallInv'
      BY <1>9, <1>t, <2>1, PromoteMoves DEF access_promote, IndInv, TypeOK, CallInv
    <2>3. Loaded = 0 .. count - 1 /\ Loaded' = 0 .. count - 1
      BY <1>9 DEF access_promote, Loaded
    <2>4. NoKeyTwice' /\ LoadsBalance'
      BY <1>9, <2>1, <2>3, PromoteStep DEF access_promote
    <2> QED BY <2>2, <2>4 DEF IndInv
  <1>10. CASE free_evict
    <2>1. i \in Slots /\ i < count
      BY <1>10, <1>t DEF free_evict
    <2>2. TypeOK' /\ CallInv'
      BY <1>10, <1>t, <2>1 DEF free_evict, IndInv, TypeOK, CallInv
    <2>3. Loaded = i .. count - 1 /\ Loaded' = i + 1 .. count - 1
      BY <1>10, <1>t DEF free_evict, Loaded
    <2>4. NoKeyTwice'
      BY <1>10, <1>t, <2>3 DEF free_evict, IndInv, NoKeyTwice
    <2>5. LoadsBalance'
      <3>1. SUFFICES ASSUME NEW k \in Keys
                     PROVE  loads'[k] = IF \E j \in i + 1 .. count - 1 : mem[j] = k THEN 1 ELSE 0
        BY <1>10, <2>3 DEF free_evict, LoadsBalance
      <3>2. loads[k] = IF \E j \in i .. count - 1 : mem[j] = k THEN 1 ELSE 0
        BY <2>3 DEF IndInv, LoadsBalance
      <3>3. CASE k = mem[i]
        <4>1. loads'[k] = 0
          BY <1>10, <1>t, <2>1, <3>2, <3>3 DEF free_evict
        <4>2. \A j \in i + 1 .. count - 1 : mem[j] # k
          BY <1>t, <2>1, <2>3, <3>3 DEF IndInv, NoKeyTwice
        <4> QED BY <4>1, <4>2
      <3>4. CASE k # mem[i]
        <4>1. loads'[k] = loads[k]
          BY <1>10, <1>t, <3>4 DEF free_evict
        <4> QED BY <1>t, <2>1, <3>2, <3>4, <4>1
      <3> QED BY <3>3, <3>4
    <2> QED BY <2>2, <2>4, <2>5 DEF IndInv
  <1>11. CASE free_done
    BY <1>11, <1>t DEF free_done, IndInv, TypeOK, NoKeyTwice, LoadsBalance, Loaded, CallInv
  <1>12. CASE UNCHANGED vars
    BY <1>12 DEF vars, IndInv, TypeOK, NoKeyTwice, LoadsBalance, Loaded, CallInv
  <1> QED
    BY <1>1, <1>2, <1>3, <1>4, <1>5, <1>6, <1>7, <1>8, <1>9, <1>10, <1>11, <1>12 DEF Next, Step

\* The invariant holds of every behaviour.
LEMMA Invariance == Spec => []IndInv
  BY InitInv, InductiveStep, PTL DEF Spec

-----------------------------------------------------------------------------
(* The theorems *)

\* Whatever obj_count is, no variable leaves its type: in particular count
\* never passes the capacity, so the assert of jfs_lru_access holds.
THEOREM TypeCorrect == Spec => []TypeOK
  BY Invariance, PTL DEF IndInv

\* Whatever the uncleared memory holds at first, jfs_lru_access never keeps a
\* key in two slots.
THEOREM KeysStayDistinct == Spec => []NoKeyTwice
  BY Invariance, PTL DEF IndInv

\* Every object miss has loaded is in exactly one slot until evict drops it,
\* and jfs_lru_free drops the rest.
THEOREM LoadsStayBalanced == Spec => []LoadsBalance
  BY Invariance, PTL DEF IndInv

-----------------------------------------------------------------------------
(* The slots as a recency order *)

\* The keys in the first c slots of m, and which of two of them comes first.
Held(m, c)  == {m[j] : j \in 0 .. c - 1}
Newer(m, c) ==
    {<<m[p[1]], m[p[2]]>> : p \in {q \in (0 .. c - 1) \X (0 .. c - 1) : q[1] < q[2]}}

\* One slot holds a key before another holds the other.
Before(m, c, x, y) == \E a, b \in 0 .. c - 1 : a < b /\ m[a] = x /\ m[b] = y

\* The members of Newer are the pairs of which one comes before the other.
LEMMA NewerMember ==
    ASSUME NEW m, NEW c \in Nat, NEW x, NEW y
    PROVE  <<x, y>> \in Newer(m, c) <=> Before(m, c, x, y)
  <1>1. ASSUME <<x, y>> \in Newer(m, c) PROVE Before(m, c, x, y)
    <2>1. PICK p \in (0 .. c - 1) \X (0 .. c - 1) : p[1] < p[2] /\ <<x, y>> = <<m[p[1]], m[p[2]]>>
      BY <1>1 DEF Newer
    <2> QED BY <2>1 DEF Before
  <1>2. ASSUME Before(m, c, x, y) PROVE <<x, y>> \in Newer(m, c)
    <2>1. PICK a \in 0 .. c - 1, b \in 0 .. c - 1 : a < b /\ m[a] = x /\ m[b] = y
      BY <1>2 DEF Before
    <2>2. <<a, b>> \in {q \in (0 .. c - 1) \X (0 .. c - 1) : q[1] < q[2]}
      BY <2>1
    <2>3. <<m[a], m[b]>> \in Newer(m, c)
      BY <2>2 DEF Newer
    <2> QED BY <2>1, <2>3
  <1> QED BY <1>1, <1>2

\* Keys and pairs of keys are all there is.
LEMMA NewerType ==
    ASSUME NEW m \in [Slots -> Keys], NEW c \in 0 .. Capacity
    PROVE  Held(m, c) \subseteq Keys /\ Newer(m, c) \subseteq Keys \X Keys
  BY SlotsFacts DEF Held, Newer

\* Different keys in c slots are c keys.
LEMMA HeldCounts ==
    ASSUME NEW m \in [Slots -> Keys], NEW c \in 0 .. Capacity, Distinct(m, c)
    PROVE  Cardinality(Held(m, c)) = c
  <1> DEFINE f == [j \in 1 .. c |-> m[j - 1]]
  <1> USE SlotsFacts
  <1>1. f \in [1 .. c -> Held(m, c)]
    BY DEF Held
  <1>2. \A a, b \in 1 .. c : f[a] = f[b] => a = b
    BY DEF Distinct
  <1>3. \A k \in Held(m, c) : \E j \in 1 .. c : f[j] = k
    <2> SUFFICES ASSUME NEW i0 \in 0 .. c - 1 PROVE \E j \in 1 .. c : f[j] = m[i0]
      BY DEF Held
    <2>1. i0 + 1 \in 1 .. c /\ f[i0 + 1] = m[i0]
      OBVIOUS
    <2> QED BY <2>1
  <1> HIDE DEF f
  <1>4. f \in Bijection(1 .. c, Held(m, c))
    BY <1>1, <1>2, <1>3 DEF Bijection, Injection, Surjection, IsInjective
  <1> QED BY <1>4, FS_CountingElements DEF ExistsBijection

\* Moving slot index to the front makes its key newer than all others and
\* leaves the order of the others alone.
LEMMA PromoteOrder ==
    ASSUME NEW m \in [Slots -> Keys], NEW c \in 0 .. Capacity, NEW index \in 0 .. c - 1,
           Distinct(m, c)
    PROVE  LET k == m[index]
               P == lru_promote(m, index)
           IN  /\ Held(P, c) = Held(m, c)
               /\ \A x, y \in Keys :
                     Before(P, c, x, y) <=> \/ x # k /\ y # k /\ Before(m, c, x, y)
                                            \/ x = k /\ y \in Held(m, c) \ {k}
  <1> DEFINE k == m[index]
             P == lru_promote(m, index)
             from(j) == IF j = 0 THEN index ELSE IF j <= index THEN j - 1 ELSE j
             to(j) == IF j = index THEN 0 ELSE IF j < index THEN j + 1 ELSE j
  <1> USE SlotsFacts
  <1>1. index \in Slots /\ 0 .. c - 1 \subseteq Slots
    OBVIOUS
  <1>2. \A j \in 0 .. c - 1 : P[j] = m[from(j)]
    BY <1>1, PromoteMoves
  <1>3. \A j \in 0 .. c - 1 : from(j) \in 0 .. c - 1 /\ to(j) \in 0 .. c - 1 /\ from(to(j)) = j
    OBVIOUS
  <1>4. \A a, b \in 0 .. c - 1 : a # 0 /\ b # 0 => (a < b <=> from(a) < from(b))
    OBVIOUS
  <1>5. \A a, b \in 0 .. c - 1 : a # index /\ b # index => (a < b <=> to(a) < to(b))
    OBVIOUS
  <1>6. from(0) = index /\ to(index) = 0 /\ 0 \in 0 .. c - 1
        /\ \A a \in 0 .. c - 1 : a # index => to(a) > 0
        /\ \A b \in 0 .. c - 1 : b # 0 => from(b) # index
    OBVIOUS
  <1>7. \A j \in 0 .. c - 1 : P[to(j)] = m[j]
    BY <1>2, <1>3
  <1>8. P[0] = k /\ \A j \in 0 .. c - 1 : (m[j] = k <=> j = index) /\ (P[j] = k <=> j = 0)
    BY <1>2, <1>3, <1>6 DEF Distinct
  <1> HIDE DEF P, from, to, k
  <1>9. Held(P, c) = Held(m, c)
    <2>1. ASSUME NEW j \in 0 .. c - 1 PROVE P[j] \in Held(m, c)
      <3>1. from(j) \in 0 .. c - 1 /\ P[j] = m[from(j)]
        BY <1>2, <1>3
      <3> QED BY <3>1 DEF Held
    <2>2. ASSUME NEW j \in 0 .. c - 1 PROVE m[j] \in Held(P, c)
      <3>1. to(j) \in 0 .. c - 1 /\ P[to(j)] = m[j]
        BY <1>3, <1>7
      <3> QED BY <3>1 DEF Held
    <2> QED BY <2>1, <2>2 DEF Held
  <1>10. ASSUME NEW x \in Keys, NEW y \in Keys, Before(P, c, x, y)
         PROVE  \/ x # k /\ y # k /\ Before(m, c, x, y)
                \/ x = k /\ y \in Held(m, c) \ {k}
    <2>1. PICK a \in 0 .. c - 1, b \in 0 .. c - 1 : a < b /\ P[a] = x /\ P[b] = y
      BY <1>10 DEF Before
    <2>2. b # 0 /\ y # k /\ m[from(b)] = y
      BY <1>2, <1>8, <2>1
    <2>3. CASE a = 0
      BY <1>3, <1>8, <2>1, <2>2, <2>3 DEF Held
    <2>4. CASE a # 0
      <3>1. x # k /\ m[from(a)] = x /\ from(a) < from(b)
        BY <1>2, <1>4, <1>8, <2>1, <2>2, <2>4
      <3> QED BY <1>3, <2>2, <3>1 DEF Before
    <2> QED BY <2>3, <2>4
  <1>11. ASSUME NEW x \in Keys, NEW y \in Keys, x # k, y # k, Before(m, c, x, y)
         PROVE  Before(P, c, x, y)
    <2>1. PICK a \in 0 .. c - 1, b \in 0 .. c - 1 : a < b /\ m[a] = x /\ m[b] = y
      BY <1>11 DEF Before
    <2>2. a # index /\ b # index
      BY <1>8, <1>11, <2>1
    <2>3. to(a) < to(b) /\ P[to(a)] = x /\ P[to(b)] = y
      BY <1>5, <1>7, <2>1, <2>2
    <2> QED BY <1>3, <2>3 DEF Before
  <1>12. ASSUME NEW y \in Held(m, c) \ {k}
         PROVE  Before(P, c, k, y)
    <2>1. PICK b \in 0 .. c - 1 : m[b] = y
      BY DEF Held
    <2>2. b # index
      BY <1>8, <2>1
    <2>3. 0 < to(b) /\ P[to(b)] = y
      BY <1>6, <1>7, <2>1, <2>2
    <2> QED BY <1>3, <1>6, <1>8, <2>3 DEF Before
  <1> QED BY <1>9, <1>10, <1>11, <1>12 DEF P, k

\* A set of pairs is given by its pairs: the order after a use of k.
LEMMA UsedOrder ==
    ASSUME NEW H \in SUBSET Keys, NEW N \in SUBSET (Keys \X Keys), NEW k \in Keys,
           NEW M \in SUBSET (Keys \X Keys),
           \A x, y \in Keys : <<x, y>> \in M <=> \/ <<x, y>> \in N /\ x \in H \ {k} /\ y \in H \ {k}
                                                 \/ x = k /\ y \in H \ {k}
    PROVE  M = {p \in N : {p[1], p[2]} \subseteq H \ {k}} \cup ({k} \X (H \ {k}))
  <1> DEFINE L == {p \in N : {p[1], p[2]} \subseteq H \ {k}} \cup ({k} \X (H \ {k}))
  <1>1. \A x, y \in Keys : <<x, y>> \in L <=> \/ <<x, y>> \in N /\ x \in H \ {k} /\ y \in H \ {k}
                                              \/ x = k /\ y \in H \ {k}
    OBVIOUS
  <1>2. L \in SUBSET (Keys \X Keys)
    OBVIOUS
  <1> HIDE DEF L
  <1>3. \A p \in Keys \X Keys : p \in M <=> p \in L
    BY <1>1
  <1> QED BY <1>2, <1>3 DEF L

\* The cache as the recency order that the slots stand for.
HeldNow  == {Placed[j] : j \in InUse}
NewerNow == {<<Placed[p[1]], Placed[p[2]]>> : p \in {q \in InUse \X InUse : q[1] < q[2]}}

\* While no object is being placed the order is that of the slots.
LEMMA NowIsSlots ==
    /\ pc \in {"idle", "search"} => HeldNow = Held(mem, count) /\ NewerNow = Newer(mem, count)
    /\ pc \in {"raw", "free"} => HeldNow = {} /\ NewerNow = {}
    /\ pc = "miss" =>
        LET P == lru_promote(jfs_mb_write(mem, key, count - 1), count - 1)
        IN  HeldNow = Held(P, count) /\ NewerNow = Newer(P, count)
    /\ pc = "promote" =>
        LET P == lru_promote(mem, count - 1)
        IN  HeldNow = Held(P, count) /\ NewerNow = Newer(P, count)
  BY DEF HeldNow, NewerNow, Held, Newer, Placed, InUse

\* The same of the next state.
LEMMA NowIsSlotsNext ==
    /\ pc' \in {"idle", "search"} => HeldNow' = Held(mem', count') /\ NewerNow' = Newer(mem', count')
    /\ pc' \in {"raw", "free"} => HeldNow' = {} /\ NewerNow' = {}
    /\ pc' = "miss" =>
        LET P == lru_promote(jfs_mb_write(mem', key', count' - 1), count' - 1)
        IN  HeldNow' = Held(P, count') /\ NewerNow' = Newer(P, count')
    /\ pc' = "promote" =>
        LET P == lru_promote(mem', count' - 1)
        IN  HeldNow' = Held(P, count') /\ NewerNow' = Newer(P, count')
  BY DEF HeldNow, NewerNow, Held, Newer, Placed, InUse

\* A hit uses a key that is held.
LEMMA HitUses ==
    ASSUME IndInv, access_hit
    PROVE  /\ key \in HeldNow /\ HeldNow' = HeldNow
           /\ NewerNow' = {p \in NewerNow : {p[1], p[2]} \subseteq HeldNow' \ {key}}
                          \cup ({key} \X (HeldNow' \ {key}))
  <1> USE SlotsFacts
  <1>t. /\ mem \in [Slots -> Keys] /\ count \in 0 .. Capacity /\ key \in Keys
        /\ i \in 0 .. count - 1 /\ mem[i] = key /\ count' = count
    BY DEF IndInv, TypeOK, access_hit
  <1>1. Distinct(mem, count)
    BY <1>t DEF IndInv, NoKeyTwice, Loaded, Distinct, access_hit
  <1> DEFINE P == lru_promote(mem, i)
  <1>2. /\ Held(P, count) = Held(mem, count)
        /\ \A x, y \in Keys :
              Before(P, count, x, y) <=> \/ x # key /\ y # key /\ Before(mem, count, x, y)
                                         \/ x = key /\ y \in Held(mem, count) \ {key}
    BY <1>t, <1>1, PromoteOrder
  <1>3. P \in [Slots -> Keys] /\ mem' = P
    <2>1. P \in [Slots -> Keys] /\ \A j \in Slots : P[j] = IF j = 0 THEN mem[i]
                                             ELSE IF j <= i THEN mem[j - 1] ELSE mem[j]
      BY <1>t, PromoteMoves
    <2>2. CASE i = 0
      <3>1. mem' = mem
        BY <2>2 DEF access_hit
      <3>2. \A j \in Slots : P[j] = mem[j]
        BY <1>t, <2>1, <2>2
      <3> QED BY <1>t, <2>1, <3>1, <3>2
    <2>3. CASE i # 0
      BY <2>1, <2>3 DEF access_hit
    <2> QED BY <2>2, <2>3
  <1>4. /\ HeldNow = Held(mem, count) /\ NewerNow = Newer(mem, count)
        /\ HeldNow' = Held(P, count) /\ NewerNow' = Newer(P, count)
    BY <1>t, <1>3, NowIsSlots, NowIsSlotsNext DEF access_hit
  <1> HIDE DEF P
  <1>5. key \in Held(mem, count)
    BY <1>t DEF Held
  <1>6. /\ Held(P, count) \subseteq Keys /\ Newer(mem, count) \subseteq Keys \X Keys
        /\ Newer(P, count) \subseteq Keys \X Keys
    BY <1>t, <1>3, NewerType
  <1>7. \A x, y \in Keys : <<x, y>> \in Newer(mem, count) => x \in Held(mem, count) /\ y \in Held(mem, count)
    BY <1>t, NewerMember DEF Before, Held
  <1>8. \A x, y \in Keys :
            <<x, y>> \in Newer(P, count) <=>
                \/ <<x, y>> \in Newer(mem, count) /\ x \in Held(P, count) \ {key} /\ y \in Held(P, count) \ {key}
                \/ x = key /\ y \in Held(P, count) \ {key}
    <2>1. \A x, y \in Keys : /\ <<x, y>> \in Newer(P, count) <=> Before(P, count, x, y)
                             /\ <<x, y>> \in Newer(mem, count) <=> Before(mem, count, x, y)
      <3>1. count \in Nat
        BY <1>t
      <3> QED BY <3>1, NewerMember
    <2> QED BY <1>2, <1>7, <2>1
  <1>9. Newer(P, count) = {p \in Newer(mem, count) : {p[1], p[2]} \subseteq Held(P, count) \ {key}}
                          \cup ({key} \X (Held(P, count) \ {key}))
    BY <1>t, <1>6, <1>8, UsedOrder
  <1> QED BY <1>2, <1>4, <1>5, <1>9

\* After a search that found nothing the key is in no slot.
LEMMA SearchMissed ==
    ASSUME IndInv, pc = "search", i >= count
    PROVE  /\ mem \in [Slots -> Keys] /\ count \in 0 .. Capacity /\ key \in Keys
           /\ Distinct(mem, count) /\ key \notin Held(mem, count)
           /\ Cardinality(Held(mem, count)) = count
  <1>1. /\ mem \in [Slots -> Keys] /\ count \in 0 .. Capacity /\ key \in Keys /\ i \in 0 .. Capacity
    BY DEF IndInv, TypeOK
  <1>2. Distinct(mem, count)
    BY <1>1 DEF IndInv, NoKeyTwice, Loaded, Distinct
  <1>3. key \notin Held(mem, count)
    BY <1>1, SlotsFacts DEF IndInv, CallInv, Held
  <1> QED BY <1>1, <1>2, <1>3, HeldCounts

\* Writing a key that no slot holds into slot d - 1, the next free one or the
\* last, and promoting it uses the key: the slots before d - 1 keep their order.
LEMMA MissOrder ==
    ASSUME NEW m \in [Slots -> Keys], NEW c \in 0 .. Capacity, Distinct(m, c),
           NEW k \in Keys, k \notin Held(m, c),
           NEW d \in 1 .. Capacity, d \in {c, c + 1}
    PROVE  LET P == lru_promote(jfs_mb_write(m, k, d - 1), d - 1)
           IN  /\ Held(P, d) = Held(m, d - 1) \cup {k}
               /\ Newer(P, d) = {p \in Newer(m, c) : {p[1], p[2]} \subseteq Held(P, d) \ {k}}
                                \cup ({k} \X (Held(P, d) \ {k}))
  <1> DEFINE w == jfs_mb_write(m, k, d - 1)
             P == lru_promote(w, d - 1)
  <1> USE SlotsFacts
  <1>1. /\ d - 1 \in Slots /\ d - 1 \in 0 .. d - 1 /\ d \in 0 .. Capacity /\ d - 1 \in 0 .. Capacity
        /\ 0 .. d - 2 \subseteq 0 .. c - 1 /\ 0 .. d - 1 \subseteq Slots
        /\ 0 .. d - 1 = (0 .. d - 2) \cup {d - 1}
        /\ (d - 1) - 1 = d - 2
    OBVIOUS
  <1>2. w \in [Slots -> Keys] /\ w[d - 1] = k /\ \A j \in 0 .. d - 2 : w[j] = m[j] /\ m[j] # k
    <2>1. \A j \in 0 .. d - 2 : m[j] # k
      BY <1>1 DEF Held
    <2> QED BY <1>1, <2>1 DEF jfs_mb_write
  <1> HIDE DEF w
  <1>3. Distinct(w, d)
    <2>1. \A a, b \in 0 .. d - 2 : m[a] = m[b] => a = b
      BY <1>1 DEF Distinct
    <2> QED BY <1>1, <1>2, <2>1 DEF Distinct
  <1>4. /\ Held(P, d) = Held(w, d)
        /\ \A x, y \in Keys :
              Before(P, d, x, y) <=> \/ x # k /\ y # k /\ Before(w, d, x, y)
                                     \/ x = k /\ y \in Held(w, d) \ {k}
    BY <1>1, <1>2, <1>3, PromoteOrder
  <1>5. P \in [Slots -> Keys]
    BY <1>1, <1>2, PromoteMoves
  <1> HIDE DEF P
  <1>6. Held(w, d) = Held(m, d - 1) \cup {k}
    <2>1. Held(w, d) = {w[j] : j \in 0 .. d - 2} \cup {k}
      BY <1>1, <1>2 DEF Held
    <2>2. {w[j] : j \in 0 .. d - 2} = {m[j] : j \in 0 .. d - 2}
      BY <1>2
    <2> QED BY <1>1, <2>1, <2>2 DEF Held
  <1>7. k \notin Held(m, d - 1)
    BY <1>1, <1>2 DEF Held
  <1>8. \A x, y \in Keys : x # k /\ y # k =>
            (Before(w, d, x, y) <=> Before(m, c, x, y) /\ x \in Held(m, d - 1) /\ y \in Held(m, d - 1))
    <2> SUFFICES ASSUME NEW x \in Keys, NEW y \in Keys, x # k, y # k
                 PROVE  Before(w, d, x, y) <=> Before(m, c, x, y) /\ x \in Held(m, d - 1) /\ y \in Held(m, d - 1)
      OBVIOUS
    <2>1. ASSUME Before(w, d, x, y)
          PROVE  Before(m, c, x, y) /\ x \in Held(m, d - 1) /\ y \in Held(m, d - 1)
      <3>1. PICK a \in 0 .. d - 1, b \in 0 .. d - 1 : a < b /\ w[a] = x /\ w[b] = y
        BY <2>1 DEF Before
      <3>2. a \in 0 .. d - 2 /\ b \in 0 .. d - 2
        BY <1>1, <1>2, <3>1
      <3>3. m[a] = x /\ m[b] = y
        BY <1>2, <3>1, <3>2
      <3> QED BY <1>1, <3>1, <3>2, <3>3 DEF Before, Held
    <2>2. ASSUME Before(m, c, x, y), x \in Held(m, d - 1), y \in Held(m, d - 1)
          PROVE  Before(w, d, x, y)
      <3>1. PICK a \in 0 .. c - 1, b \in 0 .. c - 1 : a < b /\ m[a] = x /\ m[b] = y
        BY <2>2 DEF Before
      <3>2. PICK e \in 0 .. d - 2, f \in 0 .. d - 2 : m[e] = x /\ m[f] = y
        BY <1>1, <2>2 DEF Held
      <3>3. e = a /\ f = b
        BY <1>1, <3>1, <3>2 DEF Distinct
      <3>4. w[a] = x /\ w[b] = y /\ a \in 0 .. d - 1 /\ b \in 0 .. d - 1
        BY <1>1, <1>2, <3>2, <3>3
      <3> QED BY <3>1, <3>4 DEF Before
    <2> QED BY <2>1, <2>2
  <1>9. Held(P, d) \subseteq Keys /\ Newer(P, d) \subseteq Keys \X Keys /\ Newer(m, c) \subseteq Keys \X Keys
    BY <1>1, <1>5, NewerType
  <1>10. \A x, y \in Keys :
            <<x, y>> \in Newer(P, d) <=>
                \/ <<x, y>> \in Newer(m, c) /\ x \in Held(P, d) \ {k} /\ y \in Held(P, d) \ {k}
                \/ x = k /\ y \in Held(P, d) \ {k}
    <2>1. \A x, y \in Keys : /\ <<x, y>> \in Newer(P, d) <=> Before(P, d, x, y)
                             /\ <<x, y>> \in Newer(m, c) <=> Before(m, c, x, y)
      <3>1. c \in Nat /\ d \in Nat
        OBVIOUS
      <3> QED BY <3>1, NewerMember
    <2> QED BY <1>4, <1>6, <1>7, <1>8, <2>1
  <1>11. Newer(P, d) = {p \in Newer(m, c) : {p[1], p[2]} \subseteq Held(P, d) \ {k}}
                       \cup ({k} \X (Held(P, d) \ {k}))
    BY <1>9, <1>10, UsedOrder
  <1> QED BY <1>4, <1>6, <1>11 DEF P, w

\* The key that no other is older than is the one in the last slot.
LEMMA LastIsOldest ==
    ASSUME NEW m \in [Slots -> Keys], NEW c \in 1 .. Capacity, Distinct(m, c)
    PROVE  /\ {x \in Held(m, c) : \A y \in Held(m, c) : <<x, y>> \notin Newer(m, c)} = {m[c - 1]}
           /\ Held(m, c) \ {m[c - 1]} = Held(m, c - 1)
  <1> USE SlotsFacts
  <1>1. c \in Nat /\ c - 1 \in 0 .. c - 1 /\ 0 .. c - 1 = (0 .. (c - 1) - 1) \cup {c - 1}
    OBVIOUS
  <1>2. ASSUME NEW y PROVE <<m[c - 1], y>> \notin Newer(m, c)
    <2>1. ASSUME NEW a \in 0 .. c - 1, NEW b \in 0 .. c - 1, a < b, m[a] = m[c - 1] PROVE FALSE
      BY <1>1, <2>1 DEF Distinct
    <2>2. ~Before(m, c, m[c - 1], y)
      BY <2>1 DEF Before
    <2> QED BY <1>1, <2>2, NewerMember
  <1>3. ASSUME NEW a \in 0 .. c - 1, a # c - 1 PROVE <<m[a], m[c - 1]>> \in Newer(m, c)
    <2>1. a < c - 1
      BY <1>3
    <2>2. Before(m, c, m[a], m[c - 1])
      BY <1>1, <2>1 DEF Before
    <2> QED BY <1>1, <2>2, NewerMember
  <1>4. {x \in Held(m, c) : \A y \in Held(m, c) : <<x, y>> \notin Newer(m, c)} = {m[c - 1]}
    BY <1>1, <1>2, <1>3 DEF Held
  <1>5. \A a \in 0 .. (c - 1) - 1 : m[a] # m[c - 1]
    BY <1>1 DEF Distinct
  <1>6. Held(m, c) \ {m[c - 1]} = Held(m, c - 1)
    BY <1>1, <1>5 DEF Held
  <1> QED BY <1>4, <1>6

-----------------------------------------------------------------------------
(* The refinement of RecencyCache *)

\* An uninitialised cache is an empty one.
LEMMA RecencyInit == Init => Recency!Init
  BY NowIsSlots DEF Init, Recency!Init, HeldNow, NewerNow

\* RecencyCache counts with the same Cardinality.
LEMMA SameCardinality == \A S : Recency!Cardinality(S) = Cardinality(S)
  BY DEF Recency!Cardinality, Cardinality

\* What has to be shown of a step that uses k.
LEMMA UseIsUse ==
    ASSUME NEW k \in Keys,
           HeldNow' = (HeldNow \ Recency!Victims(k)) \cup {k},
           NewerNow' = {p \in NewerNow : {p[1], p[2]} \subseteq HeldNow' \ {k}}
                       \cup ({k} \X (HeldNow' \ {k}))
    PROVE  Recency!Next
  BY DEF Recency!Next, Recency!Use, HeldNow, NewerNow

\* Every step of the cache is a use of a key, a release, or none.
LEMMA RecencyStep ==
    IndInv /\ [Next]_vars => [Recency!Next]_<<HeldNow, NewerNow>>
  <1> SUFFICES ASSUME IndInv, [Next]_vars
               PROVE  Recency!Next \/ UNCHANGED <<HeldNow, NewerNow>>
    OBVIOUS
  <1> USE SlotsFacts
  <1>t. mem \in [Slots -> Keys] /\ count \in 0 .. Capacity /\ key \in Keys
    BY DEF IndInv, TypeOK
  <1>1. CASE jfs_lru_init
    <2>1. Held(mem, 0) = {} /\ Newer(mem, 0) = {}
      BY DEF Held, Newer
    <2> QED BY <1>1, <2>1, NowIsSlots, NowIsSlotsNext DEF jfs_lru_init
  <1>2. CASE jfs_lru_free
    <2>1. HeldNow' = {} /\ NewerNow' = {}
      BY <1>2, NowIsSlotsNext DEF jfs_lru_free
    <2> QED BY <2>1 DEF Recency!Next, Recency!Release, HeldNow, NewerNow
  <1>3. CASE (\E k \in Keys : jfs_lru_access(k)) \/ access_next
    BY <1>3, NowIsSlots, NowIsSlotsNext DEF jfs_lru_access, access_next
  <1>4. CASE access_hit
    <2>1. key \in HeldNow /\ HeldNow' = HeldNow
      BY <1>4, HitUses
    <2>2. Recency!Victims(key) = {}
      BY <2>1 DEF Recency!Victims, HeldNow
    <2> QED BY <1>t, <1>4, <2>1, <2>2, HitUses, UseIsUse
  <1>5. CASE access_grow
    <2>1. /\ Distinct(mem, count) /\ key \notin Held(mem, count)
          /\ Cardinality(Held(mem, count)) = count /\ count < Capacity
      BY <1>5, SearchMissed DEF access_grow
    <2>2. count + 1 \in 1 .. Capacity /\ (count + 1) - 1 = count
      BY <1>t, <2>1
    <2> DEFINE P == lru_promote(jfs_mb_write(mem, key, (count + 1) - 1), (count + 1) - 1)
    <2>3. /\ HeldNow = Held(mem, count) /\ NewerNow = Newer(mem, count)
          /\ HeldNow' = Held(P, count + 1) /\ NewerNow' = Newer(P, count + 1)
      BY <1>5, NowIsSlots, NowIsSlotsNext DEF access_grow
    <2>4. /\ Held(P, count + 1) = Held(mem, (count + 1) - 1) \cup {key}
          /\ Newer(P, count + 1) =
                {p \in Newer(mem, count) : {p[1], p[2]} \subseteq Held(P, count + 1) \ {key}}
                \cup ({key} \X (Held(P, count + 1) \ {key}))
      BY <1>t, <2>1, <2>2, MissOrder
    <2> HIDE DEF P
    <2>5. Recency!Victims(key) = {}
      <3>1. Recency!Cardinality(HeldNow) < Capacity
        BY <2>1, <2>3, SameCardinality
      <3> QED BY <3>1 DEF Recency!Victims, HeldNow
    <2> QED BY <1>t, <2>2, <2>3, <2>4, <2>5, UseIsUse
  <1>6. CASE access_evict
    <2>1. /\ Distinct(mem, count) /\ key \notin Held(mem, count)
          /\ Cardinality(Held(mem, count)) = count /\ count = Capacity /\ count \in 1 .. Capacity
      BY <1>t, <1>6, SearchMissed DEF access_evict
    <2> DEFINE P == lru_promote(jfs_mb_write(mem, key, count - 1), count - 1)
    <2>2. /\ HeldNow = Held(mem, count) /\ NewerNow = Newer(mem, count)
          /\ HeldNow' = Held(P, count) /\ NewerNow' = Newer(P, count)
      BY <1>6, NowIsSlots, NowIsSlotsNext DEF access_evict
    <2>3. /\ Held(P, count) = Held(mem, count - 1) \cup {key}
          /\ Newer(P, count) = {p \in Newer(mem, count) : {p[1], p[2]} \subseteq Held(P, count) \ {key}}
                               \cup ({key} \X (Held(P, count) \ {key}))
      BY <1>t, <2>1, MissOrder
    <2> HIDE DEF P
    <2>4. /\ {x \in Held(mem, count) : \A y \in Held(mem, count) : <<x, y>> \notin Newer(mem, count)}
                = {mem[count - 1]}
          /\ Held(mem, count) \ {mem[count - 1]} = Held(mem, count - 1)
      BY <1>t, <2>1, LastIsOldest
    <2>5. Recency!Victims(key) = {mem[count - 1]}
      <3>1. ~(Recency!Cardinality(HeldNow) < Capacity) /\ key \notin HeldNow
        BY <2>1, <2>2, SameCardinality
      <3>2. Recency!Victims(key) = {x \in HeldNow : \A y \in HeldNow : <<x, y>> \notin NewerNow}
        BY <3>1 DEF Recency!Victims, Recency!Oldest, HeldNow, NewerNow
      <3> QED BY <2>2, <2>4, <3>2
    <2> QED BY <1>t, <2>2, <2>3, <2>4, <2>5, UseIsUse
  <1>7. CASE access_miss
    <2>1. mem' = jfs_mb_write(mem, key, count - 1) /\ pc = "miss" /\ pc' = "promote" /\ count' = count
      BY <1>7 DEF access_miss
    <2> QED BY <2>1, NowIsSlots, NowIsSlotsNext
  <1>8. CASE access_promote
    BY <1>8, NowIsSlots, NowIsSlotsNext DEF access_promote
  <1>9. CASE free_evict \/ free_done
    BY <1>9, NowIsSlots, NowIsSlotsNext DEF free_evict, free_done
  <1>10. CASE UNCHANGED vars
    BY <1>10 DEF vars, HeldNow, NewerNow, Placed, InUse
  <1> QED
    BY <1>1, <1>2, <1>3, <1>4, <1>5, <1>6, <1>7, <1>8, <1>9, <1>10 DEF Next, Step

\* For every obj_count and every sequence of calls, jfs_lru_access keeps the
\* keys in the order of their use and evicts what has not been used for longest.
THEOREM CacheImplementsRecency == Spec => ImplementsRecencyCache
  <1>1. IndInv /\ [Next]_vars =>
            [Recency!Next]_<<{Placed[j] : j \in InUse},
                {<<Placed[p[1]], Placed[p[2]]>> : p \in {q \in InUse \X InUse : q[1] < q[2]}}>>
    BY RecencyStep DEF HeldNow, NewerNow
  <1> QED BY RecencyInit, <1>1, Invariance, PTL DEF Spec, ImplementsRecencyCache, Recency!Spec
=============================================================================
