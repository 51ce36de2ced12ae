----------------------------- MODULE LruCache -----------------------------
(***************************************************************************)
(* The cache of src/src/lru_cache.c on the memory block of                 *)
(* src/src/memory_block.c: an array of slots, the most recently used first.*)
(*                                                                         *)
(* A call is a sequence of steps: one for each iteration of a loop, and    *)
(* one for each callback into the caller with the code up to the next.     *)
(* An object is abstracted to the key cmp finds in it.  What the caller's  *)
(* miss and evict do to the objects is counted in loads.                   *)
(***************************************************************************)
EXTENDS Integers

CONSTANTS
    Keys,       \* the keys callers use
    ObjCount    \* obj_count of jfs_lru_make_desc

ASSUME ObjCountAssumption == ObjCount \in Nat

VARIABLES
    mem,        \* the slots of the memory block
    count,      \* lru->count
    pc,         \* where the running call is
    key,        \* its key
    i,          \* its loop variable
    loads       \* how often miss has loaded an object less evict has dropped it

vars == <<mem, count, pc, key, i, loads>>

-----------------------------------------------------------------------------
(* jfs_lru_make_desc, memory_block.c *)

\* desc.count of jfs_lru_make_desc: one slot more than asked for.
make_desc_count == ObjCount + 1

\* mb.capacity of jfs_mb_init.
Capacity == make_desc_count
Slots == 0 .. Capacity - 1

jfs_mb_write(m, obj, index) == [m EXCEPT ![index] = obj]

\* Mutant: memcpy front to back, as if the ranges did not overlap.
jfs_mb_remap_forward(m, dest, src, n) ==
    [j \in Slots |-> IF dest <= j /\ j < dest + n THEN m[src] ELSE m[j]]

jfs_mb_remap(m, dest, src, n) ==
    [j \in Slots |-> IF dest <= j /\ j < dest + n THEN m[src + j - dest] ELSE m[j]]

\* Mutant: swaps the slot with the first instead of moving the others up.
lru_promote_swaps(m, index) == [m EXCEPT ![0] = m[index], ![index] = m[0]]

lru_promote(m, index) ==
    jfs_mb_write(jfs_mb_remap(m, 1, 0, index), m[index], 0)

-----------------------------------------------------------------------------
\* The memory of the component is not cleared: any slot may look like an object.
Init ==
    /\ mem \in [Slots -> Keys]
    /\ count = 0 /\ pc = "raw" /\ i = 0
    /\ key \in Keys
    /\ loads = [k \in Keys |-> 0]

\* A configuration that is refused leaves the cache as it is.
jfs_lru_init ==
    /\ pc = "raw"
    /\ count' = 0
    /\ pc' = "idle"
    /\ UNCHANGED <<mem, key, i, loads>>

\* Mutant: the search skips the first slot.
jfs_lru_access_skips(k) ==
    /\ pc = "idle"
    /\ pc' = "search" /\ key' = k /\ i' = 1
    /\ UNCHANGED <<mem, count, loads>>

jfs_lru_access(k) ==
    /\ pc = "idle"
    /\ pc' = "search" /\ key' = k /\ i' = 0
    /\ UNCHANGED <<mem, count, loads>>

\* Mutant: the loop does not advance.
access_next_stuck == pc = "search" /\ i < count /\ mem[i] # key /\ UNCHANGED vars

access_next ==
    /\ pc = "search" /\ i < count /\ mem[i] # key
    /\ i' = i + 1
    /\ UNCHANGED <<mem, count, pc, key, loads>>

access_hit ==
    /\ pc = "search" /\ i < count /\ mem[i] = key
    /\ mem' = IF i # 0 THEN lru_promote(mem, i) ELSE mem
    /\ pc' = "idle"
    /\ UNCHANGED <<count, key, i, loads>>

\* Mutant: a slot beyond the last one is taken.
access_grow_late ==
    /\ pc = "search" /\ i >= count /\ count <= Capacity
    /\ count' = count + 1
    /\ pc' = "miss"
    /\ UNCHANGED <<mem, key, i, loads>>

access_grow ==
    /\ pc = "search" /\ i >= count /\ count < Capacity
    /\ count' = count + 1
    /\ pc' = "miss"
    /\ UNCHANGED <<mem, key, i, loads>>

\* Mutant: evicts the most recently used object.
access_evict_first ==
    /\ pc = "search" /\ i >= count /\ count >= Capacity
    /\ loads' = [loads EXCEPT ![mem[0]] = @ - 1]
    /\ pc' = "miss"
    /\ UNCHANGED <<mem, count, key, i>>

access_evict ==
    /\ pc = "search" /\ i >= count /\ count >= Capacity
    /\ loads' = [loads EXCEPT ![mem[count - 1]] = @ - 1]
    /\ pc' = "miss"
    /\ UNCHANGED <<mem, count, key, i>>

access_miss ==
    /\ pc = "miss"
    /\ mem' = jfs_mb_write(mem, key, count - 1)
    /\ loads' = [loads EXCEPT ![key] = @ + 1]
    /\ pc' = "promote"
    /\ UNCHANGED <<count, key, i>>

access_promote ==
    /\ pc = "promote"
    /\ mem' = lru_promote(mem, count - 1)
    /\ pc' = "idle"
    /\ UNCHANGED <<count, key, i, loads>>

jfs_lru_free ==
    /\ pc = "idle"
    /\ pc' = "free" /\ i' = 0
    /\ UNCHANGED <<mem, count, key, loads>>

free_evict ==
    /\ pc = "free" /\ i < count
    /\ loads' = [loads EXCEPT ![mem[i]] = @ - 1]
    /\ i' = i + 1
    /\ UNCHANGED <<mem, count, pc, key>>

\* The cache is gone; its memory may be initialised again.
free_done ==
    /\ pc = "free" /\ i >= count
    /\ pc' = "raw"
    /\ UNCHANGED <<mem, count, key, i, loads>>

Step ==
    \/ access_next \/ access_hit \/ access_grow \/ access_evict
    \/ access_miss \/ access_promote \/ free_evict \/ free_done

Next ==
    \/ jfs_lru_init \/ jfs_lru_free
    \/ \E k \in Keys : jfs_lru_access(k)
    \/ Step

Spec == Init /\ [][Next]_vars /\ WF_vars(Step)

-----------------------------------------------------------------------------
(* Properties *)

\* Every variable stays within its type; count never passes the capacity,
\* which jfs_lru_access asserts before it evicts.
TypeOK ==
    /\ mem \in [Slots -> Keys]
    /\ count \in 0 .. Capacity
    /\ pc \in {"raw", "idle", "search", "miss", "promote", "free"}
    /\ key \in Keys
    /\ i \in 0 .. Capacity
    /\ loads \in [Keys -> Int]

\* The slots that hold an object the caller has loaded and not dropped.
Loaded ==
    {j \in 0 .. count - 1 :
        /\ pc # "raw"
        /\ pc = "miss" => j < count - 1
        /\ pc = "free" => i <= j}

\* No key sits in two slots, whatever the uncleared memory of the component
\* looked like: a search that met a stale slot would load its key again.
NoKeyTwice == \A a, b \in Loaded : mem[a] = mem[b] => a = b

\* The caller's callbacks are balanced: every object in a slot has been loaded
\* once and not been dropped, every other object has been dropped as often as
\* it was loaded, so jfs_lru_free leaves none behind.
LoadsBalance ==
    \A k \in Keys : loads[k] = IF \E j \in Loaded : mem[j] = k THEN 1 ELSE 0

\* The slots as they will be when the running call has placed its object.
Placed ==
    IF pc = "miss" THEN lru_promote(jfs_mb_write(mem, key, count - 1), count - 1)
    ELSE IF pc = "promote" THEN lru_promote(mem, count - 1)
    ELSE mem

InUse == IF pc \in {"raw", "free"} THEN {} ELSE 0 .. count - 1

Recency == INSTANCE RecencyCache
    WITH held  <- {Placed[j] : j \in InUse},
         newer <- {<<Placed[p[1]], Placed[p[2]]>> : p \in {q \in InUse \X InUse : q[1] < q[2]}}

\* The order of the slots is the order of use, and what jfs_lru_access evicts
\* is what has not been used for longest.
ImplementsRecencyCache == Recency!Spec

\* Every call returns.
EveryCallReturns == pc \notin {"raw", "idle"} ~> pc \in {"raw", "idle"}

\* jfs_lru_make_desc adds an "extra slot for promote algorithm" to the objects
\* asked for: a slot that no object of the cache occupies.
ExtraSlotIsForPromote == count <= ObjCount
=============================================================================
