----------------------------- MODULE SlabConfig -----------------------------
(***************************************************************************)
(* sa_config_init of src/src/slab_allocator.c: from what a caller asks for *)
(* to the sizes the slab allocator is to work with, or a refusal.          *)
(*                                                                         *)
(* A step is the code up to the doubling loop, an iteration of the loop,   *)
(* or the code behind it.  Sizes have Width bits and wrap; the counts,     *)
(* which are narrower in the code, are widened before they are multiplied, *)
(* as there.  Asserts do not stop the model: those that fail are collected *)
(* in conf_failed by their lines.                                          *)
(***************************************************************************)
EXTENDS Layout

CONSTANTS
    PageSize,           \* PAGE_SIZE, 4096 in the code
    ObjSizes, ObjAligns, Amounts, StoreCapacities, BatchCapacities, AcquireCounts

ASSUME PageAssumption   == PageSize \in {2^k : k \in 0 .. Width - 1}
ASSUME InputsAssumption ==
    ObjSizes \cup ObjAligns \cup Amounts \cup StoreCapacities \cup BatchCapacities
        \cup AcquireCounts \subseteq Size

VARIABLES
    asked,      \* the jfs_sa_allocator_config_t
    conf,       \* the sa_config_t
    slab,       \* slab_size_needed, min_pages_needed and pages_per_slab
    conf_pc, conf_err, conf_failed

configVars == <<asked, conf, slab, conf_pc, conf_err, conf_failed>>

MIN_OBJ_SIZE   == PtrSize
sizeof_sa_slab == 2 * PtrSize

DEFAULT_CACHE_STORE_CAPACITY == 2
DEFAULT_CACHE_ACQUIRE_AMOUNT == 1
DEFAULT_CACHE_RELEASE_AMOUNT == 1
DEFAULT_BATCH_CAPACITY       == 64
DEFAULT_ACQUIRE_PER_SLAB     == 8
DEFAULT_ALLOC_STORE_CAPACITY == 4

\* The largest of the defaults is a size.
ASSUME DefaultsAssumption == DEFAULT_BATCH_CAPACITY \in Size

Asked == [obj_size : ObjSizes, obj_align : ObjAligns, batch_capacity : BatchCapacities,
          alloc_store_capacity : StoreCapacities, cache_store_capacity : StoreCapacities,
          cache_acquire_amount : Amounts, cache_release_amount : Amounts,
          slab_acquire_count : AcquireCounts]

Fields == {"obj_align", "obj_padded_size", "slab_offset", "batch_capacity",
           "cache_acquire_amount", "cache_release_amount", "cache_store_capacity",
           "alloc_store_capacity", "slab_size", "batch_per_slab"}

Or(given, default) == IF given # 0 THEN given ELSE default

\* Lines 111 to 126.
Basics(a) ==
    [obj_align            |-> a.obj_align,
     obj_padded_size      |-> jfs_mlg_align_size(Max2(a.obj_size, MIN_OBJ_SIZE), a.obj_align),
     slab_offset          |-> jfs_mlg_align_size(sizeof_sa_slab, a.obj_align),
     batch_capacity       |-> Or(a.batch_capacity, DEFAULT_BATCH_CAPACITY),
     cache_acquire_amount |-> Or(a.cache_acquire_amount, DEFAULT_CACHE_ACQUIRE_AMOUNT),
     cache_release_amount |-> Or(a.cache_release_amount, DEFAULT_CACHE_RELEASE_AMOUNT),
     cache_store_capacity |-> IF a.cache_store_capacity # 0 THEN a.alloc_store_capacity
                              ELSE DEFAULT_CACHE_STORE_CAPACITY,
     alloc_store_capacity |-> Or(a.alloc_store_capacity, DEFAULT_ALLOC_STORE_CAPACITY),
     slab_size            |-> 0,
     batch_per_slab       |-> 0]

AcquirePerSlab == Or(asked.slab_acquire_count, DEFAULT_ACQUIRE_PER_SLAB)
BatchBytes(c) == Wrap(c.batch_capacity * c.obj_padded_size)

\* Lines 133 and 134.
SlabSizeNeeded(c) ==
    Wrap(Wrap(Wrap(Wrap(AcquirePerSlab * c.cache_acquire_amount) * c.batch_capacity)
              * c.obj_padded_size) + c.slab_offset)

\* Mutant: the pages are rounded down.
min_pages_down(needed) == needed \div PageSize

min_pages(needed) == Wrap(needed + PageSize - 1) \div PageSize

ConfigInit ==
    /\ asked \in Asked
    /\ conf = [f \in Fields |-> 0]
    /\ slab = [needed |-> 0, min |-> 0, pages |-> 0]
    /\ conf_pc = "start" /\ conf_err = "OK" /\ conf_failed = {}

Refuse == conf_pc' = "done" /\ conf_err' = "BAD_CONF"

bad_align ==
    /\ conf_pc = "start" /\ ~jfs_mlg_valid_align(asked.obj_align)
    /\ Refuse
    /\ UNCHANGED <<asked, conf, slab, conf_failed>>

\* Mutant: the amount released is not compared.
BadAmounts_release(c) == c.cache_acquire_amount > c.cache_store_capacity

BadAmounts(c) ==
    \E a \in {c.cache_acquire_amount, c.cache_release_amount} :
        a > c.cache_store_capacity \/ a > c.alloc_store_capacity

\* Lines 111 to 137; nothing is more than ULONG_MAX / 2 after a division by PAGE_SIZE.
basics ==
    LET c == Basics(asked)
        needed == SlabSizeNeeded(c)
    IN
    /\ conf_pc = "start" /\ jfs_mlg_valid_align(asked.obj_align)
    /\ conf' = c
    /\ IF BadAmounts(c) \/ min_pages(needed) > (Word - 1) \div 2
       THEN Refuse /\ UNCHANGED slab
       ELSE /\ slab' = [needed |-> needed, min |-> min_pages(needed), pages |-> 1]
            /\ conf_pc' = "loop" /\ UNCHANGED conf_err
    /\ conf_failed' = (IF c.obj_padded_size % c.obj_align = 0 THEN {} ELSE {117})
                 \cup (IF c.slab_offset % c.obj_align = 0 THEN {} ELSE {120})
    /\ UNCHANGED asked

\* Mutant: the loop stops one doubling early.
Doubling_early == conf_pc = "loop" /\ 2 * slab.pages < slab.min

\* Mutant: the loop waits for the exact number of pages.
Doubling_exact == conf_pc = "loop" /\ slab.pages # slab.min

Doubling == conf_pc = "loop" /\ slab.pages < slab.min

double ==
    /\ Doubling
    /\ slab' = [slab EXCEPT !.pages = Wrap(2 * @)]
    /\ UNCHANGED <<asked, conf, conf_pc, conf_err, conf_failed>>

SlabSize == Wrap(slab.pages * PageSize)

\* Mutant: a slab is refused when it is too small.
size_refused_small == SlabSize < slab.needed

\* Line 143.
size_refused == SlabSize >= slab.needed

refuse_size ==
    /\ conf_pc = "loop" /\ ~Doubling /\ size_refused
    /\ conf' = [conf EXCEPT !.slab_size = SlabSize]
    /\ Refuse
    /\ UNCHANGED <<asked, slab, conf_failed>>

\* Whether n is 0 or a power of two: n & (n - 1) is 0.
OneBit(n) == n = 0 \/ jfs_mlg_valid_align(n)

\* Lines 144 to 147.
accept_size ==
    /\ conf_pc = "loop" /\ ~Doubling /\ ~size_refused
    /\ conf' = [conf EXCEPT !.slab_size = SlabSize]
    /\ conf_failed' = conf_failed \cup (IF OneBit(SlabSize) THEN {144} ELSE {})
    /\ conf_pc' = "batches"
    /\ UNCHANGED <<asked, slab, conf_err>>

\* Lines 148 to 151; the division traps when a batch has no bytes.
batches ==
    LET bytes == BatchBytes(conf)
        per_slab == Wrap(conf.slab_size - conf.slab_offset + bytes - 1) \div bytes
    IN
    /\ conf_pc = "batches"
    /\ IF bytes = 0 THEN conf_pc' = "trapped" /\ UNCHANGED <<conf, conf_err, conf_failed>>
       ELSE /\ conf' = [conf EXCEPT !.batch_per_slab = per_slab]
            /\ conf_failed' = conf_failed \cup
                   (IF Wrap(AcquirePerSlab * conf.cache_acquire_amount) <= per_slab
                    THEN {} ELSE {150})
            /\ conf_pc' = "done"
            /\ conf_err' = IF per_slab > conf.alloc_store_capacity THEN "BAD_CONF" ELSE "OK"
    /\ UNCHANGED <<asked, slab>>

ConfigNext ==
    \/ bad_align \/ basics \/ double \/ refuse_size \/ accept_size \/ batches

ConfigSpec == ConfigInit /\ [][ConfigNext]_configVars /\ WF_configVars(ConfigNext)

-----------------------------------------------------------------------------
(* Properties *)

\* Every variable stays within its type.
TypeOK ==
    /\ asked \in Asked
    /\ DOMAIN conf = Fields /\ \A f \in Fields : conf[f] \in Size
    /\ {slab.needed, slab.min, slab.pages} \subseteq Size
    /\ conf_pc \in {"start", "loop", "batches", "done", "trapped"}
    /\ conf_err \in {"OK", "BAD_CONF"} /\ conf_failed \subseteq {117, 120, 144, 150}

\* The bytes of a slab without wrapping.
ExactNeed ==
    LET pad(bytes) == ((bytes + asked.obj_align - 1) \div asked.obj_align) * asked.obj_align
    IN  AcquirePerSlab * conf.cache_acquire_amount * conf.batch_capacity
            * pad(Max2(asked.obj_size, MIN_OBJ_SIZE)) + pad(sizeof_sa_slab)

Sane == ExactNeed <= Word \div 2

\* The slab that the doubling loop has arrived at is large enough for what was
\* asked, and not twice as large as it has to be, for every size that half the
\* address space can hold.
LoopFindsSlab ==
    conf_pc = "loop" /\ ~(slab.pages < slab.min) /\ Sane =>
        /\ SlabSize >= ExactNeed
        /\ SlabSize < 2 * ExactNeed \/ SlabSize = PageSize

\* Only a configuration whose slab does not fit half the address space is
\* accepted, and even then only without asserts: line 143 refuses each size that
\* is large enough and line 144 aborts on the powers of two, which all sizes are.
\* The division of line 149 never traps, although the bytes of a batch may wrap to
\* none: such a configuration needs no more than its header and is refused before.
OnlyHugeAccepted ==
    /\ conf_pc = "batches" \/ (conf_pc = "done" /\ conf_err = "OK") => ~Sane /\ 144 \in conf_failed
    /\ conf_pc # "trapped"

\* What is acquired or released at once is never more than a store can hold.
AmountsFit ==
    conf_pc \in {"loop", "batches"} =>
        \A a \in {conf.cache_acquire_amount, conf.cache_release_amount} :
            a <= conf.cache_store_capacity /\ a <= conf.alloc_store_capacity

\* The invariant of sa_config_init: the loop finds the right slab, the amounts fit
\* the stores, and only what does not fit half the address space is accepted.
ConfigInv == TypeOK /\ LoopFindsSlab /\ AmountsFit /\ OnlyHugeAccepted

\* Every call comes to an end, with whatever sizes.
CallEnds == <>(conf_pc = "done")
=============================================================================
