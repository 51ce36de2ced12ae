---------------------------- MODULE MemoryLayout ----------------------------
(***************************************************************************)
(* jfs_mlg_memory_init and jfs_mlg_memory_free of                          *)
(* src/src/memory_layout_generator.c: one allocation that holds the        *)
(* jfs_mlg_memory_t, the list of its components, the caller's header and   *)
(* the components, one behind the other.                                   *)
(*                                                                         *)
(* Asserts do not stop the model: those that fail are collected, by their  *)
(* lines, in failed.                                                       *)
(***************************************************************************)
EXTENDS Layout, Sequences, FiniteSets

CONSTANTS
    Headers,        \* the header descriptions a caller may pass
    Descs,          \* the component descriptions a caller may pass
    MaxComponents,  \* bound on descriptions_count
    Bases           \* the addresses the allocator hands out

ASSUME DescsAssumption == Headers \cup Descs \subseteq Descriptions
ASSUME BasesAssumption == Bases \subseteq Size \ {0}
ASSUME BoundAssumption == MaxComponents \in Nat

VARIABLES
    layout,     \* header_desc and descriptions of the call
    pc,
    desc,       \* memory_desc
    offsets,    \* component_list_offset, header_offset and component_offsets
    heap,       \* which of the call's two blocks exist
    memory,     \* address and size of the block, and the pointers written into it
    err,
    need,       \* the size without wrapping, for the properties
    failed      \* asserts that have failed

vars == <<layout, pc, desc, offsets, heap, memory, err, need, failed>>

NoMemory == [base |-> 0, size |-> 0, list |-> 0, header |-> 0, comps |-> <<>>]
NoOffsets == [list |-> 0, header |-> 0, comps |-> <<>>]
NoLayout == [header |-> Desc(0, 0, 0), descs |-> <<>>]
n == Len(layout.descs)

Init ==
    /\ layout = NoLayout
    /\ pc = "idle" /\ err = "OK" /\ failed = {}
    /\ desc = Desc(0, 0, 0) /\ need = 0 /\ offsets = NoOffsets
    /\ heap = {} /\ memory = NoMemory

\* The caller has freed the memory of its last call.
Call(header, descs) ==
    /\ pc = "idle" /\ heap = {}
    /\ layout' = [header |-> header, descs |-> descs]
    /\ pc' = "start" /\ err' = "OK"
    /\ UNCHANGED <<desc, offsets, heap, memory, need, failed>>

\* The end of a call that hands out nothing; its locals are gone.
Fail(code) ==
    /\ pc' = "idle" /\ err' = code
    /\ layout' = NoLayout /\ desc' = Desc(0, 0, 0) /\ offsets' = NoOffsets
    /\ memory' = NoMemory /\ need' = 0 /\ failed' = {}

init_bad_header ==
    /\ pc = "start" /\ ~jfs_mlg_valid_desc(layout.header)
    /\ Fail("BAD_CONF") /\ UNCHANGED heap

\* The struct, the list and the header are laid out, and room is made for the
\* offsets of the components: lines 44 to 52.
init_start ==
    LET own   == Desc(sizeof_jfs_mlg_memory, PtrSize, 1)
        comps == Desc(sizeof_jfs_mlg_component, PtrSize, n)
        with_list == jfs_mlg_append(own, comps)
    IN
    /\ pc = "start" /\ jfs_mlg_valid_desc(layout.header)
    /\ \/ /\ desc' = jfs_mlg_append(with_list, layout.header)
          /\ offsets' = [list   |-> jfs_mlg_align_size(own.size, PtrSize),
                         header |-> jfs_mlg_align_size(with_list.size, layout.header.align),
                         comps  |-> <<>>]
          /\ need' = ExactAppend(ExactAppend(own.size, comps), layout.header)
          /\ failed' = append_asserts(own, comps) \cup append_asserts(with_list, layout.header)
          /\ pc' = "loop" /\ heap' = {"offsets"}
          /\ UNCHANGED <<layout, memory, err>>
       \/ Fail("SYS") /\ UNCHANGED heap

i == Len(offsets.comps) + 1     \* the component the loop is at

\* Mutant: descriptions are appended unseen.
init_append_unchecked ==
    LET next == layout.descs[i] IN
    /\ pc = "loop" /\ i <= n
    /\ offsets' = [offsets EXCEPT !.comps = Append(@, jfs_mlg_align_size(desc.size, next.align))]
    /\ desc' = jfs_mlg_append(desc, next)
    /\ need' = ExactAppend(need, next)
    /\ failed' = failed \cup append_asserts(desc, next)
    /\ UNCHANGED <<layout, pc, heap, memory, err>>

init_append ==
    LET next == layout.descs[i] IN
    /\ pc = "loop" /\ i <= n /\ jfs_mlg_valid_desc(next)
    /\ offsets' = [offsets EXCEPT !.comps = Append(@, jfs_mlg_align_size(desc.size, next.align))]
    /\ desc' = jfs_mlg_append(desc, next)
    /\ need' = ExactAppend(need, next)
    /\ failed' = failed \cup append_asserts(desc, next)
    /\ UNCHANGED <<layout, pc, heap, memory, err>>

\* Mutant: a return where the code goes to its cleanup.
cleanup_skipped == UNCHANGED heap

\* The label cleanup.
cleanup == heap' = heap \ {"offsets"}

init_bad_desc ==
    /\ pc = "loop" /\ i <= n /\ ~jfs_mlg_valid_desc(layout.descs[i])
    /\ cleanup /\ Fail("BAD_CONF")

\* posix_memalign: any block of that size at that alignment, or none.
init_alloc ==
    /\ pc = "loop" /\ i > n
    /\ \/ \E b \in Bases :
            /\ b % desc.align = 0 /\ b + desc.size <= Word
            /\ memory' = [NoMemory EXCEPT !.base = b, !.size = desc.size]
            /\ heap' = heap \cup {"memory"}
            /\ pc' = "fill"
            /\ UNCHANGED <<layout, desc, offsets, err, need, failed>>
       \/ cleanup /\ Fail("SYS")

jfs_mlg_apply_offset(ptr, offset) == Wrap(ptr + offset)

\* The pointers are written and the offsets freed: lines 63 to 73.
init_fill ==
    LET at(offset) == jfs_mlg_apply_offset(memory.base, offset)
        all == {offsets.list, offsets.header} \cup {offsets.comps[k] : k \in 1 .. n}
    IN
    /\ pc = "fill"
    /\ memory' = [memory EXCEPT !.list   = at(offsets.list),
                                !.header = at(offsets.header),
                                !.comps  = [k \in 1 .. n |-> at(offsets.comps[k])]]
    /\ failed' = failed \cup (IF 0 \in all THEN {21} ELSE {})
    /\ heap' = heap \ {"offsets"} /\ pc' = "idle"
    /\ UNCHANGED <<layout, desc, offsets, err, need>>

jfs_mlg_memory_free ==
    /\ pc = "idle" /\ "memory" \in heap
    /\ heap' = heap \ {"memory"} /\ memory' = NoMemory
    /\ layout' = NoLayout /\ desc' = Desc(0, 0, 0) /\ offsets' = NoOffsets
    /\ need' = 0 /\ failed' = {}
    /\ UNCHANGED <<pc, err>>

\* A call, or a step of it, for a client whose descriptions are in D.
LayOut(D) ==
    \/ \E header \in Headers, c \in 0 .. MaxComponents :
            \E descs \in [1 .. c -> D] : Call(header, descs)
    \/ init_bad_header \/ init_start \/ init_append \/ init_bad_desc
    \/ init_alloc \/ init_fill

Next == LayOut(Descs) \/ jfs_mlg_memory_free

Spec == Init /\ [][Next]_vars

-----------------------------------------------------------------------------
(* Properties *)

Layouts  == [header : Descriptions, descs : Seq(Descriptions)]
Offsets  == [list : Size, header : Size, comps : Seq(Size)]
Memories == [base : Size, size : Size, list : Size, header : Size, comps : Seq(Size)]

MemoryTypeOK ==
    /\ layout \in Layouts /\ desc \in Descriptions /\ offsets \in Offsets /\ memory \in Memories
    /\ pc \in {"idle", "start", "loop", "fill"}
    /\ heap \subseteq {"offsets", "memory"}
    /\ err \in {"OK", "BAD_CONF", "SYS"}
    /\ need \in Nat /\ failed \subseteq {21, 27, 32, 33}

Returned == pc = "idle" /\ "memory" \in heap

\* What the memory is divided into: where each part starts and how long it is.
Parts ==
    <<[start |-> memory.base,   len |-> sizeof_jfs_mlg_memory],
      [start |-> memory.list,   len |-> n * sizeof_jfs_mlg_component],
      [start |-> memory.header, len |-> layout.header.size * layout.header.count]>>
    \o [k \in 1 .. n |-> [start |-> memory.comps[k],
                          len   |-> layout.descs[k].size * layout.descs[k].count]]

Sound ==
    /\ \A p \in 1 .. Len(Parts) :
        /\ Parts[p].start >= memory.base
        /\ Parts[p].start + Parts[p].len <= memory.base + memory.size
    /\ \A p, q \in 1 .. Len(Parts) :
        p # q => ~Overlap(Parts[p].start, Parts[p].len, Parts[q].start, Parts[q].len)

Aligned ==
    /\ memory.list % PtrSize = 0
    /\ memory.header % layout.header.align = 0
    /\ \A k \in 1 .. n : memory.comps[k] % layout.descs[k].align = 0

\* The struct, the list, the header and the components of a memory that is
\* handed out lie inside the block and apart from each other exactly if the size
\* they need fits a size_t: when it does not, the sum that jfs_mlg_append computes
\* has wrapped, nothing refuses it, and the parts overrun the block.  The pointer
\* of every part has the alignment its description asks for all the same,
\* wherever the block is.
SoundIffFits ==
    Returned => (Sound <=> need < Word) /\ Aligned

\* Every variable keeps its type.  jfs_mlg_memory_init leaves nothing on the heap
\* when it fails, at whichever of its steps, and only the memory when it succeeds;
\* and its asserts about sizes and offsets fail only for sizes that wrap or for a
\* layout without components, whose list of components is no valid description.
NothingLeaked ==
    /\ MemoryTypeOK
    /\ pc = "idle" => /\ "offsets" \notin heap
                      /\ err # "OK" => heap = {}
    /\ failed # {} => need >= Word \/ n = 0
=============================================================================
