------------------------------- MODULE Layout -------------------------------
(***************************************************************************)
(* The arithmetic of src/src/memory_layout_generator.c, on which the       *)
(* layout generator, the free list and the tree rest: descriptions of      *)
(* objects, and appending one description to another.                      *)
(*                                                                         *)
(* size_t and uintptr_t have Width bits and wrap.  A mask ~(align - 1) is  *)
(* written as a subtraction of the remainder, which is the same for the    *)
(* powers of two that jfs_mlg_valid_align lets through.                    *)
(***************************************************************************)
EXTENDS Integers

CONSTANTS
    Width,      \* bits of a size_t
    PtrSize     \* sizeof a pointer and of a size_t, and their alignment

ASSUME WidthAssumption == Width \in Nat

\* What ^ is, of which the provers know the name only; TLC evaluates it.
ASSUME PowersAssumption ==
    2^0 = 1 /\ \A k \in 0 .. Width - 1 : 2^(k + 1) = 2 * 2^k

Word    == 2^Width

\* The largest struct that is laid out is smaller than the address space, and the
\* lowest bit of a pointer is free: the tree keeps a colour in it.
ASSUME PtrAssumption ==
    /\ PtrSize \in {2^k : k \in 0 .. Width - 1} /\ 4 * PtrSize < Word
    /\ PtrSize % 2 = 0

Wrap(n) == n % Word
Size    == 0 .. Word - 1

Max2(a, b) == IF a > b THEN a ELSE b

Desc(size, align, count) == [size |-> size, align |-> align, count |-> count]
Descriptions == [size : Size, align : Size, count : Size]

\* The structs the library lays out itself, in pointers and sizes.
sizeof_jfs_mlg_memory    == 3 * PtrSize
sizeof_jfs_mlg_component == 4 * PtrSize
sizeof_jfs_bst_node      == 4 * PtrSize

jfs_mlg_valid_align(align) == \E k \in 0 .. Width - 1 : align = 2^k

jfs_mlg_valid_desc(desc) ==
    jfs_mlg_valid_align(desc.align) /\ desc.size > 0 /\ desc.count > 0

\* Mutant: the mask without what is added first rounds down.
align_size_down(size, align) == size - (size % align)

jfs_mlg_align_size(size, align) ==
    LET padded == Wrap(size + align - 1)
    IN  padded - (padded % align)

\* Mutant: the strictest alignment of the parts is not kept.
append_keep_align(base, to_append) ==
    [base EXCEPT !.size = Wrap(jfs_mlg_align_size(@, to_append.align)
                               + to_append.size * to_append.count)]

\* base after the call; the offset it returns is jfs_mlg_align_size(base.size, to_append.align).
jfs_mlg_append(base, to_append) ==
    [base EXCEPT !.size  = Wrap(jfs_mlg_align_size(@, to_append.align)
                                + to_append.size * to_append.count),
                 !.align = Max2(@, to_append.align)]

\* The asserts of a call of jfs_mlg_append, by their lines, that fail.
append_asserts(base, to_append) ==
    (IF jfs_mlg_valid_desc(base) THEN {} ELSE {32})
    \cup (IF jfs_mlg_valid_desc(to_append) THEN {} ELSE {33})
    \cup (IF base.size > 0 THEN {} ELSE {27})

\* How many bytes the call would need if numbers did not wrap.
ExactAppend(need, to_append) ==
    LET a == to_append.align
    IN  ((need + a - 1) \div a) * a + to_append.size * to_append.count

\* Whether two runs of bytes, given by where they start and how long they are, share one.
Overlap(start1, len1, start2, len2) == start1 < start2 + len2 /\ start2 < start1 + len1
=============================================================================
