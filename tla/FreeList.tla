------------------------------ MODULE FreeList ------------------------------
(***************************************************************************)
(* The free list of src/src/free_list.c at the level of addresses, in a    *)
(* component of a memory that MemoryLayout has laid out, with the layout   *)
(* of a tree's nodes (jfs_bst_make_desc, jfs_bst_init, bst_pack_node) that *)
(* the objects of a list are used for.                                     *)
(*                                                                         *)
(* An object that is free holds a link in its first PtrSize bytes.  link   *)
(* has the links that are still whole: a write to any of the bytes of a    *)
(* link destroys it.  Following a link that is gone ends in "undefined".   *)
(*                                                                         *)
(* What a list does in a memory whose size has wrapped is not followed:    *)
(* SoundIffFits of MemoryLayout says that its components overlap.          *)
(***************************************************************************)
EXTENDS MemoryLayout

CONSTANTS
    TreeArgs,   \* what a client passes to jfs_bst_make_desc
    Counts      \* how many nodes it then asks for

ASSUME TreeArgsAssumption == TreeArgs \subseteq Descriptions /\ Counts \subseteq Size

VARIABLES
    args,       \* of jfs_bst_make_desc, for a tree
    comp,       \* the component of the list: ptr and desc
    state,      \* how far the list is
    linked,     \* i of fl_link_memory
    link,       \* from the address of a link to what it holds
    list, count,    \* the jfs_fl_t
    value,      \* value_offset and value_size of the jfs_bst_t
    out,        \* the objects the client holds
    black,      \* whether the node written last reads as black
    outside     \* whether a write has left the component, for the properties

listVars == <<comp, state, linked, link, list, count, value, out, black, outside>>
poolVars == <<vars, args, listVars>>

NULL == 0
Junk == -1
None == Desc(0, 0, 0)
NoComponent == [ptr |-> NULL, desc |-> None]
IsTree == args # None

ObjSize == comp.desc.size
End     == comp.ptr + ObjSize * comp.desc.count
Objects == {comp.ptr + k * ObjSize : k \in 0 .. comp.desc.count - 1}

\* The links left when len bytes from start on are overwritten.
Spared(start, len) ==
    {p \in DOMAIN link : ~Overlap(p, PtrSize, start, len)}

\* Mutant: the head of the list is moved before the link is written.
SetLink_swapped(p, target) ==
    link' = [a \in Spared(p, PtrSize) \cup {p} |-> IF a = p THEN p ELSE link[a]]

SetLink(p, target) ==
    link' = [a \in Spared(p, PtrSize) \cup {p} |-> IF a = p THEN target ELSE link[a]]

Follow(p) == IF p \in DOMAIN link THEN link[p] ELSE Junk

\* Whether a write of len bytes from start on stays in the component.
Inside(start, len) == start >= comp.ptr /\ start + len <= End

NoValue == [offset |-> 0, size |-> 0]

PoolInit ==
    /\ Init /\ args = None
    /\ comp = NoComponent /\ state = "none" /\ linked = 0 /\ link = <<>>
    /\ list = NULL /\ count = 0 /\ value = NoValue
    /\ out = {} /\ black = FALSE /\ outside = FALSE

-----------------------------------------------------------------------------
(* The description and the memory *)

NodeDesc == Desc(sizeof_jfs_bst_node, PtrSize, 1)

\* JFS_ERR_ARG, and nothing, for arguments that are no description.
jfs_bst_make_desc(a) ==
    /\ pc = "idle" /\ heap = {} /\ jfs_mlg_valid_desc(a)
    /\ args' = a
    /\ UNCHANGED <<vars, listVars>>

\* A client asks for several nodes by the count of the description it was given,
\* which jfs_bst_make_desc leaves at 1.
NodeDescs ==
    {[jfs_mlg_append(NodeDesc, args) EXCEPT !.count = c] : c \in IF IsTree THEN Counts ELSE {}}

\* The list in a memory ends with it.
Release ==
    /\ jfs_mlg_memory_free
    /\ comp' = NoComponent /\ state' = "none" /\ linked' = 0 /\ link' = <<>>
    /\ list' = NULL /\ count' = 0 /\ value' = NoValue
    /\ out' = {} /\ black' = FALSE /\ outside' = FALSE
    /\ UNCHANGED args

-----------------------------------------------------------------------------
(* jfs_fl_init, and jfs_bst_init around it *)

\* The components of the memory, and one that was never filled in.
Components ==
    {[ptr |-> memory.comps[k], desc |-> layout.descs[k]] : k \in DOMAIN memory.comps}
    \cup {NoComponent}

\* JFS_ERR_BAD_CONF, and nothing, for a component that is not valid.
jfs_fl_init(c) ==
    /\ Returned /\ need < Word /\ state = "none"
    /\ IsTree => c.desc \in NodeDescs
    /\ jfs_mlg_valid_desc(c.desc) /\ c.ptr # NULL
    /\ comp' = c /\ state' = "link"
    /\ UNCHANGED <<vars, args, linked, link, list, count, value, out, black, outside>>

\* Mutant: the last object is left out.
LinkLoop_short == state = "link" /\ linked < comp.desc.count - 1

\* Mutant: one object too many is linked.
LinkLoop_long == state = "link" /\ linked <= comp.desc.count

LinkLoop == state = "link" /\ linked < comp.desc.count

\* An iteration; list is the local of fl_link_memory, which is returned into fl->list.
fl_link_memory ==
    LET obj == comp.ptr + linked * ObjSize IN
    /\ LinkLoop
    /\ SetLink(obj, list) /\ list' = obj /\ linked' = linked + 1
    /\ outside' = (outside \/ ~Inside(obj, PtrSize))
    /\ UNCHANGED <<vars, args, comp, state, count, value, out, black>>

\* Mutant: the alignment of the component is forgotten.
value_offset_unaligned == sizeof_jfs_bst_node

value_offset == jfs_mlg_align_size(sizeof_jfs_bst_node, comp.desc.align)

\* fl->count, and for a tree where the value of a node is: lines 78 and 79.
fl_init_done ==
    /\ state = "link" /\ ~LinkLoop
    /\ count' = comp.desc.count /\ state' = "ready"
    /\ value' = IF IsTree THEN [offset |-> value_offset, size |-> Wrap(ObjSize - value_offset)]
                          ELSE [offset |-> 0, size |-> ObjSize]
    /\ UNCHANGED <<vars, args, comp, linked, link, list, out, black, outside>>

-----------------------------------------------------------------------------
(* The calls *)

\* Mutant: the object handed out stays counted.
count_after_alloc_kept == count

count_after_alloc == count - 1

\* NULL, and no change, when count is 0.
jfs_fl_alloc ==
    /\ state = "ready" /\ count > 0
    /\ IF list \in {Junk, NULL}
       THEN state' = "undefined" /\ UNCHANGED <<list, count, out>>
       ELSE /\ list' = Follow(list) /\ count' = count_after_alloc
            /\ out' = out \cup {list} /\ UNCHANGED state
    /\ UNCHANGED <<vars, args, comp, linked, link, value, black, outside>>

jfs_fl_free(obj) ==
    /\ state = "ready" /\ obj \in out
    /\ SetLink(obj, list) /\ list' = obj /\ count' = count + 1 /\ out' = out \ {obj}
    /\ outside' = (outside \/ ~Inside(obj, PtrSize))
    /\ UNCHANGED <<vars, args, comp, state, linked, value, black>>

\* A client that is not the tree writes to all of an object.
Write(obj) ==
    /\ state = "ready" /\ ~IsTree /\ obj \in out
    /\ link' = [p \in Spared(obj, ObjSize) |-> link[p]]
    /\ UNCHANGED <<vars, args, comp, state, linked, list, count, value, out, black, outside>>

\* Mutant: a new node is written black.
reads_black_always(parent) == TRUE

\* The colour that is read back from (uintptr_t) parent | BST_RED.
reads_black(parent) == parent % 2 = 1

\* The tree copies a value into a node (bst_pack_node), writes its links, and
\* keeps its colour, red, in the lowest bit of the address of its parent, which is
\* the sentinel or a node in use.
bst_pack_and_insert(obj) ==
    LET start == obj + value.offset IN
    /\ state = "ready" /\ IsTree /\ obj \in out
    /\ link' = [p \in Spared(obj, sizeof_jfs_bst_node) \cap Spared(start, value.size) |-> link[p]]
    /\ outside' = \/ outside
                  \/ ~Inside(obj, sizeof_jfs_bst_node) \/ ~Inside(start, value.size)
    /\ \E parent \in {NULL} \cup (out \ {obj}) : black' = reads_black(parent)
    /\ UNCHANGED <<vars, args, comp, state, linked, list, count, value, out>>

PoolNext ==
    \/ \E a \in TreeArgs : jfs_bst_make_desc(a)
    \/ LayOut(Descs \cup NodeDescs) /\ UNCHANGED <<args, listVars>>
    \/ Release
    \/ \E c \in Components : jfs_fl_init(c)
    \/ fl_link_memory \/ fl_init_done \/ jfs_fl_alloc
    \/ \E obj \in out : jfs_fl_free(obj) \/ Write(obj) \/ bst_pack_and_insert(obj)

PoolSpec == PoolInit /\ [][PoolNext]_poolVars

-----------------------------------------------------------------------------
(* Properties *)

Addresses == Size \cup {Junk}

ListTypeOK ==
    /\ args \in Descriptions /\ comp.desc \in Descriptions /\ comp.ptr \in Size
    /\ state \in {"none", "link", "ready", "undefined"}
    /\ {linked, count} \subseteq 0 .. comp.desc.count
    /\ DOMAIN link \subseteq Size /\ \A p \in DOMAIN link : link[p] \in Addresses
    /\ list \in Addresses
    /\ value.offset \in Size /\ value.size \in Size
    /\ out \subseteq Addresses /\ black \in BOOLEAN /\ outside \in BOOLEAN

\* The bytes an object is used for, without wrapping.
Used == IF IsTree THEN ExactAppend(sizeof_jfs_bst_node, args) ELSE PtrSize

\* An object is as large as what is put into it.  Nothing checks this: MIN_OBJ_SIZE
\* of free_list.c has no use, and the sum of jfs_bst_make_desc may wrap.
Fits == ObjSize >= Used

\* The objects the list runs through, the next one first: each link leads to one of
\* the targets.
Targets == {list, Junk} \cup {link[p] : p \in DOMAIN link}
RunsThrough(chain) ==
    \A k \in DOMAIN chain : chain[k] = IF k = 1 THEN list ELSE Follow(chain[k - 1])
Chain == CHOOSE chain \in [1 .. count -> Targets] : RunsThrough(chain)

\* Every variable keeps its type.  After any sequence of calls and writes to the
\* objects handed out, the list runs through as many objects as it counts, no
\* object twice, and each object of the component is either on the list or with the
\* caller; no link, node or value is written outside the component, and no link
\* that is gone is followed: provided objects fit.
EveryObjectOnce ==
    /\ ListTypeOK
    /\ state = "ready" /\ Fits =>
        LET free == {Chain[k] : k \in 1 .. count} IN
        /\ \A j, k \in 1 .. count : j # k => Chain[j] # Chain[k]
        /\ free \cap out = {} /\ free \cup out = Objects
    /\ outside \/ state = "undefined" => ~Fits

\* jfs_bst_init finds the offset that jfs_bst_make_desc has used and not saved, and
\* the size of the values with it, whatever the alignment of the values and
\* even when sizes have wrapped.  A node written with a red colour reads as red,
\* unless the size of a node is no multiple of its alignment, which
\* jfs_bst_make_desc does not see to.
NodesAreReadable ==
    /\ state = "ready" /\ IsTree =>
        /\ value.offset = jfs_mlg_append(NodeDesc, [args EXCEPT !.count = 0]).size
        /\ value.size = Wrap(args.size * args.count)
    /\ black => ObjSize % comp.desc.align # 0

\* The free list implements the stack of FreeStack.
Stack == INSTANCE FreeStack WITH
    Objects <- Size,
    made    <- state \in {"ready", "undefined"},
    stack   <- IF state \in {"ready", "undefined"} THEN Chain ELSE <<>>

\* Allocating takes the object freed last and freeing puts it back on top, with
\* every other object where it was, for objects that fit.
ImplementsFreeStack ==
    Stack!Init /\ [][Fits => [Stack!Next]_(Stack!vars)]_poolVars
=============================================================================
