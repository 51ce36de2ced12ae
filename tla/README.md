# A verification of jacobs-c-library

The library is a set of C building blocks: containers that live in memory the
caller lays out in advance, thin wrappers that turn `errno` into library codes,
loops over file descriptors, a directory walk, and the beginnings of a slab
allocator that is to use the containers. This directory holds TLA+ models of
its parts, TLC configurations that check them on small instances, and TLAPS
proofs of the properties that do not depend on the size of the instance.

The source is in the middle of a change (two prefixes, `jfs_` and `jcl_`, are in
use, some names are used that no header declares, `meson.build` compiles
`error.c` only, there are no tests). The models follow the code as it stands;
where a name is missing the README says what was assumed.

## The system

| part | state | operations | talks to |
|---|---|---|---|
| binary search tree (`binary_search_tree.c`) | root, red-black links, sentinel, cache of the smallest, largest and previous node, lists of equal keys | init, puts, takes, get_largest, get_smallest | free list; callbacks cmp, attach, detach |
| free list (`free_list.c`) | a stack threaded through the free objects, a count | init, alloc, free | memory layout component |
| LRU cache (`lru_cache.c`) | an array ordered by use, a count | make_desc, init, access, free | memory block; callbacks cmp, hit, miss, evict |
| memory block (`memory_block.c`) | base address, object size, capacity | index, read, write, remap | |
| memory layout generator (`memory_layout_generator.c`) | one allocation with a header and components | append, memory_init, memory_free | |
| file io (`file_io.c`) | none; paths and names own strings | read and write loops, path and name handling | read, write |
| net socket (`net_socket.c`) | a descriptor and an address | create, open, close, bind, listen, accept, connect, send, recv | socket calls |
| error wrappers (`error.c`) | none | one per system call | the kernel, pthreads |
| directory walk (`file_walk.c`) | paths still to visit, directories recorded | state_create, step, record_init and the frees | opendir, readdir, file io |
| slab allocator (`slab_allocator.c`) | a configuration | config_init and aligned_mmap; the rest has no body | mmap |

Nothing in the library starts a thread or takes a lock; a tree, a cache or a
socket belongs to one caller at a time. What is shared is what the process
shares: the numbers of descriptors, which the kernel gives to whoever asks next.
Otherwise what is hard here is not concurrency but long sequences of calls on
linked memory: links read after they have been
rotated, cache entries that outlive the node they point to, memory reused
without being cleared, transfers split and interrupted by the kernel at any
byte, sums of sizes that wrap, errors in the middle of several steps. `PROJECT.json` lists these hazards
at their lines, with the properties that would catch each.

What makes each part correct:

- tree: between calls the links are a red-black search tree over the stored
  values, the cache names its extremes, no node is free and stored at once, and
  a value leaves only by being handed to the caller;
- LRU cache: an object is loaded once while it is held, dropped as often as it
  was loaded, and the object dropped is the one unused for longest;
- transfers: the count returned is what passed, success means everything passed
  once;
- layout: components are aligned, inside the block and apart, and nothing is left
  on the heap by a call that fails;
- free list: every object is on the list once or with the caller, whatever callers
  write into theirs;
- paths and names: each string has one owner and the length kept with it is its
  length;
- walk: nothing is leaked, freed twice or visited twice on any error path, and
  what is missing from a record was lost to a step that said so;
- socket: no descriptor is leaked, closed twice or used after it belongs to
  somebody else, and a connect that answers success has connected;
- slab configuration: the slab found is the least that is large enough, and every
  call ends.

## Modules

`BinarySearchTree` models the tree with the free list it allocates from. A call
is a sequence of steps, one for the code up to its first loop, one for each
iteration, one for the code behind: `pc` names the place, `op`, `loc` and `x`
are the locals that live across steps. `tree` holds root, children, parents and
colours, `list` the chains of equal keys, `value` the key of the value packed
into a node, `cache` and `free` the fields of the same names. The mirror images
of the source (left and right, smallest and largest) are one definition with a
side as parameter. Asserts about the shape do not stop the model; those that
fail are collected in `tree.failed`. The one of line 302 is among them and does
fail (finding 1), so `AssertsHold` allows it and no other. The asserts of lines
213, 223, 235 and 325 to 327 repeat the guards of the steps they stand in.

Assumptions about code outside the source:

- `tree->attach` and `tree->detach` are called but are not fields of
  `struct jfs_bst`. `bst_attach_node` and `bst_detach_node` have the same shape
  and no caller, so `attach` and `detach` behave as they do. Nothing initialises
  `node->list`; the model clears the link when a value is packed, as a link kept
  inside the value would be. With `node->list` as it stands the link of a fresh
  node would be whatever the memory held.
- `cmp` orders keys consistently; only the sign of its answer is fixed, its
  magnitude is a parameter (`CmpMagnitudes`).
- Freeing a node overwrites `parent_color` with the link of the free list. The
  fields of a free node are dead until it is used again and read as nil and
  NULL in the model; its value stays readable, because `bst_check_cache` reads it
  through `cache.previous`.

`OrderedBag` is what the tree promises: a bag of at most so many keys whose every
operation takes effect at once. The mapping, at the end of `BinarySearchTree`, counts
the stored values of each key and of all keys; a call takes effect when it links or
unlinks its node, and until then it has answered nothing. `StepOfCall` says that the
step of a call is the operation of that very call, with its key, and not just any
operation the bag allows. A key that is found may be handed out and stay, as
`jfs_bst_takes` does when the cache answers.

`MCBinarySearchTree` adds the symmetry of the nodes and a client that keeps a
larger tree nearly full.

`LruCache` models the cache on its memory block: `mem` is the array, which
starts with arbitrary contents because a component is not cleared; `loads`
counts what the caller's `miss` and `evict` did to each object. `RecencyCache` is
the abstract cache it implements: a set of keys of bounded size and the order of
their last use, without slots, loops or memory. The refinement mapping reads the
set and the order off the slots, as they will be once a running call has put its
object in place.

`Transfer` models the loops of `jfs_fio_write`, `jfs_fio_read`,
`jcl_ns_socket_send` and `jcl_ns_socket_recv` with their wrappers. `stream`
records which places of the buffer went through the descriptor in which order;
the kernel may let any number of bytes through, interrupt, fail, or report the
end. The two prefixes `JFS_` and `JCL_` are taken to name the same things.
`RES_ERR`, which `file_walk.c` and `net_socket.c` use and no header defines, is taken
to be `RESS_ERR` of `error.h:91`, which sets `*err` back to `JCL_OK`; this holds for
all modules.

`FileWalk` models the directory walk. `state`, `record` and `loc` are the walk,
the client's record and the locals of a running step; `pc` is the place in
`jfs_fw_state_step`, which is cut at every system call and loop iteration. A
directory stands for its path, and `TooLong` holds those whose path does not
fit. `readdir` reports entries in any order. `live` counts the blocks and
streams that exist, while what is owned is read off the structures, so that a
block freed in the wrong place shows as a difference of the two. The first
failing allocations of `jfs_fw_state_create` make its cleanup free vectors that
were never set; the model lets that be harmless or end the program. The client
may step, destroy and ask for a record at any time, and starts a walk when it
has freed the last record. Names longer than `NAME_MAX` do not come from
`readdir`, a start path longer than `PATH_MAX` does not come from
`jfs_fio_path_init`, and both are left out. `MCFileWalk` is a small file system.

`Layout` is the arithmetic of `memory_layout_generator.c` over words of `Width` bits
that wrap: `jfs_mlg_align_size`, `jfs_mlg_append` and the checks. `MemoryLayout` is
`jfs_mlg_memory_init` on top of it, cut at its allocations and loop iterations,
and `jfs_mlg_memory_free`. `need` is the size without wrapping, for the properties
only; asserts that fail are collected in `failed`. `FreeList` extends it with a
list in one of the components: `link` maps the addresses of links that are whole
to what they hold, and each write to memory (a link, a client's object, a tree's
node and value) destroys the links it overlaps. The nodes come from
`jfs_bst_make_desc`, which leaves their `count` at 1; the client raises it to get a
tree with more than one node. The colour of a new node is read back from the
lowest bit of the address of its parent, as `bst_set_parent_color` stores it.
`FreeStack` is the stack that the list is shown to implement and that
`BinarySearchTree` uses as `free`. What a list does in a memory whose size has
wrapped is left out, since `SoundIffFits` says its components overlap.

`NetSocket` is the life of sockets: create, open, set_ip, set_hostname, bind, listen,
accept, connect, shutdown, close and destroy, cut between each system call and
the assignment behind it. `kernel` says what each descriptor is; the rest of the
process opens and closes descriptors at any time and gets the numbers that are
free. Error codes are reduced to success and failure. Assumed of the kernel, as
Linux has it: a close gives the number back whatever it answers; an interrupted
connect goes on, and a second call waits for it or reports how it ended; an
address without a family dissolves a connection.

`SlabConfig` is `sa_config_init`: one step up to the loop, one for each doubling, one
behind it. Its defaults are the ones of the code.

`FilePaths` models `jfs_fio_path_*`, `jfs_fio_name_*` and the path buffer. A text is its
length and the slashes it ends in; `heap` holds the texts that are allocated.
Clients fill only structs that own nothing, as the `_init` in the names asks.

`BinarySearchTreeProofs`, `RedBlackProofs`, `LruCacheProofs`, `TransferProofs`,
`NetSocketProofs`, `FilePathsProofs`, `FileWalkProofs` and `FreeListProofs` (which covers
`Layout`, `MemoryLayout` and `SlabConfig` too) hold the theorems.

## Runs

| run | instance | shows |
|---|---|---|
| `bst_full` | 4 nodes, 3 keys, nodes symmetric | every sequence of calls, duplicates, full and empty tree, stale `cache.previous` included: search tree, red-black rules, cache, free list and lists stay consistent, the walks stay in the tree, no assert about its shape fails but the one of line 302; a freed node's value is what the caller got; a value is lost only through `cache.previous`; every call that does not trust a stale `cache.previous` answers as `OrderedBag` does |
| `bst_balance` | 6 nodes, 6 keys, one key per node, no more than 3 free before removals start | every case of both fixups, the red sibling included, which needs more nodes than `bst_full` has; every call returns |
| `bst_last_node_is_root` | 3 nodes, 3 keys | violated: the assert on the root fails when the last node is removed |
| `bst_only_one_node` | 3 nodes, 3 keys, cmp answers 1 or 2 | violated: the extremes of the cache coincide in a tree with several nodes |
| `lru` | 4 keys, capacity 3 | balanced callbacks, no key twice, implements `RecencyCache`, every call returns |
| `lru_extra_slot` | the same | violated: the extra slot is filled |
| `transfer` | buffers up to 3 bytes, 2 signals, 6 bytes through the descriptor | counts are honest, exact for the sockets and for file loops without signals, success is complete, calls return |
| `file_walk` | 5 directories on three levels, one with a path too long, one with an entry of unknown type, a link back to the top; vectors start with room for 1; any 3 calls fail | nothing is leaked, freed twice, visited twice or left out without its step having failed; answers tell what is left; the walk ends |
| `memory_pool` | words of 7 bits, pointers of 2 bytes, up to 3 components of 4 valid and 2 refused kinds, nodes of 5 sizes, up to 3 of them | a memory's parts are apart and inside it exactly if its size fits a word, and always aligned; failing calls leave nothing; the list keeps every object once and is the stack of `FreeStack` if objects fit; the offset of a node's value is found again |
| `net_socket` | 2 sockets, 2 descriptors, 2 signals, a process that opens and closes descriptors of its own | sockets hold descriptors of their own only, leak one only when an open socket is opened again, leave nothing behind in the kernel or the resolver, tell the truth about connecting, and connect returns |
| `slab_config` | words of 15 bits, pages of 128 bytes; sizes, alignments and amounts at their edges | the loop stops at the right slab, nothing traps, amounts fit the stores, and only sizes beyond half the address space are accepted |
| `file_paths` | 2 paths, 2 names, 3 blocks, limits of 4 and 2 | one owner for each string, true lengths |

Bounds. Three keys on four nodes give trees of three levels with a chained
duplicate and both a full and an empty free list; six nodes are the least with
which a deletion meets a red sibling whose rotation leads into every other case.
`Spare` bounds how empty the tree of `bst_balance` gets before it is filled
again. Four keys against three slots make every access a hit at any place, a
growth or an eviction. Three bytes allow every split of a transfer with a start,
a middle and an end; `MaxStream` only bounds what an interrupted file loop can
push through, which is twice the buffer and so shows bytes passing uncounted.
A capacity of 1 makes every vector of the walk grow, some twice, where the code
starts with 16; three failures allow one in each of create, step and record_init,
or several in one walk. A word of 7 bits holds the struct, the list and three
small components, and is too small for a large header with them, so both sides
of `SoundIffFits` occur; pointers of 2 bytes leave room for objects smaller than a
link and for nodes of an odd size. `Bases` has an address for each alignment. Two
descriptors for two sockets and a stranger make every close a number somebody
else may get. The scaled word and page of `slab_config` keep the ratios that
matter: the default slab is several pages, and products of the amounts wrap.

Fairness. `EveryCallReturns` assumes weak fairness of the steps inside a call,
never of calls: the library blocks nowhere inside the containers, so a call that
has begun goes on. For the transfers the kernel is assumed to let bytes through,
report the end, or fail, and to interrupt finitely often. `ConnectReturns` assumes
the same of an attempt to connect: the kernel answers it at last. `CallEnds` is
about a loop without system calls. `WalkEnds` assumes a
client that keeps calling `jfs_fw_state_step` while paths are left.

Known deviations from what one would want, stated in the properties rather than
hidden in the models: `jfs_bst_takes` does not remove what it finds through the
cache; `LostOnlyThroughPrevious` says exactly when a value is lost;
`CountIsExact` and `EveryCallReturns` of `Transfer` leave out the file loops that
have been interrupted, which keep `JFS_ERR_INTER` in `*err` for ever;
`EveryBlockOwned` lets `jfs_fw_state_create` alone free what nobody initialised; `StepTellsWhatIsLeft` says
how the result has to be read, which differs after a success and after an error,
and leaves out a step called on an exhausted walk; `RecordIsClosed` allows a
record without a directory whose step failed although its children are there.
`ImplementsOrderedBag` leaves out calls that trust a `cache.previous` that has left
the tree. `SoundIffFits` says that a layout too large for a `size_t` is handed out
with parts that overrun it, and `NothingLeaked` that a layout without components
runs into the assert of `memory_layout_generator.c:33` instead of being refused.
`EveryObjectOnce` needs objects that fit a link, which `MIN_OBJ_SIZE` of
`free_list.c:7` was perhaps meant to check and does not. `NodesAreReadable` needs
nodes whose size is a multiple of their alignment: `jfs_bst_make_desc` does not pad
it, nodes with odd values lie at odd addresses, and the colour of a child of such
a node reads as black, against the assert of `binary_search_tree.c:327`.
`LeakOnlyByReopen` allows the one leak there is. `ConnectTellsTruth` leaves out
sockets whose address was never set: connecting one dissolves a connection and
answers success. `AssertsHold` leaves out line 302, which fails whenever the tree
gets empty. `OnlyHugeAccepted` says that
`sa_config_init` refuses every slab size that is large enough (line 143 has its
comparison the wrong way round), a configuration made of defaults included;
line 125 also takes the capacity of the cache store from another field.
Where a deviation is an exemption or a condition of a property, the property does
not catch it: the hazards concerned are listed in `PROJECT.json` without
properties, or with those that state it, and with a note.

## Findings

1. `binary_search_tree.c:302`: `assert(node == tree->root)` is evaluated after
   `bst_delete` has made the sentinel the root; it fails whenever the last value is
   removed.
2. `binary_search_tree.c:224, 290, 292`: results of cmp other than -1 and 1 are
   searched by sign but inserted to the right and ignored by the cache.
3. `lru_cache.c:11`: the slot commented as being for the promote algorithm is
   ordinary capacity.

## Proofs

For every value of the constants (any number of nodes, any keys, any capacity,
buffers of any size, every file system, every width of a `size_t`):

- `BinarySearchTreeProofs!TypeCorrect`: `Spec => []TypeOK`. Each setter of a link
  or colour keeps the tree within its type, so rotations, transplants and leaves
  do, and then each of the 21 actions. `TypeOK` alone is not inductive: the steps
  behind the search free or insert `op.node`, which has to be a node and not the
  sentinel. `HoldsNode` adds that, by the place of the call. The module also holds
  what rotation, transplant, insertion and splice do to the links, the order and
  the colours of any tree; the splice of `bst_delete` is a removal followed by a
  relabelling.
- `RedBlackProofs!StaysSearchTree`, `StaysRedBlack`, `CacheStaysExtreme`,
  `NodesStayApart`, `WalksStayInTree`, `AssertsAlwaysHold` from `SoundTreeInv`. The
  properties speak of everything reachable from the root, by recursive functions
  that a rotation changes in many places. The invariant `Sound(under, height,
  owner)` says instead that three functions exist which the code does not store:
  `under[n]`, the nodes of the subtree of n; `height[n]`, the black nodes on every
  way down from n; `owner[m]`, the linked node that m is chained behind. A step
  changes each of them in a few places. The rest of the invariant goes by the
  place of the call: where a search may stand and which extremes it has passed
  (`FindOK`), a new node the cache does not know of yet (`CacheBehind`), the walk to
  the successor (`SuccessorOK`), the node that has left and that the cache may
  still name, whose stale links lead to the next extreme (`CacheStale`, `Follows`),
  one red node below a red one (`InsertOK`), one black node missing (`DeleteOK`).
  `CacheStale` is why the update of the cache may read the child and parent of a
  node that is no longer linked. Each action has one lemma; at the end the
  recursive definitions are shown to agree with the three functions.
  `AssertsAlwaysHold` exempts line 302: the invariant says `OnlyLastNode(tree.failed)`
  at each place, and the lemmas about links hold whatever has failed, since no step
  reads it. `TreeStaysSound` is their conjunction, as `bst_balance` checks it.
- `RedBlackProofs!FreedNodesAreReturned`, `NodesAreLostOnlyThroughPrevious` and the
  refinement `TreeImplementsOrderedBag`, from `BagInv`. These speak of exactly the
  values that are stored, where `Sound` bounds the chains from above only. So
  `Stored` is first shown to be the least set that holds the linked nodes and is
  closed under the links of the chains (`IsStored`); a step is then one of three
  kinds, for which this set stays (`Kept`), gains a node with the key of the call
  (`Gained`) or loses one (`Removed`), whatever it does to the shape. `CallInv` adds
  what a running call knows: its operation and key, and that the value in `ret` is
  the one in the node it will free. A refused key is absent: any node meets the
  place where the search has ended in a node that the search has compared with
  (`Meet`), so it lies on the wrong side of the key (`Absent`), and what is chained
  behind a node has its key.
  That the smallest and largest of the bag are what `jfs_bst_get` hands out follows
  from `CacheIsExtreme`, that a refused put finds the bag full from the free list being
  empty with nothing lost. The two exceptions in the property are the ones of the
  code: trusting a `cache.previous` that has left the tree, and the room that is
  missing afterwards.
- `LruCacheProofs!TypeCorrect`, `KeysStayDistinct`, `LoadsStayBalanced`. The
  invariant adds `CallInv`: the slots the search has passed do not hold the key,
  and a miss or promote is for a key that no other slot holds. `PromotePermutes`
  shows that a promotion permutes the slots in use; everything else about the
  order follows from it. `CacheImplementsRecency` is the refinement of
  `RecencyCache`: the steps of a search stutter, and the step that settles where
  the object goes is the abstract hit, growth or eviction, because a promotion
  keeps the order of all other slots.
- `TransferProofs!TypeCorrect`, `CountsAreHonest`, `CountsAreExact`,
  `OkMeansComplete`. The invariant adds that a loop whose `err` is still OK has
  counted everything that passed, which is what an interrupted file loop loses.
- `NetSocketProofs!SocketsKeepTheirOwn`, `OnlyReopenLeaks`, `ConnectIsTruthful`.
  `SocketInv` is silent about a descriptor between the system call that returns it
  and the assignment behind it. The invariant adds that such a descriptor is
  fresh and known to its call alone (`OpenedIsOwn`), the same of the socket that
  accept has allocated (`AcceptedIsOwn`), and that an attempt to connect goes on only
  while its caller waits. Most actions are instances of one step that concerns a
  socket and its descriptor (`PlainStep`), proved once.
- `FilePathsProofs!PathsAreSound`. `OneOwner` counts; the invariant says instead that
  no two structs share a string, and that one without a string has length 0.
- `FileWalkProofs!TypeCorrect`, `BlocksAreOwned`, `AnswersAreHonest` from `IndInv`:
  what the locals hold at each point of `jfs_fw_state_step`, and that the blocks
  that exist are the sum of what state, record and locals own (`Accounted`). Each
  action moves blocks between owners, makes or frees some, and both sides change
  by the same number; the count of a sequence of directories is a cardinality,
  so that it is additive without recursion. `NothingIsTwice` and
  `RecordsAreClosed` need `WalkInv` as well: every directory the walk knows was found in
  one that has been opened, and the one in hand has led only to entries that
  have been pushed (`Traced`), so that a path about to be pushed is new.
- `FreeListProofs!LayoutIsSound`, `LayoutLeaksNothing` from `MemInv`: as long as the
  exact sum of the sizes fits a word, each part starts where the one before has
  ended or behind (`FitInv`); once it does not, one of the parts starts at offset
  0 or ends behind the address space (`WrapInv`), and either contradicts that it
  is in the block and apart from the struct at its start. Offsets are multiples
  of the alignments in both cases, since alignments divide a word.
- `FreeListProofs!ObjectsStayApart`, `NodesStayReadable`, `PoolLayoutIsSound` from
  `PoolInv`: nothing but objects is ever linked or handed out, even if links are
  overwritten; the list under construction runs from the object linked last down
  to the first (`DownInv`); and afterwards, if objects fit, there is a chain of
  links through exactly the objects the client does not have (`ChainInv`). Alloc
  drops the head of that chain, free puts a new one in front, writes to objects
  that are out keep it. The `Chain` of the properties is a `CHOOSE`; `OneRun` shows
  that two chains of one length are the same.
  `ListImplementsStack` is the refinement of `FreeStack` along the same chains.
- `FreeListProofs!ConfigsAreSound`: `ConfigSpec => []ConfigInv`, from `SlabInv`.
  `ConfigInv` speaks of the loop where it ends; `LoopAt` says where it is before: the
  pages are one, or twice as many as were too few, and together they are a power
  of two that is at most the whole address space, so doubling never wraps. What is
  needed is exact as long as half the address space holds it (`NeedIsExact`: no
  product on the way wraps); then the slab holds it and is less than twice as large
  (`LoopEnds`), and line 143 refuses it. A batch whose bytes wrap to none leaves the
  header of the slab as all that is needed (`NoBytes`), which is padded to a power of
  two and fits half the address space (`HeaderFits`), so it is refused before the
  division by those bytes. The last point is why the model has no trap although
  nothing in the code checks for one.

Some arguments need induction: that the links determine one chain, that powers of
two divide one another, that what is reached from a node of the tree or of a
chain in some number of steps is `under` or behind it, that black depths are heights. They are
made with a least counterexample:
`LeastNat` takes it from the well-foundedness of `<` on the natural numbers, which
the library states of sets and not of an operator.

The assumptions are the named ones of the modules:

- finitely many nodes, distinct from the sentinel and NULL; integer keys; cmp
  answers at least 1 away from 0; natural numbers of objects and natural bounds;
- the ten theorems of `RedBlackProofs` assume `CmpMagnitudes = {1}`, a cmp that
  answers -1, 0 or 1. Without it they are false: lines 224, 290 and 292 compare
  the answer with -1 and 1 while the search goes by its sign (finding 2);
- `PowersAssumption` is the definition of `^`, of which the provers know no more
  than the name; TLC evaluates it for the widths of the runs;
- `PtrAssumption`: a pointer is a power of two of bytes and more than one, and the
  largest struct of the library is smaller than the address space. The tree
  relies on the former when it keeps a colour in the lowest bit of an address;
- `TreeAssumption`: a directory stands for its path, which ends in its name and
  begins with the path of the one directory it is an entry of. Symbolic links are
  not reported as directories by `readdir` and are not concerned;
- `NullAssumption`, `BlocksAssumption`: NULL is no object;
- descriptions, counts and addresses are words;
- pages of a power of two of bytes, configurations asked for in words, and words
  that hold the default of 64.

Only model-checked: liveness (`EveryCallReturns`, `ConnectReturns`, `WalkEnds`,
`CallEnds`), which is outside the prover's reach. The three violations are runs of
TLC by their nature.

## Plan

Done: models of all parts with behaviour of their own; proofs of all safety
invariants, action properties and refinements that the runs check. What would
come next depends on the code: the slab allocator behind its configuration, once
its caches and slow paths have bodies and line 143 lets a configuration through,
and the `pthread` wrappers with it, which are to be its only use.

## Not modelled

- The slab allocator behind its configuration. Caches, batches and locking have
  prototypes and no bodies, `sa_slab_link_batches` is an empty loop, and
  `sa_aligned_mmap`, `sa_slab_create` and `sa_allocator_find_slab` are written for a
  configuration that `sa_config_init` refuses.
- The `pthread`, `lstat` and `eventfd` wrappers of `error.c`, which nothing calls.
- The text of paths, names and messages; names longer than `NAME_MAX` inside the
  walk.
- The build, which compiles `error.c` only.
