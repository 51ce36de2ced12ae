----------------------------- MODULE FileWalk -----------------------------
(***************************************************************************)
(* The directory walk of src/src/file_walk.c, with the paths and names of  *)
(* src/src/file_io.c it owns.  jfs_fw_state_step is modelled a system call *)
(* or a loop iteration at a time, and every allocation, opendir and        *)
(* readdir of it may fail.                                                 *)
(*                                                                         *)
(* A directory stands for its path and a file for its name.  live counts   *)
(* the heap blocks and directory streams that exist; what the data         *)
(* structures own is read off the other variables.                         *)
(***************************************************************************)
EXTENDS Integers, SequencesExt

CONSTANTS
    Names,              \* everything the file system has a name for
    Start,              \* the directory the walk starts from
    Kind,               \* Kind[n]: the d_type readdir reports for n
    Contents,           \* Contents[n]: the names opendir finds under path n
    TooLong,            \* the directories whose path does not fit in PATH_MAX
    DefaultCapacity,    \* FW_*_VECTOR_DEFAULT_CAPACITY
    MaxFailures,        \* bound on the calls that fail
    NULL

Kinds == {"REG", "DIR", "UNKNOWN", "OTHER"}

ASSUME FileSystemAssumption ==
    /\ Start \in Names /\ TooLong \subseteq Names \ {Start}
    /\ Kind \in [Names -> Kinds] /\ Kind[Start] = "DIR"
    /\ Contents \in [Names -> SUBSET Names]

\* A directory stands for its path, which is that of its directory and a name: it is
\* an entry of one directory at most, and the start of none below it.
Directories == {n \in Names : Kind[n] = "DIR"}

ASSUME TreeAssumption ==
    \A d \in Directories :
        /\ Start \notin Contents[d]
        /\ \A e \in Directories \ {d} : Contents[d] \cap Contents[e] \cap Directories = {}

ASSUME BoundsAssumption ==
    DefaultCapacity \in Nat \ {0} /\ MaxFailures \in Nat

VARIABLES
    state,      \* the jfs_fw_state_t, or NULL
    record,     \* the directories of the client's jfs_fw_record_t, or NULL
    loc,        \* the locals of the jfs_fw_state_step that is running
    pc,         \* where it is; "idle" between calls, "crashed" after a wild free
    ret,        \* the answer of the last call, or of the running one so far
    live,       \* the blocks and streams that exist
    lost,       \* the directories whose step failed after they were popped
    wild,       \* the functions that have freed an uninitialised pointer
    failures    \* how many calls have failed

vars == <<state, record, loc, pc, ret, live, lost, wild, failures>>

-----------------------------------------------------------------------------
(* The three vectors, which differ in their items only, and what holds them *)

Vector(T) == [array : {"null", "block", "garbage"}, cap : Nat, items : Seq(T)]
File  == [name : Names, type : {"REG", "DIR"}]
Dir   == [path : Names, files : Seq(File)]
State == [path_vec : Vector(Names), dir_vec : Vector(Dir)]

\* NULL points to nothing.
ASSUME NullAssumption == NULL \notin Names \cup Dir \cup State \cup Seq(Dir)

\* A zeroed vector, and one in memory that malloc has just returned.
ZeroVector == [array |-> "null", cap |-> 0, items |-> <<>>]
RawVector  == [array |-> "garbage", cap |-> 0, items |-> <<>>]

vector_init == [array |-> "block", cap |-> DefaultCapacity, items |-> <<>>]

\* Mutant: the vector grows one push too late.
vector_full_late(v) == Len(v.items) > v.cap

\* A push has to reallocate first.
vector_full(v) == Len(v.items) >= v.cap

vector_push(v, e) ==
    [v EXCEPT !.cap = IF vector_full(v) THEN 2 * @ ELSE @, !.items = Append(@, e)]

vector_pop(v) == [v EXCEPT !.items = Front(@)]

\* The blocks that jfs_fio_path_free, jfs_fw_dir_free and the three vector
\* frees give back.
PathBlocks(p) == IF p = NULL THEN 0 ELSE 1
FilesBlocks(files) == IF files = <<>> THEN 0 ELSE 1 + Len(files)
DirBlocks(d) == IF d = NULL THEN 0 ELSE PathBlocks(d.path) + FilesBlocks(d.files)
DirsBlocks(dirs) ==
    Cardinality(UNION {{j} \X (1 .. DirBlocks(dirs[j])) : j \in DOMAIN dirs})

ArrayBlocks(v) == IF v.array = "block" THEN 1 ELSE 0
path_vector_blocks(v) == ArrayBlocks(v) + Len(v.items)
file_vector_blocks(v) == ArrayBlocks(v) + Len(v.items)
dir_vector_blocks(v)  == ArrayBlocks(v) + DirsBlocks(v.items)

-----------------------------------------------------------------------------
(* Calls and what they answer *)

\* A call that can fail does, or does not.
Fails    == failures < MaxFailures /\ failures' = failures + 1
Succeeds == UNCHANGED failures

\* Mutant: file_vec is not zeroed.
Locals_raw ==
    [file_vec |-> RawVector, dir_path |-> NULL, dir |-> NULL, sys_dir |-> FALSE,
     todo |-> {}, i |-> 1]

\* The locals as a step declares them; todo is what readdir has still to
\* report and i the index of fw_push_dir_paths.
Locals ==
    [file_vec |-> ZeroVector, dir_path |-> NULL, dir |-> NULL, sys_dir |-> FALSE,
     todo |-> {}, i |-> 1]

Answer(result, err) == [result |-> result, err |-> err]

Init ==
    /\ state = NULL /\ record = NULL
    /\ loc = Locals /\ pc = "idle"
    /\ ret = Answer(0, "OK")
    /\ live = 0 /\ lost = {} /\ wild = {} /\ failures = 0

\* fn frees a vector nobody has initialised: nothing happens if its memory
\* holds zeros, and anything may if it does not.
WildFree(fn) ==
    /\ wild' = wild \cup {fn}
    /\ pc' = "crashed"
    /\ state' = NULL /\ loc' = Locals
    /\ UNCHANGED <<record, live, lost>>

-----------------------------------------------------------------------------
(* jfs_fw_state_create.  Clients pass an err that is JFS_OK, and start a walk *)
(* once they are done with the record of the last one.                       *)

jfs_fw_state_create ==
    /\ pc = "idle" /\ state = NULL /\ record = NULL
    /\ Succeeds
    /\ state' = [path_vec |-> vector_push(vector_init, Start), dir_vec |-> vector_init]
    /\ live' = live + 4
    /\ ret' = Answer(0, "OK") /\ lost' = {}
    /\ UNCHANGED <<record, loc, pc, wild>>

\* The vectors as cleanup finds them when allocation k, of the state, the two
\* arrays and the path, is the one that failed.
path_vec_after(k) == IF k <= 2 THEN RawVector ELSE vector_init
dir_vec_after(k)  == IF k <= 3 THEN RawVector ELSE vector_init

state_create_fails(k) ==
    /\ pc = "idle" /\ state = NULL /\ record = NULL
    /\ Fails
    /\ ret' = Answer(0, "SYS")
    /\ \/ /\ live' = (live + k - 1)
             - (IF k = 1 THEN 0
                ELSE dir_vector_blocks(dir_vec_after(k)) + path_vector_blocks(path_vec_after(k)) + 1)
          /\ UNCHANGED <<state, record, loc, pc, lost, wild>>
       \/ /\ k > 1 /\ "garbage" \in {path_vec_after(k).array, dir_vec_after(k).array}
          /\ WildFree("jfs_fw_state_create")

-----------------------------------------------------------------------------
(* jfs_fw_state_step *)

cleanup_with(err) ==
    /\ pc' = "cleanup"
    /\ ret' = Answer(0, err)

\* Nothing is pending: the call answers 1.
step_empty ==
    /\ pc = "idle" /\ state # NULL /\ state.path_vec.items = <<>>
    /\ ret' = Answer(1, "OK")
    /\ UNCHANGED <<state, record, loc, pc, live, lost, wild, failures>>

\* file_vec is initialised and a path popped.
step_begin ==
    /\ pc = "idle" /\ state # NULL /\ state.path_vec.items # <<>>
    /\ \/ /\ Succeeds
          /\ loc' = [Locals EXCEPT !.file_vec = vector_init,
                                   !.dir_path = Last(state.path_vec.items)]
          /\ state' = [state EXCEPT !.path_vec = vector_pop(@)]
          /\ live' = live + 1
          /\ pc' = "open" /\ ret' = Answer(0, "OK")
       \/ /\ Fails
          /\ loc' = Locals
          /\ cleanup_with("SYS")
          /\ UNCHANGED <<state, live>>
    /\ UNCHANGED <<record, lost, wild>>

step_opendir ==
    /\ pc = "open"
    /\ \/ /\ Succeeds
          /\ loc' = [loc EXCEPT !.sys_dir = TRUE, !.todo = Contents[loc.dir_path]]
          /\ live' = live + 1
          /\ pc' = "scan"
          /\ UNCHANGED ret
       \/ /\ Fails
          /\ \E err \in {"INVAL_PATH", "ACCESS", "SYS"} : cleanup_with(err)
          /\ UNCHANGED <<loc, live>>
    /\ UNCHANGED <<state, record, lost, wild>>

\* Mutant: what is neither a file nor a directory, a symbolic link say, is
\* walked like a directory.
fw_map_dirent_type_follows(kind) ==
    [type |-> IF kind = "OTHER" THEN "DIR" ELSE "REG",
     err  |-> IF kind = "UNKNOWN" THEN "FW_UNKNOWN" ELSE "OK"]

fw_map_dirent_type(kind) ==
    [type |-> IF kind = "DIR" THEN "DIR" ELSE "REG",
     err  |-> IF kind \in {"REG", "DIR"} THEN "OK"
              ELSE IF kind = "UNKNOWN" THEN "FW_UNKNOWN" ELSE "FW_UNSUPPORTED"]

\* Mutant: an unsupported entry ends the scan.
after_unsupported_stops(n) == {}

\* The entries left once an unsupported one has been passed over.
after_unsupported(n) == loc.todo \ {n}

\* Mutant: the name or path stays behind.
free_unpushed_not == 0

\* The blocks freed when a name or a path has been allocated and its vector
\* cannot grow.
free_unpushed == 1

\* fw_scan_dir and fw_handle_dirent: readdir reports n.  The allocation that
\* fails is that of the name or that of a larger array.
scan_dirent(n) ==
    LET dirent == fw_map_dirent_type(Kind[n])
        file   == [name |-> n, type |-> dirent.type] IN
    /\ pc = "scan" /\ n \in loc.todo
    /\ \/ /\ dirent.err = "OK" /\ Succeeds
          /\ loc' = [loc EXCEPT !.todo = @ \ {n}, !.file_vec = vector_push(@, file)]
          /\ live' = live + 1
          /\ UNCHANGED <<pc, ret>>
       \/ /\ dirent.err = "OK" /\ Fails
          /\ cleanup_with("SYS")
          /\ \/ UNCHANGED live
             \/ vector_full(loc.file_vec) /\ live' = (live + 1) - free_unpushed
          /\ UNCHANGED loc
       \/ /\ dirent.err = "FW_UNSUPPORTED" /\ Succeeds
          /\ loc' = [loc EXCEPT !.todo = after_unsupported(n)]
          /\ UNCHANGED <<pc, ret, live>>
       \/ /\ dirent.err = "FW_UNKNOWN" /\ Succeeds
          /\ cleanup_with("FW_UNKNOWN")
          /\ UNCHANGED <<loc, live>>
    /\ UNCHANGED <<state, record, lost, wild>>

\* readdir returns NULL, with errno set or because nothing is left.
scan_end ==
    /\ pc = "scan"
    /\ \/ /\ loc.todo = {} /\ Succeeds
          /\ pc' = "push"
          /\ UNCHANGED ret
       \/ /\ Fails
          /\ cleanup_with("SYS")
    /\ UNCHANGED <<state, record, loc, live, lost, wild>>

\* Mutants: a path that is too long ends the loop, or is tried for ever.
push_next_breaks(f) ==
    IF f.name \in TooLong THEN Len(loc.file_vec.items) + 1 ELSE loc.i + 1
push_next_stuck(f) == IF f.name \in TooLong THEN loc.i ELSE loc.i + 1

\* The index after file f: fw_push_dir_paths goes on to the next file whether
\* f is regular, its path too long or its path pushed.
push_next(f) == loc.i + 1

\* One iteration of fw_push_dir_paths.
push_dir_path ==
    LET f == loc.file_vec.items[loc.i] IN
    /\ pc = "push" /\ loc.i <= Len(loc.file_vec.items)
    /\ \/ /\ f.type = "REG" \/ f.name \in TooLong
          /\ Succeeds
          /\ loc' = [loc EXCEPT !.i = push_next(f)]
          /\ UNCHANGED <<state, pc, ret, live>>
       \/ /\ f.type = "DIR" /\ f.name \notin TooLong
          /\ Succeeds
          /\ state' = [state EXCEPT !.path_vec = vector_push(@, f.name)]
          /\ loc' = [loc EXCEPT !.i = push_next(f)]
          /\ live' = live + 1
          /\ UNCHANGED <<pc, ret>>
       \/ /\ f.type = "DIR" /\ f.name \notin TooLong
          /\ Fails
          /\ cleanup_with("SYS")
          /\ \/ UNCHANGED live
             \/ vector_full(state.path_vec) /\ live' = (live + 1) - free_unpushed
          /\ UNCHANGED <<state, loc>>
    /\ UNCHANGED <<record, lost, wild>>

\* fw_dir_init: the files and the path move from the locals into dir.
step_dir_init ==
    LET files == loc.file_vec.items IN
    /\ pc = "push" /\ loc.i > Len(files)
    /\ \/ /\ Succeeds
          /\ loc' = [loc EXCEPT !.file_vec = ZeroVector, !.dir_path = NULL,
                                !.dir = [path |-> loc.dir_path, files |-> files]]
          /\ live' = IF files = <<>> THEN live - file_vector_blocks(loc.file_vec) ELSE live
          /\ pc' = "record"
          /\ UNCHANGED ret
       \/ /\ files # <<>> /\ Fails
          /\ cleanup_with("SYS")
          /\ UNCHANGED <<loc, live>>
    /\ UNCHANGED <<state, record, lost, wild>>

\* The directory is recorded and the step answers whether paths are left.
step_record ==
    /\ pc = "record"
    /\ \/ /\ Succeeds
          /\ state' = [state EXCEPT !.dir_vec = vector_push(@, loc.dir)]
          /\ loc' = Locals
          /\ live' = live - 1
          /\ ret' = Answer(IF state.path_vec.items # <<>> THEN 1 ELSE 0, "OK")
          /\ pc' = "idle"
       \/ /\ vector_full(state.dir_vec) /\ Fails
          /\ cleanup_with("SYS")
          /\ UNCHANGED <<state, loc, live>>
    /\ UNCHANGED <<record, lost, wild>>

REMAP_ERR(err) ==
    IF err = "ACCESS" THEN "FW_SKIP" ELSE IF err = "INVAL_PATH" THEN "FW_FAIL" ELSE err

\* Mutant: a failed step answers as a successful one does.
cleanup_result_left == IF state.path_vec.items # <<>> THEN 1 ELSE 0

cleanup_result == IF state.path_vec.items = <<>> THEN 1 ELSE 0

\* Mutant: the stream is not closed.
cleanup_blocks_no_close ==
    file_vector_blocks(loc.file_vec) + PathBlocks(loc.dir_path) + DirBlocks(loc.dir)

\* What cleanup gives back: the stream, the files, the path and the directory.
cleanup_blocks ==
    (IF loc.sys_dir THEN 1 ELSE 0)
    + file_vector_blocks(loc.file_vec) + PathBlocks(loc.dir_path) + DirBlocks(loc.dir)

Popped ==
    {p \in {loc.dir_path} : p # NULL}
    \cup {d.path : d \in {e \in {loc.dir} : e # NULL}}

step_cleanup ==
    /\ pc = "cleanup"
    /\ ret' = Answer(cleanup_result, REMAP_ERR(ret.err))
    /\ \/ /\ loc.file_vec.array = "garbage"
          /\ WildFree("jfs_fw_state_step")
       \/ /\ live' = live - cleanup_blocks
          /\ lost' = lost \cup Popped
          /\ loc' = Locals /\ pc' = "idle"
          /\ UNCHANGED <<state, record, wild>>
    /\ UNCHANGED failures

-----------------------------------------------------------------------------
(* The end of a walk *)

jfs_fw_state_destroy ==
    /\ pc = "idle" /\ state # NULL
    /\ live' = live - path_vector_blocks(state.path_vec) - dir_vector_blocks(state.dir_vec) - 1
    /\ state' = NULL
    /\ ret' = Answer(0, "OK")
    /\ UNCHANGED <<record, loc, pc, lost, wild, failures>>

\* Mutant: the vector keeps the array it has handed out.
vector_to_array_kept(v) == v

\* What fw_dir_vector_to_array leaves of the vector.
vector_to_array(v) == ZeroVector

\* A walk that still has paths, or has recorded nothing, makes no record and
\* stays with the client.
record_init_refused ==
    /\ pc = "idle" /\ state # NULL /\ record = NULL
    /\ \/ /\ state.path_vec.items # <<>>
          /\ ret' = Answer(0, "FW_STATE")
          /\ Succeeds
       \/ /\ state.path_vec.items = <<>> /\ state.dir_vec.items = <<>>
          /\ ret' = Answer(0, "EMPTY")
          /\ Succeeds
       \/ /\ state.path_vec.items = <<>> /\ state.dir_vec.items # <<>>
          /\ ret' = Answer(0, "SYS")
          /\ Fails
    /\ UNCHANGED <<state, record, loc, pc, live, lost, wild>>

\* The directories move into the record and the rest of the state is destroyed.
jfs_fw_record_init ==
    /\ pc = "idle" /\ state # NULL /\ record = NULL
    /\ state.path_vec.items = <<>> /\ state.dir_vec.items # <<>>
    /\ record' = state.dir_vec.items
    /\ live' = live - path_vector_blocks(state.path_vec)
                    - dir_vector_blocks(vector_to_array(state.dir_vec)) - 1
    /\ state' = NULL
    /\ ret' = Answer(0, "OK")
    /\ UNCHANGED <<loc, pc, lost, wild, failures>>

jfs_fw_record_free ==
    /\ pc = "idle" /\ record # NULL
    /\ live' = live - DirsBlocks(record) - 1
    /\ record' = NULL
    /\ UNCHANGED <<state, loc, pc, ret, lost, wild, failures>>

Step ==
    \/ step_begin \/ step_opendir \/ (\E n \in Names : scan_dirent(n)) \/ scan_end
    \/ push_dir_path \/ step_dir_init \/ step_record \/ step_cleanup

Next ==
    \/ jfs_fw_state_create \/ (\E k \in 1 .. 4 : state_create_fails(k))
    \/ step_empty \/ Step
    \/ jfs_fw_state_destroy \/ record_init_refused \/ jfs_fw_record_init \/ jfs_fw_record_free

\* A step that has begun goes on, and the client keeps stepping while paths are
\* left; nothing is assumed about its other calls.
Spec == Init /\ [][Next]_vars /\ WF_vars(Step)

-----------------------------------------------------------------------------
(* Properties *)

\* No vector holds more than it has room for, or anything without an array.
HasRoom(v) == Len(v.items) <= v.cap /\ (v.array # "block" => v.cap = 0)

Local ==
    [file_vec : Vector(File), dir_path : Names \cup {NULL}, dir : Dir \cup {NULL},
     sys_dir : BOOLEAN, todo : SUBSET Names, i : Nat]

Codes == {"OK", "SYS", "ACCESS", "INVAL_PATH", "FW_SKIP", "FW_FAIL", "FW_UNKNOWN",
          "FW_STATE", "EMPTY"}

\* Every variable stays within its type: in particular no vector holds more than
\* it has room for, so no push of file_walk.c writes behind its array.
TypeOK ==
    /\ state \in State \cup {NULL} /\ record \in Seq(Dir) \cup {NULL}
    /\ state # NULL => HasRoom(state.path_vec) /\ HasRoom(state.dir_vec)
    /\ loc \in Local /\ HasRoom(loc.file_vec)
    /\ loc.i \in 1 .. Len(loc.file_vec.items) + 1 \/ pc \in {"record", "cleanup"}
    /\ pc \in {"idle", "open", "scan", "push", "record", "cleanup", "crashed"}
    /\ ret \in [result : {0, 1}, err : Codes]
    /\ live \in Nat
    /\ lost \subseteq Names
    /\ wild \subseteq {"jfs_fw_state_create", "jfs_fw_state_step"}
    /\ failures \in 0 .. MaxFailures

LocalBlocks ==
    Cardinality({s \in {loc.sys_dir} : s}) + file_vector_blocks(loc.file_vec)
    + PathBlocks(loc.dir_path) + DirBlocks(loc.dir)

Owned ==
    (IF state = NULL THEN 0
     ELSE 1 + path_vector_blocks(state.path_vec) + dir_vector_blocks(state.dir_vec))
    + (IF record = NULL THEN 0 ELSE 1 + DirsBlocks(record))
    + LocalBlocks

\* At every moment what exists on the heap is owned by exactly one structure:
\* whatever fails inside a step, a create or a record_init, no path, name, array
\* or stream is leaked and none is freed twice.  Only the cleanup of
\* jfs_fw_state_create frees vectors that nobody has initialised; a step never
\* does, wherever it fails.
EveryBlockOwned ==
    /\ pc # "crashed" => live = Owned
    /\ wild \subseteq {"jfs_fw_state_create"}

Pending  == IF state = NULL THEN <<>> ELSE state.path_vec.items
Recorded ==
    IF record # NULL THEN record ELSE IF state # NULL THEN state.dir_vec.items ELSE <<>>
RecordedPaths == [j \in DOMAIN Recorded |-> Recorded[j].path]

\* Where the walk keeps its directories.
Places == <<ToSet(RecordedPaths), ToSet(Pending), Popped, lost>>
Seen   == ToSet(RecordedPaths) \cup ToSet(Pending) \cup Popped

\* No directory is recorded, pending or being scanned twice, and none whose step
\* failed comes back, although symbolic links lead back to directories above.
NothingTwice ==
    /\ IsInjective(RecordedPaths) /\ IsInjective(Pending)
    /\ \A a, b \in 1 .. 4 : a # b => Places[a] \cap Places[b] = {}

Supported(d) == {n \in Contents[d] : Kind[n] \in {"REG", "DIR"}}

\* A recorded directory lists its files and directories, each once, and all its
\* directories whose path fits are recorded, pending, in hand, or were lost to a
\* failed step of their own.
RecordIsClosed ==
    state # NULL \/ record # NULL =>
        /\ Start \in Seen \cup lost
        /\ \A d \in ToSet(Recorded) :
            /\ {f.name : f \in ToSet(d.files)} = Supported(d.path)
            /\ Len(d.files) = Cardinality(Supported(d.path))
            /\ \A f \in ToSet(d.files) :
                f.type = "DIR" /\ f.name \notin TooLong => f.name \in Seen \cup lost

\* How a client has to read the answer of a step: 1 means more after a success
\* and that nothing is left after an error.
SaysMore == (ret.err = "OK") = (ret.result = 1)

\* Read like this, the answer tells whether paths are left, on every way out of
\* jfs_fw_state_step but the first: a step that finds nothing to do answers like
\* one that has more to do (step_empty).
StepTellsWhatIsLeft ==
    [][pc # "idle" /\ pc' = "idle" => SaysMore' = (Pending' # <<>>)]_vars

\* A client that keeps stepping gets to the end of the walk, whatever fails and
\* wherever links lead.
WalkEnds == state # NULL ~> (state = NULL \/ (pc = "idle" /\ Pending = <<>>))

=============================================================================
