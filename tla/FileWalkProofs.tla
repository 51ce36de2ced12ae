--------------------------- MODULE FileWalkProofs ---------------------------
(***************************************************************************)
(* For every file system, every capacity the vectors start with and any    *)
(* number of failing calls: the walk of file_walk.c owns each block it has *)
(* exactly once, never meets a directory twice, and loses none without a   *)
(* step that says so.                                                      *)
(*                                                                         *)
(* IndInv is about memory: what every point of jfs_fw_state_step holds,    *)
(* and that the blocks that exist are those the structures own.  WalkInv   *)
(* is about the tree walked: where each directory is, and from which it    *)
(* was found.                                                              *)
(***************************************************************************)
EXTENDS FileWalk, FiniteSetTheorems, TLAPS

\* A vector that fw_*_vector_init has made is empty and has room.
LEMMA InitVector ==
    ASSUME NEW T
    PROVE  /\ vector_init \in Vector(T) /\ HasRoom(vector_init)
           /\ vector_init.array = "block" /\ vector_init.cap # 0
           /\ vector_init.items = <<>> /\ Len(vector_init.items) = 0
BY BoundsAssumption DEF vector_init, Vector, HasRoom

\* A zeroed vector is one without an array.
LEMMA ZeroIsVector ==
    ASSUME NEW T
    PROVE  /\ ZeroVector \in Vector(T) /\ HasRoom(ZeroVector)
           /\ ZeroVector.array = "null"
           /\ ZeroVector.items = <<>> /\ Len(ZeroVector.items) = 0
BY DEF ZeroVector, Vector, HasRoom

\* A push keeps within the array, which it has made larger where it was full.
LEMMA PushVector ==
    ASSUME NEW T, NEW v \in Vector(T), HasRoom(v), v.array = "block", v.cap # 0, NEW e \in T
    PROVE  /\ vector_push(v, e) \in Vector(T) /\ HasRoom(vector_push(v, e))
           /\ vector_push(v, e).array = "block" /\ vector_push(v, e).cap # 0
           /\ vector_push(v, e).items = Append(v.items, e)
           /\ Len(vector_push(v, e).items) = Len(v.items) + 1
<1>1. Append(v.items, e) \in Seq(T) /\ Len(Append(v.items, e)) = Len(v.items) + 1
  BY DEF Vector
<1>2. v.cap \in Nat /\ Len(v.items) \in Nat /\ Len(v.items) <= v.cap
  BY DEF Vector, HasRoom
<1> DEFINE c == IF vector_full(v) THEN 2 * v.cap ELSE v.cap
<1>3. c \in Nat /\ c # 0 /\ Len(v.items) + 1 <= c
  BY <1>2 DEF vector_full
<1>4. vector_push(v, e) = [array |-> "block", cap |-> c, items |-> Append(v.items, e)]
  <2>1. vector_push(v, e) = [v EXCEPT !.cap = c, !.items = Append(v.items, e)]
    BY Zenon DEF vector_push
  <2> HIDE DEF c
  <2>2. QED
    BY <2>1 DEF Vector
<1> HIDE DEF c
<1>5. QED
  BY <1>1, <1>3, <1>4 DEF Vector, HasRoom

\* A pop takes the last item and keeps the array.
LEMMA PopVector ==
    ASSUME NEW T, NEW v \in Vector(T), HasRoom(v), v.array = "block", v.cap # 0,
           v.items # <<>>
    PROVE  /\ vector_pop(v) \in Vector(T) /\ HasRoom(vector_pop(v))
           /\ vector_pop(v).array = "block" /\ vector_pop(v).cap # 0
           /\ Len(vector_pop(v).items) = Len(v.items) - 1
           /\ Last(v.items) \in T
<1>1. v.items \in Seq(T) /\ Len(v.items) \in Nat \ {0} /\ v.cap \in Nat
  BY DEF Vector
<1>2. /\ Front(v.items) \in Seq(T) /\ Len(Front(v.items)) = Len(v.items) - 1
      /\ Last(v.items) \in T
  BY <1>1 DEF Front, Last
<1>3. vector_pop(v) = [array |-> "block", cap |-> v.cap, items |-> Front(v.items)]
  BY DEF vector_pop, Vector
<1>4. QED
  BY <1>1, <1>2, <1>3 DEF Vector, HasRoom

Cells(dirs) == UNION {{j} \X (1 .. DirBlocks(dirs[j])) : j \in DOMAIN dirs}

\* The blocks of a directory: its path, and the array and the names of its files.
LEMMA DirHasBlocks ==
    ASSUME NEW d \in Dir
    PROVE  /\ DirBlocks(d) \in Nat
           /\ DirBlocks(d) = 1 + FilesBlocks(d.files)
           /\ FilesBlocks(d.files) = IF d.files = <<>> THEN 0 ELSE 1 + Len(d.files)
<1>1. d # NULL /\ d.path # NULL
  <2>1. d.path \in Names
    BY DEF Dir
  <2>2. QED
    BY <2>1, NullAssumption
<1>2. d.files \in Seq(File)
  BY DEF Dir
<1>3. QED
  BY <1>1, <1>2 DEF DirBlocks, PathBlocks, FilesBlocks

\* Blocks are counted as the cells of a finite set, which makes their number additive.
LEMMA CellsFinite ==
    ASSUME NEW dirs \in Seq(Dir)
    PROVE  IsFiniteSet(Cells(dirs))
<1> DEFINE f == [j \in DOMAIN dirs |-> {j} \X (1 .. DirBlocks(dirs[j]))]
           Rows == {{j} \X (1 .. DirBlocks(dirs[j])) : j \in DOMAIN dirs}
<1>1. IsFiniteSet(DOMAIN dirs)
  BY FS_Interval
<1>2. f \in Surjection(DOMAIN dirs, Rows)
  BY DEF Surjection
<1>3. IsFiniteSet(Rows)
  <2> HIDE DEF f, Rows
  <2> QED BY <1>1, <1>2, FS_Surjection
<1>4. \A R \in Rows : IsFiniteSet(R)
  <2> SUFFICES ASSUME NEW j \in DOMAIN dirs
               PROVE  IsFiniteSet({j} \X (1 .. DirBlocks(dirs[j])))
    OBVIOUS
  <2>1. dirs[j] \in Dir
    OBVIOUS
  <2>2. IsFiniteSet(1 .. DirBlocks(dirs[j]))
    BY <2>1, DirHasBlocks, FS_Interval
  <2>3. QED
    BY <2>2, FS_Singleton, FS_Product
<1>5. QED
  BY <1>3, <1>4, FS_UNION DEF Cells

\* A directory that is pushed brings its own blocks and no others.
LEMMA DirsBlocksAppend ==
    ASSUME NEW dirs \in Seq(Dir), NEW d \in Dir
    PROVE  DirsBlocks(Append(dirs, d)) = DirsBlocks(dirs) + DirBlocks(d)
<1> DEFINE k == Len(dirs) + 1
           row == {k} \X (1 .. DirBlocks(d))
<1>1. DirBlocks(d) \in Nat
  BY DirHasBlocks
<1>2. Cells(Append(dirs, d)) = Cells(dirs) \cup row
  <2>1. DOMAIN Append(dirs, d) = DOMAIN dirs \cup {k}
    OBVIOUS
  <2>2. /\ \A j \in DOMAIN dirs : Append(dirs, d)[j] = dirs[j]
        /\ Append(dirs, d)[k] = d
    OBVIOUS
  <2> DEFINE s == Append(dirs, d)
  <2> HIDE DEF k, s
  <2>3. QED
    BY <2>1, <2>2 DEF Cells, s
<1>3. Cells(dirs) \cap row = {}
  <2> SUFFICES ASSUME NEW j \in DOMAIN dirs
               PROVE  j # k
    BY DEF Cells
  <2> QED OBVIOUS
<1>4. IsFiniteSet(row) /\ Cardinality(row) = DirBlocks(d)
  <2>1. IsFiniteSet(1 .. DirBlocks(d)) /\ Cardinality(1 .. DirBlocks(d)) = DirBlocks(d)
    BY <1>1, FS_Interval
  <2>2. IsFiniteSet({k}) /\ Cardinality({k}) = 1
    BY FS_Singleton
  <2> HIDE DEF k
  <2>3. Cardinality(row) = 1 * DirBlocks(d) /\ IsFiniteSet(row)
    BY <2>1, <2>2, FS_Product
  <2>4. QED
    BY <2>3, <1>1
<1>5. IsFiniteSet(Cells(dirs)) /\ Cardinality(Cells(dirs)) \in Nat
  BY CellsFinite, FS_CardinalityType
<1> HIDE DEF row
<1>6. Cardinality(Cells(dirs) \cup row) = Cardinality(Cells(dirs)) + Cardinality(row) - Cardinality({})
  BY <1>3, <1>4, <1>5, FS_Union
<1>7. /\ DirsBlocks(dirs) = Cardinality(Cells(dirs))
      /\ DirsBlocks(Append(dirs, d)) = Cardinality(Cells(Append(dirs, d)))
  BY DEF DirsBlocks, Cells
<1>8. Cardinality({}) = 0
  BY FS_EmptySet
<1>9. QED
  BY <1>1, <1>2, <1>4, <1>5, <1>6, <1>7, <1>8

\* The blocks of finitely many directories can be counted.
LEMMA DirsBlocksNat ==
    ASSUME NEW dirs \in Seq(Dir)
    PROVE  DirsBlocks(dirs) \in Nat
BY CellsFinite, FS_CardinalityType DEF DirsBlocks, Cells

\* No directories, no blocks.
LEMMA DirsBlocksEmpty == DirsBlocks(<<>>) = 0
<1>1. Cells(<<>>) = {}
  BY DEF Cells
<1>2. QED
  BY <1>1, FS_EmptySet DEF DirsBlocks, Cells

-----------------------------------------------------------------------------
(* The inductive invariant *)

StateBlocks(s) ==
    IF s = NULL THEN 0 ELSE 1 + path_vector_blocks(s.path_vec) + dir_vector_blocks(s.dir_vec)
RecordBlocks(r) == IF r = NULL THEN 0 ELSE 1 + DirsBlocks(r)
StreamBlocks(open) == IF open THEN 1 ELSE 0
LocBlocks(l) ==
    StreamBlocks(l.sys_dir)
    + file_vector_blocks(l.file_vec) + PathBlocks(l.dir_path) + DirBlocks(l.dir)

\* A vector that may be pushed to.
Usable(v) == HasRoom(v) /\ v.array = "block" /\ v.cap # 0

\* What each point of a step knows of the locals, and that a failed step has an error.
StepShape ==
    /\ state # NULL => Usable(state.path_vec) /\ Usable(state.dir_vec)
    /\ pc \notin {"idle", "crashed"} => state # NULL
    /\ pc \in {"idle", "crashed"} => loc = Locals
    /\ pc \in {"open", "scan", "push"} =>
        Usable(loc.file_vec) /\ loc.dir_path # NULL /\ loc.dir = NULL
    /\ pc = "open" => loc.sys_dir = FALSE
    /\ pc \in {"scan", "push", "record"} => loc.sys_dir = TRUE
    /\ pc = "record" => loc.file_vec = ZeroVector /\ loc.dir_path = NULL /\ loc.dir # NULL
    /\ loc.file_vec.array # "garbage"
    /\ pc = "cleanup" => ret.err # "OK"
    /\ wild \subseteq {"jfs_fw_state_create"}

Accounted ==
    pc # "crashed" => live = StateBlocks(state) + RecordBlocks(record) + LocBlocks(loc)

IndInv == TypeOK /\ StepShape /\ Accounted

\* The blocks of a state, as a sum over its two vectors.
LEMMA StateFacts ==
    ASSUME NEW s \in State
    PROVE  /\ s # NULL
           /\ StateBlocks(s) = 1 + ArrayBlocks(s.path_vec) + Len(s.path_vec.items)
                                + ArrayBlocks(s.dir_vec) + DirsBlocks(s.dir_vec.items)
           /\ Len(s.path_vec.items) \in Nat /\ DirsBlocks(s.dir_vec.items) \in Nat
           /\ StateBlocks(s) \in Nat
<1>1. s # NULL
  BY NullAssumption
<1>2. s.path_vec \in Vector(Names) /\ s.dir_vec \in Vector(Dir)
  BY DEF State
<1>3. /\ Len(s.path_vec.items) \in Nat /\ DirsBlocks(s.dir_vec.items) \in Nat
      /\ ArrayBlocks(s.path_vec) \in Nat /\ ArrayBlocks(s.dir_vec) \in Nat
  BY <1>2, DirsBlocksNat DEF ArrayBlocks, Vector
<1>4. QED
  BY <1>1, <1>3 DEF StateBlocks, path_vector_blocks, dir_vector_blocks

\* The two fields of a state.
LEMMA StateParts ==
    ASSUME NEW s \in State
    PROVE  /\ s.path_vec \in Vector(Names) /\ s.dir_vec \in Vector(Dir)
           /\ s = [path_vec |-> s.path_vec, dir_vec |-> s.dir_vec]
BY DEF State

\* The fields of the locals of a step.
LEMMA LocalParts ==
    ASSUME NEW l \in Local
    PROVE  /\ l.file_vec \in Vector(File) /\ l.dir_path \in Names \cup {NULL}
           /\ l.dir \in Dir \cup {NULL} /\ l.sys_dir \in BOOLEAN
           /\ l.todo \subseteq Names /\ l.i \in Nat
           /\ l.file_vec.items \in Seq(File) /\ Len(l.file_vec.items) \in Nat
BY DEF Local, Vector

\* A stream counts as one block while it is open.
LEMMA StreamFacts ==
    StreamBlocks(FALSE) = 0 /\ StreamBlocks(TRUE) = 1 /\ \A b : StreamBlocks(b) \in {0, 1}
BY Zenon DEF StreamBlocks

\* What the locals own is a sum of natural numbers.
LEMMA LocalBlocksNat ==
    ASSUME NEW l \in Local
    PROVE  /\ LocBlocks(l) \in Nat /\ StreamBlocks(l.sys_dir) \in Nat
           /\ file_vector_blocks(l.file_vec) \in Nat
           /\ PathBlocks(l.dir_path) \in Nat /\ DirBlocks(l.dir) \in Nat
<1>1. ArrayBlocks(l.file_vec) \in Nat /\ PathBlocks(l.dir_path) \in Nat
  BY DEF ArrayBlocks, PathBlocks
<1>2. DirBlocks(l.dir) \in Nat
  <2>1. CASE l.dir = NULL
    BY <2>1 DEF DirBlocks
  <2>2. CASE l.dir \in Dir
    BY <2>2, DirHasBlocks
  <2>3. QED
    BY <2>1, <2>2, LocalParts
<1>3. StreamBlocks(l.sys_dir) \in Nat
  BY StreamFacts
<1>4. QED
  BY <1>1, <1>2, <1>3, LocalParts DEF LocBlocks, file_vector_blocks

\* Between steps the locals own nothing.
LEMMA LocalsFacts ==
    /\ Locals \in Local /\ Locals.file_vec = ZeroVector /\ Locals.dir_path = NULL
    /\ Locals.dir = NULL /\ Locals.sys_dir = FALSE /\ Locals.i = 1 /\ LocBlocks(Locals) = 0
<1>1. /\ Locals \in Local /\ Locals.file_vec = ZeroVector /\ Locals.dir_path = NULL
      /\ Locals.dir = NULL /\ Locals.sys_dir = FALSE /\ Locals.i = 1
  BY ZeroIsVector DEF Locals, Local
<1>2. StreamBlocks(Locals.sys_dir) = 0
  BY <1>1, StreamFacts
<1>3. file_vector_blocks(ZeroVector) = 0
  BY DEF ZeroVector, file_vector_blocks, ArrayBlocks
<1>4. QED
  BY <1>1, <1>2, <1>3 DEF LocBlocks, PathBlocks, DirBlocks

\* A record owns a natural number of blocks.
LEMMA RecordNat ==
    ASSUME NEW r \in Seq(Dir) \cup {NULL}
    PROVE  RecordBlocks(r) \in Nat
BY DirsBlocksNat DEF RecordBlocks

\* At first there is nothing, and nothing is owned.
LEMMA InitInv == Init => IndInv
<1> SUFFICES ASSUME Init PROVE IndInv
  OBVIOUS
<1>1. TypeOK
  BY LocalsFacts, ZeroIsVector, BoundsAssumption DEF Init, TypeOK, Answer, Codes
<1>2. StepShape
  BY LocalsFacts, ZeroIsVector DEF Init, StepShape, Answer
<1>3. Accounted
  BY LocalsFacts DEF Init, Accounted, StateBlocks, RecordBlocks
<1>4. QED
  BY <1>1, <1>2, <1>3 DEF IndInv

\* The ways a step fails: nothing but the program counter and the answer changes.
LEMMA StepFails ==
    ASSUME IndInv, Fails \/ Succeeds, pc \in {"open", "scan", "push", "record"},
           UNCHANGED <<state, record, loc, live, lost, wild>>,
           NEW e \in Codes \ {"OK"}, cleanup_with(e)
    PROVE  IndInv'
<1>1. TypeOK'
  BY BoundsAssumption DEF IndInv, TypeOK, Fails, Succeeds, cleanup_with, Answer, Codes
<1>2. StepShape'
  BY DEF IndInv, StepShape, cleanup_with, Answer
<1>3. Accounted'
  BY DEF IndInv, Accounted, cleanup_with
<1>4. QED
  BY <1>1, <1>2, <1>3 DEF IndInv

\* Between calls nothing changes by itself.
LEMMA StutterStep == ASSUME IndInv, UNCHANGED vars PROVE IndInv'
<1>1. TypeOK'
  BY DEF IndInv, TypeOK, vars
<1>2. StepShape'
  BY DEF IndInv, StepShape, vars
<1>3. Accounted'
  BY DEF IndInv, Accounted, vars
<1>4. QED
  BY <1>1, <1>2, <1>3 DEF IndInv

\* Calls that change the answer only.
LEMMA AnswerStep ==
    ASSUME IndInv, Fails \/ Succeeds, pc = "idle",
           UNCHANGED <<state, record, loc, pc, live, lost, wild>>,
           NEW r \in {0, 1}, NEW e \in Codes, ret' = Answer(r, e)
    PROVE  IndInv'
<1>1. TypeOK'
  BY BoundsAssumption DEF IndInv, TypeOK, Fails, Succeeds, Answer, Codes
<1>2. StepShape'
  BY DEF IndInv, StepShape, Answer
<1>3. Accounted'
  BY DEF IndInv, Accounted
<1>4. QED
  BY <1>1, <1>2, <1>3 DEF IndInv

\* jfs_fw_state_create makes a state, two arrays and the first path: all four are owned.
LEMMA CreateStep == ASSUME IndInv, jfs_fw_state_create PROVE IndInv'
<1> DEFINE p == vector_push(vector_init, Start)
<1>0. Start \in Names
  BY FileSystemAssumption
<1>1. /\ p \in Vector(Names) /\ Usable(p) /\ p.items = Append(<<>>, Start) /\ Len(p.items) = 1
      /\ vector_init \in Vector(Dir) /\ Usable(vector_init) /\ vector_init.items = <<>>
  <2>1. vector_init \in Vector(Names) /\ Usable(vector_init) /\ vector_init.items = <<>>
    BY InitVector DEF Usable
  <2>2. Len(vector_init.items) = 0
    BY <2>1
  <2>2a. p \in Vector(Names) /\ Usable(p) /\ p.items = Append(<<>>, Start) /\ Len(p.items) = 1
    <3> HIDE DEF p
    <3>1. /\ p \in Vector(Names) /\ HasRoom(p)
           /\ p.array = "block" /\ p.cap # 0
           /\ p.items = Append(vector_init.items, Start)
           /\ Len(p.items) = Len(vector_init.items) + 1
      BY <1>0, <2>1, PushVector DEF p, Usable
    <3>2. QED
      BY <2>1, <2>2, <3>1 DEF Usable
  <2>3. QED
    BY <2>1, <2>2a, InitVector
<1>2. state' = [path_vec |-> p, dir_vec |-> vector_init]
  BY DEF jfs_fw_state_create
<1> HIDE DEF p
<1>3. /\ state' \in State /\ state' # NULL /\ state'.path_vec = p /\ state'.dir_vec = vector_init
      /\ StateBlocks(state') = 4
  <2>1. ArrayBlocks(p) = 1 /\ ArrayBlocks(vector_init) = 1
    BY <1>1 DEF ArrayBlocks, Usable
  <2>2. DirsBlocks(vector_init.items) = 0
    BY <1>1, DirsBlocksEmpty
  <2>3. state' \in State /\ state'.path_vec = p /\ state'.dir_vec = vector_init
    BY <1>1, <1>2 DEF State
  <2>4. /\ state' # NULL
        /\ StateBlocks(state') = 1 + ArrayBlocks(p) + Len(p.items) + ArrayBlocks(vector_init)
                                   + DirsBlocks(vector_init.items)
    BY <2>3, StateFacts, Zenon
  <2>5. QED
    BY <1>1, <2>1, <2>2, <2>3, <2>4
<1>4. live' = 4
  BY LocalsFacts
     DEF jfs_fw_state_create, IndInv, Accounted, StateBlocks, RecordBlocks, StepShape
<1>5. TypeOK'
  BY <1>1, <1>3, <1>4 DEF jfs_fw_state_create, IndInv, TypeOK, Succeeds, Answer, Codes, Usable
<1>6. StepShape'
  BY <1>1, <1>3 DEF jfs_fw_state_create, IndInv, StepShape, Answer
<1>7. Accounted'
  BY <1>3, <1>4, LocalsFacts DEF jfs_fw_state_create, IndInv, Accounted, StepShape, RecordBlocks
<1>8. QED
  BY <1>5, <1>6, <1>7 DEF IndInv

\* Where it fails it frees what it had, and the arrays nobody has initialised.
LEMMA CreateFailsStep ==
    ASSUME IndInv, NEW k \in 1 .. 4, state_create_fails(k)
    PROVE  IndInv'
<1>0. live \in Nat
  BY DEF IndInv, TypeOK
<1>1. /\ DirsBlocks(RawVector.items) = 0 /\ DirsBlocks(vector_init.items) = 0
      /\ Len(RawVector.items) = 0 /\ Len(vector_init.items) = 0
      /\ ArrayBlocks(RawVector) = 0 /\ ArrayBlocks(vector_init) = 1
  BY DirsBlocksEmpty DEF RawVector, vector_init, ArrayBlocks
<1>2. CASE UNCHANGED <<state, record, loc, pc, lost, wild>>
  <2>1. \/ UNCHANGED live
        \/ pc' = "crashed"
    BY <1>0, <1>1 DEF state_create_fails, dir_vector_blocks, path_vector_blocks, dir_vec_after,
                 path_vec_after, WildFree
  <2>2. UNCHANGED live /\ pc = "idle" /\ ret' = Answer(0, "SYS") /\ (Fails \/ Succeeds)
    BY <1>2, <2>1 DEF state_create_fails
  <2>3. QED
    BY <1>2, <2>2, AnswerStep DEF Codes
<1>3. CASE WildFree("jfs_fw_state_create")
  <2>1. TypeOK'
    BY <1>3, LocalsFacts, ZeroIsVector, BoundsAssumption
       DEF state_create_fails, WildFree, IndInv, TypeOK, Fails, Answer, Codes
  <2>2. StepShape'
    BY <1>3, LocalsFacts, ZeroIsVector
       DEF state_create_fails, WildFree, IndInv, StepShape, Answer
  <2>3. Accounted'
    BY <1>3 DEF WildFree, Accounted
  <2>4. QED
    BY <2>1, <2>2, <2>3 DEF IndInv
<1>4. QED
  BY <1>2, <1>3 DEF state_create_fails

\* A change of the pending paths changes the blocks of a state by their number only.
LEMMA PathVecChange ==
    ASSUME NEW s \in State, Usable(s.path_vec), NEW v \in Vector(Names), Usable(v),
           NEW t, t = [s EXCEPT !.path_vec = v]
    PROVE  /\ t \in State /\ t # NULL /\ t.path_vec = v /\ t.dir_vec = s.dir_vec
           /\ StateBlocks(t) = (StateBlocks(s) + Len(v.items)) - Len(s.path_vec.items)
<1>1. t \in State /\ t.path_vec = v /\ t.dir_vec = s.dir_vec
  BY DEF State
<1>2. ArrayBlocks(v) = 1 /\ ArrayBlocks(s.path_vec) = 1 /\ ArrayBlocks(s.dir_vec) \in Nat
  BY DEF Usable, ArrayBlocks
<1>3. /\ t # NULL
      /\ StateBlocks(t) = 1 + ArrayBlocks(v) + Len(v.items)
                             + ArrayBlocks(s.dir_vec) + DirsBlocks(s.dir_vec.items)
  BY <1>1, StateFacts, Zenon
<1>4. Len(v.items) \in Nat
  BY DEF Vector
<1>5. /\ StateBlocks(s) = 1 + ArrayBlocks(s.path_vec) + Len(s.path_vec.items)
                          + ArrayBlocks(s.dir_vec) + DirsBlocks(s.dir_vec.items)
      /\ Len(s.path_vec.items) \in Nat /\ DirsBlocks(s.dir_vec.items) \in Nat
  BY StateFacts, Zenon
<1>6. StateBlocks(t) = (StateBlocks(s) + Len(v.items)) - Len(s.path_vec.items)
  <2> DEFINE a == ArrayBlocks(s.dir_vec)
             b == DirsBlocks(s.dir_vec.items)
             m == Len(v.items)
             k == Len(s.path_vec.items)
  <2>1. a \in Nat /\ b \in Nat /\ m \in Nat /\ k \in Nat
    BY <1>2, <1>4, <1>5
  <2>2. StateBlocks(t) = 2 + m + a + b /\ StateBlocks(s) = 2 + k + a + b
    BY <1>2, <1>3, <1>5
  <2> HIDE DEF a, b, m, k
  <2>3. QED
    BY <2>1, <2>2 DEF m, k
<1>7. QED
  BY <1>1, <1>3, <1>6

\* A recorded directory takes its blocks along into the state.
LEMMA DirVecChange ==
    ASSUME NEW s \in State, Usable(s.dir_vec), NEW d \in Dir,
           NEW t, t = [s EXCEPT !.dir_vec = vector_push(s.dir_vec, d)]
    PROVE  /\ t \in State /\ t # NULL /\ t.path_vec = s.path_vec
           /\ Usable(t.dir_vec) /\ t.dir_vec.items = Append(s.dir_vec.items, d)
           /\ StateBlocks(t) = StateBlocks(s) + DirBlocks(d)
<1> DEFINE v == vector_push(s.dir_vec, d)
<1>0. s.dir_vec \in Vector(Dir) /\ s.dir_vec.items \in Seq(Dir)
  BY DEF State, Vector
<1>1. v \in Vector(Dir) /\ Usable(v) /\ v.items = Append(s.dir_vec.items, d)
  BY <1>0, PushVector DEF Usable
<1> HIDE DEF v
<1>2. t \in State /\ t.path_vec = s.path_vec /\ t.dir_vec = v
  BY <1>1 DEF State, v
<1>3. ArrayBlocks(v) = 1 /\ ArrayBlocks(s.dir_vec) = 1 /\ ArrayBlocks(s.path_vec) \in Nat
  BY <1>1 DEF Usable, ArrayBlocks
<1>4. /\ t # NULL
      /\ StateBlocks(t) = 1 + ArrayBlocks(s.path_vec) + Len(s.path_vec.items)
                             + ArrayBlocks(v) + DirsBlocks(v.items)
  BY <1>2, StateFacts, Zenon
<1>5. DirsBlocks(v.items) = DirsBlocks(s.dir_vec.items) + DirBlocks(d) /\ DirBlocks(d) \in Nat
  BY <1>0, <1>1, DirsBlocksAppend, DirHasBlocks
<1>6. /\ StateBlocks(s) = 1 + ArrayBlocks(s.path_vec) + Len(s.path_vec.items)
                          + ArrayBlocks(s.dir_vec) + DirsBlocks(s.dir_vec.items)
      /\ Len(s.path_vec.items) \in Nat /\ DirsBlocks(s.dir_vec.items) \in Nat
  BY StateFacts, Zenon
<1>7. QED
  BY <1>1, <1>2, <1>3, <1>4, <1>5, <1>6

\* The blocks of the locals, one by one.
LEMMA LocSum ==
    ASSUME NEW l \in Local
    PROVE  /\ LocBlocks(l) = StreamBlocks(l.sys_dir) + ArrayBlocks(l.file_vec)
                             + Len(l.file_vec.items) + PathBlocks(l.dir_path) + DirBlocks(l.dir)
           /\ ArrayBlocks(l.file_vec) \in Nat /\ Len(l.file_vec.items) \in Nat
<1>1. ArrayBlocks(l.file_vec) \in Nat /\ Len(l.file_vec.items) \in Nat
  BY LocalParts DEF ArrayBlocks
<1>2. QED
  BY <1>1, LocalBlocksNat DEF LocBlocks, file_vector_blocks

\* Popping a path moves it from the state to the locals, and the array of names is new.
LEMMA BeginStep == ASSUME IndInv, step_begin PROVE IndInv'
<1>0. /\ pc = "idle" /\ state \in State /\ state # NULL /\ state.path_vec.items # <<>>
      /\ loc = Locals /\ Usable(state.path_vec) /\ Usable(state.dir_vec)
      /\ state.path_vec \in Vector(Names)
  BY StateParts DEF step_begin, IndInv, TypeOK, StepShape
<1>1. CASE Succeeds /\ pc' = "open"
  <2> DEFINE v == vector_pop(state.path_vec)
             d == Last(state.path_vec.items)
  <2>1. /\ v \in Vector(Names) /\ Usable(v) /\ Len(v.items) = Len(state.path_vec.items) - 1
        /\ d \in Names
    BY <1>0, PopVector DEF Usable
  <2>2. /\ state' = [state EXCEPT !.path_vec = v]
        /\ loc' = [Locals EXCEPT !.file_vec = vector_init, !.dir_path = d]
        /\ live' = live + 1 /\ ret' = Answer(0, "OK")
        /\ UNCHANGED <<record, lost, wild, failures>>
    BY <1>0, <1>1, Zenon DEF step_begin, cleanup_with, Succeeds
  <2> HIDE DEF v, d
  <2>3. /\ state' \in State /\ state' # NULL /\ state'.path_vec = v
        /\ state'.dir_vec = state.dir_vec
        /\ StateBlocks(state') = (StateBlocks(state) + Len(v.items)) - Len(state.path_vec.items)
    <3>1. state \in State /\ Usable(state.path_vec)
      BY <1>0
    <3>2. v \in Vector(Names) /\ Usable(v)
      BY <2>1
    <3>3. state' = [state EXCEPT !.path_vec = v]
      BY <2>2
    <3>4. QED
      BY <3>1, <3>2, <3>3, PathVecChange
  <2>4. /\ loc' \in Local /\ loc'.file_vec = vector_init /\ loc'.dir_path = d
        /\ loc'.dir = NULL /\ loc'.sys_dir = FALSE /\ loc'.i = 1
    BY <2>1, <2>2, LocalsFacts, InitVector DEF Local
  <2>5. d # NULL
    BY <2>1, NullAssumption
  <2>6. Usable(vector_init) /\ Len(vector_init.items) = 0
    BY InitVector DEF Usable
  <2>7. LocBlocks(loc') = 2
    <3>1. LocBlocks(loc') = 0 + ArrayBlocks(vector_init)
                             + Len(vector_init.items) + PathBlocks(d) + DirBlocks(NULL)
      BY <2>4, LocSum, StreamFacts, Zenon
    <3>2. ArrayBlocks(vector_init) = 1 /\ PathBlocks(d) = 1 /\ DirBlocks(NULL) = 0
      BY <2>5, <2>6 DEF Usable, ArrayBlocks, PathBlocks, DirBlocks
    <3>3. QED
      BY <3>1, <3>2, <2>6
  <2>8. live = StateBlocks(state) + RecordBlocks(record) /\ RecordBlocks(record) \in Nat
    <3>1. live = StateBlocks(state) + RecordBlocks(record) + LocBlocks(loc)
      BY <1>0 DEF IndInv, Accounted
    <3>2. RecordBlocks(record) \in Nat
      BY RecordNat DEF IndInv, TypeOK
    <3>3. QED
      BY <1>0, <3>1, <3>2, LocalsFacts, StateFacts
  <2>9. live' = StateBlocks(state') + RecordBlocks(record') + LocBlocks(loc')
    <3>1. StateBlocks(state) \in Nat /\ Len(state.path_vec.items) \in Nat
      BY <1>0, StateFacts, Zenon
    <3>2. QED
      BY <2>1, <2>2, <2>3, <2>7, <2>8, <3>1
  <2>10. TypeOK'
    BY <1>0, <1>1, <2>1, <2>2, <2>3, <2>4, <2>6 DEF IndInv, TypeOK, Answer, Codes, Usable
  <2>11. StepShape'
    BY <1>0, <1>1, <2>1, <2>2, <2>3, <2>4, <2>5, <2>6 DEF IndInv, StepShape, Answer, Usable
  <2>12. QED
    BY <2>9, <2>10, <2>11 DEF IndInv, Accounted
<1>2. CASE Fails /\ pc' = "cleanup"
  <2>1. UNCHANGED <<state, record, loc, live, lost, wild>> /\ ret' = Answer(0, "SYS")
    BY <1>0, <1>2 DEF step_begin, cleanup_with
  <2>2. TypeOK'
    BY <1>2, <2>1, BoundsAssumption DEF IndInv, TypeOK, Fails, Answer, Codes
  <2>3. StepShape'
    BY <1>0, <1>2, <2>1 DEF IndInv, StepShape, Answer
  <2>4. Accounted'
    BY <1>0, <1>2, <2>1 DEF IndInv, Accounted
  <2>5. QED
    BY <2>2, <2>3, <2>4 DEF IndInv
<1>3. QED
  BY <1>1, <1>2 DEF step_begin, cleanup_with

\* Outside a wild free, what exists is the sum of what the three owners have.
LEMMA Sums ==
    ASSUME IndInv, pc # "crashed"
    PROVE  /\ live = StateBlocks(state) + RecordBlocks(record) + LocBlocks(loc)
           /\ StateBlocks(state) \in Nat /\ RecordBlocks(record) \in Nat
           /\ LocBlocks(loc) \in Nat
<1>1. live = StateBlocks(state) + RecordBlocks(record) + LocBlocks(loc)
  BY DEF IndInv, Accounted
<1>2. state \in State \cup {NULL} /\ record \in Seq(Dir) \cup {NULL} /\ loc \in Local
  BY DEF IndInv, TypeOK
<1>3. StateBlocks(state) \in Nat
  <2>1. CASE state = NULL
    BY <2>1 DEF StateBlocks
  <2>2. CASE state \in State
    BY <2>2, StateFacts
  <2>3. QED
    BY <1>2, <2>1, <2>2
<1>4. QED
  BY <1>1, <1>2, <1>3, RecordNat, LocalBlocksNat

\* A step runs on a state whose vectors can be pushed to.
LEMMA Running ==
    ASSUME IndInv, pc \in {"open", "scan", "push", "record", "cleanup"}
    PROVE  /\ state \in State /\ state # NULL
           /\ Usable(state.path_vec) /\ Usable(state.dir_vec)
           /\ state.path_vec \in Vector(Names) /\ state.dir_vec \in Vector(Dir)
           /\ loc \in Local
<1>1. state \in State /\ state # NULL /\ Usable(state.path_vec) /\ Usable(state.dir_vec)
  BY DEF IndInv, TypeOK, StepShape
<1>2. QED
  BY <1>1, StateParts DEF IndInv, TypeOK

\* A step goes on with other locals and the same state.
LEMMA LocalStep ==
    ASSUME IndInv, StepShape', Succeeds,
           pc \in {"open", "scan", "push"}, pc' \in {"scan", "push", "record"},
           UNCHANGED <<state, record, ret, lost, wild>>,
           loc' \in Local, HasRoom(loc'.file_vec),
           loc'.i \in 1 .. Len(loc'.file_vec.items) + 1 \/ pc' = "record",
           (live' - live) = (LocBlocks(loc') - LocBlocks(loc)), live' \in Int
    PROVE  IndInv'
<1>1. LocBlocks(loc') \in Nat
  BY LocalBlocksNat
<1>2. /\ live = StateBlocks(state) + RecordBlocks(record) + LocBlocks(loc)
      /\ StateBlocks(state) \in Nat /\ RecordBlocks(record) \in Nat
      /\ LocBlocks(loc) \in Nat
  BY Sums
<1>3. live' = StateBlocks(state') + RecordBlocks(record') + LocBlocks(loc')
  BY <1>1, <1>2
<1>4. live' \in Nat
  BY <1>1, <1>2, <1>3
<1>5. TypeOK'
  BY <1>4 DEF IndInv, TypeOK, Succeeds
<1>6. QED
  BY <1>3, <1>5 DEF IndInv, Accounted

\* opendir adds the stream, or sends the step to its cleanup.
LEMMA OpendirStep == ASSUME IndInv, step_opendir PROVE IndInv'
<1>0. pc = "open"
  BY DEF step_opendir
<1>1. CASE Succeeds /\ pc' = "scan"
  <2>1. /\ loc' = [loc EXCEPT !.sys_dir = TRUE, !.todo = Contents[loc.dir_path]]
        /\ live' = live + 1 /\ UNCHANGED <<state, record, ret, lost, wild>>
    BY <1>0, <1>1 DEF step_opendir, cleanup_with
  <2>2. /\ loc \in Local /\ loc.dir_path \in Names /\ Usable(loc.file_vec) /\ loc.dir = NULL
        /\ loc.dir_path # NULL /\ loc.sys_dir = FALSE
        /\ loc.i \in 1 .. Len(loc.file_vec.items) + 1
    BY <1>0, LocalParts DEF IndInv, TypeOK, StepShape
  <2>3. Contents[loc.dir_path] \subseteq Names
    BY <2>2, FileSystemAssumption
  <2>4. /\ loc' \in Local /\ loc'.file_vec = loc.file_vec /\ loc'.dir_path = loc.dir_path
        /\ loc'.dir = loc.dir /\ loc'.sys_dir = TRUE /\ loc'.i = loc.i
    BY <2>1, <2>2, <2>3 DEF Local
  <2>5. LocBlocks(loc') = LocBlocks(loc) + 1
    <3> DEFINE rest == file_vector_blocks(loc.file_vec) + PathBlocks(loc.dir_path) + DirBlocks(loc.dir)
    <3>1. /\ LocBlocks(loc) = 0 + file_vector_blocks(loc.file_vec) + PathBlocks(loc.dir_path)
                              + DirBlocks(loc.dir)
          /\ LocBlocks(loc') = 1 + file_vector_blocks(loc.file_vec) + PathBlocks(loc.dir_path)
                              + DirBlocks(loc.dir)
      BY <2>2, <2>4, StreamFacts, Zenon DEF LocBlocks
    <3>2. QED
      BY <3>1, <2>2, LocalBlocksNat
  <2>6. live \in Nat /\ LocBlocks(loc) \in Nat
    BY <2>2, LocalBlocksNat DEF IndInv, TypeOK
  <2>7. StepShape'
    BY <1>0, <1>1, <2>1, <2>2, <2>4 DEF IndInv, StepShape
  <2>8. HasRoom(loc'.file_vec)
    BY <2>2, <2>4 DEF Usable
  <2>9. QED
    BY <1>0, <1>1, <2>1, <2>2, <2>4, <2>5, <2>6, <2>7, <2>8, LocalStep
<1>2. CASE Fails /\ \E err \in {"INVAL_PATH", "ACCESS", "SYS"} : cleanup_with(err)
  <2>1. PICK err \in {"INVAL_PATH", "ACCESS", "SYS"} : cleanup_with(err)
    BY <1>2
  <2>2. UNCHANGED <<state, record, loc, live, lost, wild>>
    BY <1>0, <1>2 DEF step_opendir, cleanup_with
  <2>3. err \in Codes \ {"OK"}
    BY DEF Codes
  <2>4. QED
    BY <1>0, <1>2, <2>1, <2>2, <2>3, StepFails
<1>3. QED
  BY <1>1, <1>2 DEF step_opendir

\* An entry that is pushed brings one block, its name.
LEMMA PushedFile ==
    ASSUME NEW l \in Local, Usable(l.file_vec), NEW f \in File, NEW m,
           m.file_vec = vector_push(l.file_vec, f), m.dir_path = l.dir_path,
           m.dir = l.dir, m.sys_dir = l.sys_dir
    PROVE  /\ m.file_vec \in Vector(File) /\ Usable(m.file_vec)
           /\ m.file_vec.items = Append(l.file_vec.items, f)
           /\ Len(m.file_vec.items) = Len(l.file_vec.items) + 1
           /\ LocBlocks(m) = LocBlocks(l) + 1
<1> DEFINE v == vector_push(l.file_vec, f)
<1>1. /\ v \in Vector(File) /\ Usable(v) /\ v.items = Append(l.file_vec.items, f)
      /\ Len(v.items) = Len(l.file_vec.items) + 1
  BY LocalParts, PushVector DEF Usable
<1>2. m.file_vec = v
  OBVIOUS
<1> HIDE DEF v
<1>3. file_vector_blocks(v) = file_vector_blocks(l.file_vec) + 1
  <2>1. ArrayBlocks(v) = 1 /\ ArrayBlocks(l.file_vec) = 1
    BY <1>1 DEF Usable, ArrayBlocks
  <2>2. QED
    BY <1>1, <2>1, LocalParts DEF file_vector_blocks
<1>4. LocBlocks(m) = LocBlocks(l) + 1
  <2>1. /\ LocBlocks(m) = StreamBlocks(l.sys_dir) + file_vector_blocks(v)
                           + PathBlocks(l.dir_path) + DirBlocks(l.dir)
        /\ LocBlocks(l) = StreamBlocks(l.sys_dir) + file_vector_blocks(l.file_vec)
                           + PathBlocks(l.dir_path) + DirBlocks(l.dir)
    BY <1>2, Zenon DEF LocBlocks
  <2>2. QED
    BY <1>3, <2>1, LocalBlocksNat
<1>5. QED
  BY <1>1, <1>2, <1>4

\* readdir: an entry is listed with its name, skipped, or ends the step.
LEMMA DirentStep == ASSUME IndInv, NEW n \in Names, scan_dirent(n) PROVE IndInv'
<1> DEFINE dirent == fw_map_dirent_type(Kind[n])
           file == [name |-> n, type |-> dirent.type]
<1>0. /\ pc = "scan" /\ loc \in Local /\ Usable(loc.file_vec) /\ loc.dir = NULL
      /\ loc.dir_path # NULL /\ loc.sys_dir = TRUE /\ loc.todo \subseteq Names
      /\ loc.i \in 1 .. Len(loc.file_vec.items) + 1 /\ Len(loc.file_vec.items) \in Nat
      /\ live \in Nat /\ LocBlocks(loc) \in Nat
  BY LocalParts, LocalBlocksNat DEF scan_dirent, IndInv, TypeOK, StepShape
<1>1. file \in File
  BY DEF fw_map_dirent_type, File
<1> HIDE DEF file
<1>2. CASE /\ Succeeds /\ UNCHANGED <<pc, ret>> /\ live' = live + 1
           /\ loc' = [loc EXCEPT !.todo = @ \ {n}, !.file_vec = vector_push(@, file)]
  <2>1. /\ loc'.file_vec = vector_push(loc.file_vec, file)
        /\ loc'.dir_path = loc.dir_path /\ loc'.dir = loc.dir /\ loc'.sys_dir = loc.sys_dir
        /\ loc'.i = loc.i /\ loc'.todo = loc.todo \ {n}
        /\ DOMAIN loc' = DOMAIN loc
    BY <1>0, <1>2 DEF Local
  <2>2. /\ loc'.file_vec \in Vector(File) /\ Usable(loc'.file_vec)
        /\ Len(loc'.file_vec.items) = Len(loc.file_vec.items) + 1
        /\ LocBlocks(loc') = LocBlocks(loc) + 1
    BY <1>0, <1>1, <2>1, PushedFile
  <2>3. loc' \in Local
    BY <1>0, <1>2, <2>1, <2>2 DEF Local
  <2>4. UNCHANGED <<state, record, ret, lost, wild>>
    BY <1>2 DEF scan_dirent
  <2>5. StepShape'
    BY <1>0, <1>2, <2>1, <2>2, <2>4 DEF IndInv, StepShape, Usable
  <2>6. HasRoom(loc'.file_vec) /\ loc'.i \in 1 .. Len(loc'.file_vec.items) + 1
    BY <1>0, <2>1, <2>2 DEF Usable
  <2>7. QED
    BY <1>0, <1>2, <2>2, <2>3, <2>4, <2>5, <2>6, LocalStep
<1>3. CASE \E e \in {"SYS", "FW_UNKNOWN"} : cleanup_with(e) /\ UNCHANGED <<loc, live>>
  <2>1. PICK e \in {"SYS", "FW_UNKNOWN"} : cleanup_with(e)
    BY <1>3
  <2>2. e \in Codes \ {"OK"}
    BY DEF Codes
  <2>3. UNCHANGED <<state, record, lost, wild>> /\ (Fails \/ Succeeds)
    BY DEF scan_dirent
  <2>4. QED
    BY <1>0, <1>3, <2>1, <2>2, <2>3, StepFails
<1>4. CASE /\ Succeeds /\ UNCHANGED <<pc, ret, live>>
           /\ loc' = [loc EXCEPT !.todo = after_unsupported(n)]
  <2>1. /\ loc' \in Local /\ loc'.file_vec = loc.file_vec /\ loc'.dir_path = loc.dir_path
        /\ loc'.dir = loc.dir /\ loc'.sys_dir = loc.sys_dir /\ loc'.i = loc.i
    BY <1>0, <1>4 DEF Local, after_unsupported
  <2>2. LocBlocks(loc') = LocBlocks(loc)
    BY <2>1, Zenon DEF LocBlocks
  <2>3. UNCHANGED <<state, record, ret, lost, wild>>
    BY <1>4 DEF scan_dirent
  <2>4. StepShape'
    BY <1>0, <1>4, <2>1, <2>3 DEF IndInv, StepShape
  <2>5. QED
    BY <1>0, <1>4, <2>1, <2>2, <2>3, <2>4, LocalStep DEF Usable
<1>5. (live + 1) - free_unpushed = live
  BY <1>0 DEF free_unpushed
<1>6. QED
  BY <1>2, <1>3, <1>4, <1>5 DEF scan_dirent, file

\* readdir reports the end, and the entries are gone through from the first.
LEMMA ScanEndStep == ASSUME IndInv, scan_end PROVE IndInv'
<1>0. /\ pc = "scan" /\ loc \in Local /\ Usable(loc.file_vec)
      /\ loc.i \in 1 .. Len(loc.file_vec.items) + 1
      /\ live \in Nat /\ LocBlocks(loc) \in Nat
  BY LocalParts, LocalBlocksNat DEF scan_end, IndInv, TypeOK, StepShape
<1>1. CASE Succeeds /\ pc' = "push" /\ UNCHANGED ret
  <2>1. StepShape' /\ UNCHANGED <<state, record, loc, live, ret, lost, wild>>
    BY <1>0, <1>1 DEF IndInv, StepShape, scan_end
  <2>2. QED
    BY <1>0, <1>1, <2>1, LocalStep DEF Usable
<1>2. CASE Fails /\ cleanup_with("SYS")
  <2>1. UNCHANGED <<state, record, loc, live, lost, wild>> /\ "SYS" \in Codes \ {"OK"}
    BY DEF scan_end, Codes
  <2>2. QED
    BY <1>0, <1>2, <2>1, StepFails
<1>3. QED
  BY <1>1, <1>2 DEF scan_end

\* A path is made for an entry that is a directory, and given to the state.
LEMMA PushPathStep == ASSUME IndInv, push_dir_path PROVE IndInv'
<1> DEFINE f == loc.file_vec.items[loc.i]
<1>0. /\ pc = "push" /\ loc \in Local /\ Usable(loc.file_vec) /\ loc.dir = NULL
      /\ loc.dir_path # NULL /\ loc.sys_dir = TRUE
      /\ loc.i \in 1 .. Len(loc.file_vec.items) /\ loc.file_vec.items \in Seq(File)
      /\ Len(loc.file_vec.items) \in Nat
      /\ live \in Nat /\ LocBlocks(loc) \in Nat
  BY LocalParts, LocalBlocksNat DEF push_dir_path, IndInv, TypeOK, StepShape
<1>1. f \in File /\ f.name \in Names
  <2>1. f \in File
    BY <1>0
  <2>2. QED
    BY <2>1 DEF File
<1>2. ASSUME loc' = [loc EXCEPT !.i = push_next(f)]
      PROVE  /\ loc' \in Local /\ loc'.file_vec = loc.file_vec /\ loc'.dir_path = loc.dir_path
             /\ loc'.dir = loc.dir /\ loc'.sys_dir = loc.sys_dir /\ loc'.i = loc.i + 1
             /\ loc'.todo = loc.todo
             /\ LocBlocks(loc') = LocBlocks(loc)
  <2>1. /\ loc' \in Local /\ loc'.file_vec = loc.file_vec /\ loc'.dir_path = loc.dir_path
        /\ loc'.dir = loc.dir /\ loc'.sys_dir = loc.sys_dir /\ loc'.i = loc.i + 1
        /\ loc'.todo = loc.todo
    BY <1>0, <1>2 DEF Local, push_next
  <2>2. LocBlocks(loc') = LocBlocks(loc)
    BY <2>1, Zenon DEF LocBlocks
  <2>3. QED
    BY <2>1, <2>2
<1> HIDE DEF f
<1>3. CASE Succeeds /\ loc' = [loc EXCEPT !.i = push_next(f)] /\ UNCHANGED <<state, pc, ret, live>>
  <2>1. UNCHANGED <<record, lost, wild>>
    BY DEF push_dir_path
  <2>2. StepShape'
    BY <1>0, <1>2, <1>3, <2>1 DEF IndInv, StepShape
  <2>3. HasRoom(loc'.file_vec) /\ loc'.i \in 1 .. Len(loc'.file_vec.items) + 1
    BY <1>0, <1>2, <1>3 DEF Usable
  <2>4. QED
    BY <1>0, <1>2, <1>3, <2>1, <2>2, <2>3, LocalStep
<1>4. CASE /\ Succeeds /\ state' = [state EXCEPT !.path_vec = vector_push(@, f.name)]
           /\ loc' = [loc EXCEPT !.i = push_next(f)]
           /\ live' = live + 1 /\ UNCHANGED <<pc, ret>>
  <2> DEFINE v == vector_push(state.path_vec, f.name)
  <2>0. UNCHANGED <<record, lost, wild>>
    BY DEF push_dir_path
  <2>1. /\ state \in State /\ Usable(state.path_vec) /\ Usable(state.dir_vec)
        /\ state.path_vec \in Vector(Names)
    BY <1>0, Running
  <2>2. /\ v \in Vector(Names) /\ Usable(v) /\ Len(v.items) = Len(state.path_vec.items) + 1
    BY <1>1, <2>1, PushVector DEF Usable
  <2>3. state' = [state EXCEPT !.path_vec = v]
    BY <1>4, Zenon
  <2> HIDE DEF v
  <2>4. /\ state' \in State /\ state' # NULL /\ state'.path_vec = v /\ state'.dir_vec = state.dir_vec
        /\ StateBlocks(state') = (StateBlocks(state) + Len(v.items)) - Len(state.path_vec.items)
    BY <2>1, <2>2, <2>3, PathVecChange
  <2>5. Len(state.path_vec.items) \in Nat
    BY <2>1 DEF Vector
  <2>6. /\ live = StateBlocks(state) + RecordBlocks(record) + LocBlocks(loc)
        /\ StateBlocks(state) \in Nat /\ RecordBlocks(record) \in Nat
    BY <1>0, Sums
  <2>7. live' = StateBlocks(state') + RecordBlocks(record') + LocBlocks(loc')
    <3>1. StateBlocks(state') = StateBlocks(state) + 1
      BY <2>2, <2>4, <2>5, <2>6
    <3>2. LocBlocks(loc') = LocBlocks(loc)
      BY <1>2, <1>4
    <3>3. QED
      BY <1>0, <1>4, <2>0, <2>6, <3>1, <3>2
  <2>8. TypeOK'
    BY <1>0, <1>2, <1>4, <2>0, <2>1, <2>2, <2>4 DEF IndInv, TypeOK, Succeeds, Usable
  <2>9. StepShape'
    BY <1>0, <1>2, <1>4, <2>0, <2>1, <2>2, <2>4 DEF IndInv, StepShape
  <2>10. QED
    BY <2>7, <2>8, <2>9 DEF IndInv, Accounted
<1>5. CASE Fails /\ cleanup_with("SYS") /\ UNCHANGED <<state, loc, live>>
  <2>1. UNCHANGED <<record, lost, wild>> /\ "SYS" \in Codes \ {"OK"}
    BY DEF push_dir_path, Codes
  <2>2. QED
    BY <1>0, <1>5, <2>1, StepFails
<1>6. (live + 1) - free_unpushed = live
  BY <1>0 DEF free_unpushed
<1>7. QED
  BY <1>3, <1>4, <1>5, <1>6 DEF push_dir_path, f

\* The names, their array and the path become a directory: the same blocks change hands.
LEMMA DirInitStep == ASSUME IndInv, step_dir_init PROVE IndInv'
<1> DEFINE files == loc.file_vec.items
           d == [path |-> loc.dir_path, files |-> files]
<1>0. /\ pc = "push" /\ loc \in Local /\ Usable(loc.file_vec) /\ loc.dir = NULL
      /\ loc.dir_path \in Names /\ loc.dir_path # NULL /\ loc.sys_dir = TRUE
      /\ files \in Seq(File) /\ Len(files) \in Nat
      /\ live \in Nat /\ LocBlocks(loc) \in Nat
  BY LocalParts, LocalBlocksNat DEF step_dir_init, IndInv, TypeOK, StepShape
<1>1. CASE /\ Succeeds /\ UNCHANGED ret /\ pc' = "record"
           /\ loc' = [loc EXCEPT !.file_vec = ZeroVector, !.dir_path = NULL, !.dir = d]
           /\ live' = IF files = <<>> THEN live - file_vector_blocks(loc.file_vec) ELSE live
  <2>0. UNCHANGED <<state, record, lost, wild>>
    BY DEF step_dir_init
  <2>1. d \in Dir /\ d.files = files
    BY <1>0 DEF Dir
  <2>2. d # NULL /\ DirBlocks(d) = 1 + FilesBlocks(files)
    BY <2>1, NullAssumption, DirHasBlocks
  <2> HIDE DEF d
  <2>3. /\ loc' \in Local /\ loc'.file_vec = ZeroVector /\ loc'.dir_path = NULL
        /\ loc'.dir = d /\ loc'.sys_dir = loc.sys_dir
    BY <1>0, <1>1, <2>1, ZeroIsVector DEF Local
  <2>4. LocBlocks(loc') = 2 + FilesBlocks(files)
    <3>1. LocBlocks(loc') = 1 + file_vector_blocks(ZeroVector) + PathBlocks(NULL) + DirBlocks(d)
      BY <1>0, <2>3, StreamFacts, Zenon DEF LocBlocks
    <3>2. file_vector_blocks(ZeroVector) = 0 /\ PathBlocks(NULL) = 0
      BY DEF ZeroVector, file_vector_blocks, ArrayBlocks, PathBlocks
    <3>3. FilesBlocks(files) \in Nat
      BY <1>0 DEF FilesBlocks
    <3>4. QED
      BY <2>2, <3>1, <3>2, <3>3
  <2>5. LocBlocks(loc) = 3 + Len(files) /\ file_vector_blocks(loc.file_vec) = 1 + Len(files)
    <3>1. LocBlocks(loc) = 1 + file_vector_blocks(loc.file_vec) + PathBlocks(loc.dir_path)
                            + DirBlocks(NULL)
      BY <1>0, StreamFacts, Zenon DEF LocBlocks
    <3>2. /\ file_vector_blocks(loc.file_vec) = 1 + Len(files) /\ PathBlocks(loc.dir_path) = 1
          /\ DirBlocks(NULL) = 0
      BY <1>0 DEF file_vector_blocks, ArrayBlocks, PathBlocks, DirBlocks, Usable
    <3>3. QED
      BY <1>0, <3>1, <3>2
  <2>6. live' - live = LocBlocks(loc') - LocBlocks(loc) /\ live' \in Int
    BY <1>0, <1>1, <2>4, <2>5 DEF FilesBlocks
  <2>7. StepShape'
    BY <1>0, <1>1, <2>0, <2>2, <2>3, ZeroIsVector DEF IndInv, StepShape
  <2>8. HasRoom(loc'.file_vec)
    BY <2>3, ZeroIsVector
  <2>9. QED
    BY <1>0, <1>1, <2>0, <2>3, <2>6, <2>7, <2>8, LocalStep
<1>2. CASE Fails /\ cleanup_with("SYS") /\ UNCHANGED <<loc, live>>
  <2>1. UNCHANGED <<state, record, lost, wild>> /\ "SYS" \in Codes \ {"OK"}
    BY DEF step_dir_init, Codes
  <2>2. QED
    BY <1>0, <1>2, <2>1, StepFails
<1>3. QED
  BY <1>1, <1>2 DEF step_dir_init

\* The directory is given to the state and the stream is closed.
LEMMA RecordStep == ASSUME IndInv, step_record PROVE IndInv'
<1>0. /\ pc = "record" /\ state \in State /\ Usable(state.path_vec) /\ Usable(state.dir_vec)
      /\ loc \in Local /\ loc.file_vec = ZeroVector /\ loc.dir_path = NULL
      /\ loc.dir # NULL /\ loc.dir \in Dir /\ loc.sys_dir = TRUE
  BY Running, LocalParts DEF step_record, IndInv, StepShape
<1>1. CASE /\ Succeeds /\ state' = [state EXCEPT !.dir_vec = vector_push(@, loc.dir)]
           /\ loc' = Locals /\ live' = live - 1
           /\ ret' = Answer(IF state.path_vec.items # <<>> THEN 1 ELSE 0, "OK")
           /\ pc' = "idle"
  <2>0. UNCHANGED <<record, lost, wild>>
    BY DEF step_record
  <2>1. state' = [state EXCEPT !.dir_vec = vector_push(state.dir_vec, loc.dir)]
    BY <1>1, Zenon
  <2>2. /\ state' \in State /\ state' # NULL /\ state'.path_vec = state.path_vec
        /\ Usable(state'.dir_vec)
        /\ StateBlocks(state') = StateBlocks(state) + DirBlocks(loc.dir)
    BY <1>0, <2>1, DirVecChange
  <2>3. LocBlocks(loc) = 1 + DirBlocks(loc.dir) /\ DirBlocks(loc.dir) \in Nat
    <3>1. LocBlocks(loc) = 1 + file_vector_blocks(ZeroVector) + PathBlocks(NULL) + DirBlocks(loc.dir)
      BY <1>0, StreamFacts, Zenon DEF LocBlocks
    <3>2. file_vector_blocks(ZeroVector) = 0 /\ PathBlocks(NULL) = 0
      BY DEF ZeroVector, file_vector_blocks, ArrayBlocks, PathBlocks
    <3>3. QED
      BY <1>0, <3>1, <3>2, DirHasBlocks
  <2>4. /\ live = StateBlocks(state) + RecordBlocks(record) + LocBlocks(loc)
        /\ StateBlocks(state) \in Nat /\ RecordBlocks(record) \in Nat
    BY <1>0, Sums
  <2>5. LocBlocks(loc') = 0
    BY <1>1, LocalsFacts
  <2>6. live' = StateBlocks(state') + RecordBlocks(record') + LocBlocks(loc') /\ live' \in Nat
    BY <1>1, <2>0, <2>2, <2>3, <2>4, <2>5
  <2>7. TypeOK'
    BY <1>0, <1>1, <2>0, <2>2, <2>6, LocalsFacts, ZeroIsVector
       DEF IndInv, TypeOK, Succeeds, Usable, Answer, Codes
  <2>8. StepShape'
    BY <1>0, <1>1, <2>0, <2>2, LocalsFacts, ZeroIsVector DEF IndInv, StepShape, Answer
  <2>9. QED
    BY <2>6, <2>7, <2>8 DEF IndInv, Accounted
<1>2. CASE Fails /\ cleanup_with("SYS") /\ UNCHANGED <<state, loc, live>>
  <2>1. UNCHANGED <<record, lost, wild>> /\ "SYS" \in Codes \ {"OK"}
    BY DEF step_record, Codes
  <2>2. QED
    BY <1>0, <1>2, <2>1, StepFails
<1>3. QED
  BY <1>1, <1>2 DEF step_record

\* The cleanup of a step frees what the locals own, wherever the step has failed.
LEMMA CleanupStep == ASSUME IndInv, step_cleanup PROVE IndInv'
<1>0. /\ pc = "cleanup" /\ state \in State /\ loc \in Local /\ loc.file_vec.array # "garbage"
      /\ ret.err # "OK" /\ ret.err \in Codes
  BY Running DEF step_cleanup, IndInv, StepShape, TypeOK
<1>1. /\ live' = live - cleanup_blocks /\ lost' = lost \cup Popped
      /\ loc' = Locals /\ pc' = "idle" /\ UNCHANGED <<state, record, wild, failures>>
      /\ ret' = Answer(cleanup_result, REMAP_ERR(ret.err))
  BY <1>0 DEF step_cleanup
<1>2. cleanup_blocks = LocBlocks(loc)
  BY Zenon DEF cleanup_blocks, LocBlocks, StreamBlocks
<1>3. live' = StateBlocks(state') + RecordBlocks(record') + LocBlocks(loc') /\ live' \in Nat
  <2>1. /\ live = StateBlocks(state) + RecordBlocks(record) + LocBlocks(loc)
        /\ StateBlocks(state) \in Nat /\ RecordBlocks(record) \in Nat /\ LocBlocks(loc) \in Nat
    BY <1>0, Sums
  <2>2. LocBlocks(loc') = 0
    BY <1>1, LocalsFacts
  <2>3. QED
    BY <1>1, <1>2, <2>1, <2>2
<1>4. Popped \subseteq Names
  <2>1. loc.dir_path \in Names \cup {NULL} /\ loc.dir \in Dir \cup {NULL}
    BY <1>0, LocalParts
  <2>2. loc.dir # NULL => loc.dir.path \in Names
    BY <2>1 DEF Dir
  <2>3. QED
    BY <2>1, <2>2 DEF Popped
<1>5. REMAP_ERR(ret.err) \in Codes /\ REMAP_ERR(ret.err) # "OK" /\ cleanup_result \in {0, 1}
  BY <1>0 DEF REMAP_ERR, Codes, cleanup_result
<1>6. TypeOK'
  <2>1. ret' \in [result : {0, 1}, err : Codes]
    BY <1>1, <1>5 DEF Answer
  <2>2. lost' \subseteq Names
    BY <1>1, <1>4 DEF IndInv, TypeOK
  <2>3. loc' \in Local /\ HasRoom(loc'.file_vec) /\ loc'.i \in 1 .. Len(loc'.file_vec.items) + 1
    BY <1>1, LocalsFacts, ZeroIsVector
  <2>4. QED
    BY <1>0, <1>1, <1>3, <2>1, <2>2, <2>3 DEF IndInv, TypeOK
<1>7. StepShape'
  BY <1>0, <1>1, LocalsFacts, ZeroIsVector DEF IndInv, StepShape
<1>8. QED
  BY <1>3, <1>6, <1>7 DEF IndInv, Accounted

\* The calls that end a walk.
LEMMA EndStep ==
    ASSUME IndInv, pc = "idle", UNCHANGED <<loc, pc, lost, wild, failures>>,
           state' \in {state, NULL}, record' \in Seq(Dir) \cup {NULL},
           ret' \in {ret, Answer(0, "OK")}, live' \in Int,
           live' = StateBlocks(state') + RecordBlocks(record')
    PROVE  IndInv'
<1>1. LocBlocks(loc') = 0
  BY LocalsFacts DEF IndInv, StepShape
<1>2. RecordBlocks(record') \in Nat
  BY RecordNat
<1>3. StateBlocks(state') \in Nat
  <2>1. CASE state' = NULL
    BY <2>1 DEF StateBlocks
  <2>2. CASE state' = state
    BY <2>2, Sums
  <2>3. QED
    BY <2>1, <2>2
<1>4. TypeOK'
  <2>1. live' \in Nat
    BY <1>2, <1>3
  <2>2. QED
    BY <2>1 DEF IndInv, TypeOK, Answer, Codes
<1>5. StepShape'
  BY DEF IndInv, StepShape
<1>6. Accounted'
  BY <1>1, <1>2, <1>3 DEF Accounted
<1>7. QED
  BY <1>4, <1>5, <1>6 DEF IndInv

\* Between calls the locals own nothing.
LEMMA IdleSums ==
    ASSUME IndInv, pc = "idle"
    PROVE  /\ live = StateBlocks(state) + RecordBlocks(record)
           /\ StateBlocks(state) \in Nat /\ RecordBlocks(record) \in Nat
           /\ record \in Seq(Dir) \cup {NULL} /\ state \in State \cup {NULL}
<1>1. /\ live = StateBlocks(state) + RecordBlocks(record) + LocBlocks(loc)
      /\ StateBlocks(state) \in Nat /\ RecordBlocks(record) \in Nat
  BY Sums
<1>2. LocBlocks(loc) = 0
  BY LocalsFacts DEF IndInv, StepShape
<1>3. QED
  BY <1>1, <1>2 DEF IndInv, TypeOK

\* jfs_fw_state_destroy frees what the state owns.
LEMMA DestroyStep == ASSUME IndInv, jfs_fw_state_destroy PROVE IndInv'
<1>0. pc = "idle" /\ state # NULL
  BY DEF jfs_fw_state_destroy
<1>1. /\ StateBlocks(state) = 1 + path_vector_blocks(state.path_vec)
                                 + dir_vector_blocks(state.dir_vec)
      /\ path_vector_blocks(state.path_vec) \in Nat /\ dir_vector_blocks(state.dir_vec) \in Nat
  <2>1. /\ state \in State /\ Len(state.path_vec.items) \in Nat
        /\ DirsBlocks(state.dir_vec.items) \in Nat
    BY <1>0, IdleSums, StateFacts
  <2>2. ArrayBlocks(state.path_vec) \in Nat /\ ArrayBlocks(state.dir_vec) \in Nat
    BY DEF ArrayBlocks
  <2>3. QED
    BY <1>0, <2>1, <2>2 DEF StateBlocks, path_vector_blocks, dir_vector_blocks
<1>2. StateBlocks(state') = 0 /\ live' \in Int /\ live' = RecordBlocks(record')
  BY <1>0, <1>1, IdleSums DEF jfs_fw_state_destroy, StateBlocks
<1>3. QED
  BY <1>0, <1>2, IdleSums, EndStep DEF jfs_fw_state_destroy

\* jfs_fw_record_init hands the directories on and frees the rest of the state.
LEMMA RecordInitStep == ASSUME IndInv, jfs_fw_record_init PROVE IndInv'
<1>0. /\ pc = "idle" /\ state # NULL /\ record = NULL /\ state \in State
      /\ state.dir_vec.array = "block" /\ state' = NULL
      /\ record' = state.dir_vec.items
  BY IdleSums DEF jfs_fw_record_init, IndInv, StepShape, Usable
<1>1. state.dir_vec.items \in Seq(Dir) /\ record' # NULL
  <2>1. state.dir_vec.items \in Seq(Dir)
    BY <1>0 DEF State, Vector
  <2>2. QED
    BY <1>0, <2>1, NullAssumption
<1>2. /\ StateBlocks(state) = 2 + path_vector_blocks(state.path_vec)
                                 + DirsBlocks(state.dir_vec.items)
      /\ path_vector_blocks(state.path_vec) \in Nat /\ DirsBlocks(state.dir_vec.items) \in Nat
  <2>1. /\ Len(state.path_vec.items) \in Nat /\ DirsBlocks(state.dir_vec.items) \in Nat
    BY <1>0, StateFacts
  <2>2. ArrayBlocks(state.path_vec) \in Nat /\ ArrayBlocks(state.dir_vec) = 1
    BY <1>0 DEF ArrayBlocks
  <2>3. QED
    BY <1>0, <2>1, <2>2 DEF StateBlocks, path_vector_blocks, dir_vector_blocks
<1>3. dir_vector_blocks(vector_to_array(state.dir_vec)) = 0
  BY DirsBlocksEmpty DEF vector_to_array, ZeroVector, dir_vector_blocks, ArrayBlocks
<1>4. RecordBlocks(record) = 0 /\ RecordBlocks(record') = 1 + DirsBlocks(state.dir_vec.items)
  BY <1>0, <1>1 DEF RecordBlocks
<1>5. StateBlocks(state') = 0
  BY <1>0 DEF StateBlocks
<1>6. live = StateBlocks(state) + RecordBlocks(record)
  BY <1>0, IdleSums
<1>7. live' = live - path_vector_blocks(state.path_vec) - 0 - 1
  BY <1>3 DEF jfs_fw_record_init
<1>8. live' = StateBlocks(state') + RecordBlocks(record') /\ live' \in Int
  BY <1>2, <1>4, <1>5, <1>6, <1>7
<1>9. QED
  BY <1>0, <1>1, <1>8, EndStep DEF jfs_fw_record_init

\* jfs_fw_record_free frees what the record owns.
LEMMA RecordFreeStep == ASSUME IndInv, jfs_fw_record_free PROVE IndInv'
<1>0. pc = "idle" /\ record # NULL /\ record' = NULL
  BY DEF jfs_fw_record_free
<1>1. RecordBlocks(record) = 1 + DirsBlocks(record) /\ DirsBlocks(record) \in Nat
  BY <1>0, IdleSums, DirsBlocksNat DEF RecordBlocks
<1>2. RecordBlocks(record') = 0
  BY <1>0 DEF RecordBlocks
<1>3. live' = StateBlocks(state') + RecordBlocks(record') /\ live' \in Int
  BY <1>0, <1>1, <1>2, IdleSums DEF jfs_fw_record_free
<1>4. QED
  BY <1>0, <1>3, EndStep DEF jfs_fw_record_free

\* Every step keeps the inductive invariant.
LEMMA InductiveStep == IndInv /\ [Next]_vars => IndInv'
<1> SUFFICES ASSUME IndInv, [Next]_vars PROVE IndInv'
  OBVIOUS
<1>1. CASE step_empty
  <2>1. /\ pc = "idle" /\ UNCHANGED <<state, record, loc, pc, live, lost, wild>> /\ Succeeds
        /\ ret' = Answer(1, "OK") /\ "OK" \in Codes
    BY <1>1 DEF step_empty, Succeeds, Codes
  <2>2. QED
    BY <2>1, AnswerStep
<1>2. CASE record_init_refused
  <2>1. /\ pc = "idle" /\ UNCHANGED <<state, record, loc, pc, live, lost, wild>>
        /\ Fails \/ Succeeds
        /\ \E e \in {"FW_STATE", "EMPTY", "SYS"} : ret' = Answer(0, e)
    BY <1>2 DEF record_init_refused
  <2>2. QED
    BY <2>1, AnswerStep DEF Codes
<1>3. CASE Step
  BY <1>3, BeginStep, OpendirStep, DirentStep, ScanEndStep, PushPathStep, DirInitStep,
     RecordStep, CleanupStep DEF Step
<1>4. CASE UNCHANGED vars
  BY <1>4, StutterStep
<1>5. QED
  BY <1>1, <1>2, <1>3, <1>4, CreateStep, CreateFailsStep, DestroyStep, RecordInitStep,
     RecordFreeStep DEF Next

\* IndInv holds at all times.
LEMMA Invariance == Spec => []IndInv
BY InitInv, InductiveStep, PTL DEF Spec

\* For every file system and whatever fails, no vector of file_walk.c holds more than it
\* has room for, and no local of a step is of another shape than the code behind expects.
THEOREM TypeCorrect == Spec => []TypeOK
<1>1. IndInv => TypeOK
  BY DEF IndInv
<1>2. QED
  BY Invariance, <1>1, PTL

\* Whatever fails inside jfs_fw_state_create, jfs_fw_state_step or jfs_fw_record_init, each
\* path, name, array and stream has exactly one owner at every moment: none is leaked and
\* none freed twice, and only the cleanup of jfs_fw_state_create frees what nobody has set.
THEOREM BlocksAreOwned == Spec => []EveryBlockOwned
<1>1. IndInv => EveryBlockOwned
  <2> SUFFICES ASSUME IndInv PROVE EveryBlockOwned
    OBVIOUS
  <2>1. Cardinality({b \in {loc.sys_dir} : b}) = StreamBlocks(loc.sys_dir)
    <3>1. loc.sys_dir \in BOOLEAN
      BY LocalParts DEF IndInv, TypeOK
    <3>2. CASE loc.sys_dir = TRUE
      <4>1. {b \in {loc.sys_dir} : b} = {TRUE}
        BY <3>2, Zenon
      <4>2. QED
        BY <3>2, <4>1, FS_Singleton, StreamFacts, Zenon
    <3>3. CASE loc.sys_dir = FALSE
      <4>1. {b \in {loc.sys_dir} : b} = {}
        BY <3>3, Zenon
      <4>2. QED
        BY <3>3, <4>1, FS_EmptySet, StreamFacts, Zenon
    <3>4. QED
      BY <3>1, <3>2, <3>3, Zenon
  <2>2. LocalBlocks = LocBlocks(loc)
    BY <2>1, Zenon DEF LocalBlocks, LocBlocks
  <2>3. Owned = StateBlocks(state) + RecordBlocks(record) + LocBlocks(loc)
    BY <2>2, Zenon DEF Owned, StateBlocks, RecordBlocks
  <2>4. QED
    BY <2>3 DEF EveryBlockOwned, IndInv, Accounted, StepShape
<1>2. QED
  BY Invariance, <1>1, PTL

\* On every way out of jfs_fw_state_step but that of an exhausted walk, the answer tells
\* whether paths are left, read the other way round after an error than after a success.
THEOREM AnswersAreHonest == Spec => StepTellsWhatIsLeft
<1>1. IndInv /\ [Next]_vars => [pc # "idle" /\ pc' = "idle" => SaysMore' = (Pending' # <<>>)]_vars
  <2> SUFFICES ASSUME IndInv, Next, pc # "idle", pc' = "idle"
               PROVE  SaysMore' = (Pending' # <<>>)
    OBVIOUS
  <2>1. step_record \/ step_cleanup
    BY DEF Next, Step, jfs_fw_state_create, state_create_fails, step_empty, step_begin,
           step_opendir, scan_dirent, scan_end, push_dir_path, step_dir_init, cleanup_with,
           jfs_fw_state_destroy, record_init_refused, jfs_fw_record_init, jfs_fw_record_free
  <2>2. state \in State /\ state # NULL
    BY <2>1, Running DEF step_record, step_cleanup
  <2>3. CASE step_record
    <3>1. /\ state' = [state EXCEPT !.dir_vec = vector_push(@, loc.dir)]
          /\ ret' = Answer(IF state.path_vec.items # <<>> THEN 1 ELSE 0, "OK")
      BY <2>3 DEF step_record, cleanup_with
    <3>2. state' # NULL /\ state'.path_vec = state.path_vec
      <4>1. Usable(state.dir_vec) /\ loc.dir \in Dir
        BY <2>2, <2>3, LocalParts DEF IndInv, TypeOK, StepShape, step_record
      <4>2. state' = [state EXCEPT !.dir_vec = vector_push(state.dir_vec, loc.dir)]
        BY <3>1, Zenon
      <4>3. QED
        BY <2>2, <4>1, <4>2, DirVecChange
    <3>3. QED
      BY <3>1, <3>2 DEF SaysMore, Pending, Answer
  <2>4. CASE step_cleanup
    <3>1. ret.err # "OK" /\ loc.file_vec.array # "garbage"
      BY <2>4 DEF IndInv, StepShape, step_cleanup
    <3>2. /\ ret' = Answer(cleanup_result, REMAP_ERR(ret.err)) /\ state' = state
      BY <2>4, <3>1 DEF step_cleanup
    <3>3. REMAP_ERR(ret.err) # "OK"
      BY <3>1 DEF REMAP_ERR
    <3>4. QED
      BY <2>2, <3>2, <3>3 DEF SaysMore, Pending, Answer, cleanup_result
  <2>5. QED
    BY <2>1, <2>3, <2>4
<1>2. QED
  BY Invariance, <1>1, PTL DEF Spec, StepTellsWhatIsLeft

-----------------------------------------------------------------------------
(* What the walk has come to *)

Known == Seen \cup lost

\* The directories that were opened, or are.
Expanded == ToSet(RecordedPaths) \cup lost \cup Popped

\* The entries of the directory in hand that fw_push_dir_paths is done with.
Pushed == {loc.file_vec.items[j].name : j \in 1 .. loc.i - 1}

\* files has the files and directories of S, each once and by its kind.
Lists(files, S) ==
    /\ \A j, k \in DOMAIN files : files[j].name = files[k].name => j = k
    /\ {files[j].name : j \in DOMAIN files} = {n \in S : Kind[n] \in {"REG", "DIR"}}
    /\ \A j \in DOMAIN files : files[j].type = "DIR" => Kind[files[j].name] = "DIR"

Walked(f, K) == f.type = "DIR" /\ f.name \notin TooLong => f.name \in K
Complete(d, K) ==
    Lists(d.files, Contents[d.path]) /\ \A j \in DOMAIN d.files : Walked(d.files[j], K)

Apart ==
    /\ IsInjective(RecordedPaths) /\ IsInjective(Pending)
    /\ ToSet(RecordedPaths) \cap ToSet(Pending) = {}
    /\ (ToSet(RecordedPaths) \cup ToSet(Pending)) \cap Popped = {}
    /\ Seen \cap lost = {}
    /\ Known \subseteq Directories

Rooted ==
    /\ state = NULL \/ record = NULL
    /\ state # NULL \/ record # NULL => Start \in Known

\* Every directory but the first was found in one that was opened, and the one in
\* hand has led to no other than the entries that have been pushed.
Traced ==
    state # NULL => \A n \in Known \ {Start} : \E e \in Expanded :
        /\ n \in Contents[e]
        /\ e \in Popped /\ pc \in {"open", "scan", "push"} => n \in Pushed

Scanned ==
    /\ pc \in {"open", "scan"} => loc.i = 1
    /\ pc = "open" => loc.file_vec.items = <<>>
    /\ pc \in {"scan", "push"} =>
        /\ loc.todo \subseteq Contents[loc.dir_path]
        /\ Lists(loc.file_vec.items, Contents[loc.dir_path] \ loc.todo)
    /\ pc = "push" =>
        loc.todo = {} /\ \A j \in 1 .. loc.i - 1 : Walked(loc.file_vec.items[j], Known)
    /\ pc = "record" => Complete(loc.dir, Known)

Closed == \A k \in DOMAIN Recorded : Complete(Recorded[k], Known)

WalkInv == Apart /\ Rooted /\ Traced /\ Scanned /\ Closed

\* Appending what is new keeps a sequence free of repetitions.
LEMMA AppendedSet ==
    ASSUME NEW S, NEW s \in Seq(S), NEW e \in S, IsInjective(s), e \notin ToSet(s)
    PROVE  IsInjective(Append(s, e)) /\ ToSet(Append(s, e)) = ToSet(s) \cup {e}
<1> DEFINE t == Append(s, e)
<1>1. /\ Len(s) \in Nat /\ DOMAIN s = 1 .. Len(s) /\ DOMAIN t = 1 .. Len(s) + 1
      /\ \A j \in 1 .. Len(s) : t[j] = s[j]
      /\ t[Len(s) + 1] = e
  OBVIOUS
<1> HIDE DEF t
<1>2. DOMAIN t = DOMAIN s \cup {Len(s) + 1} /\ Len(s) + 1 \notin DOMAIN s
  BY <1>1
<1>3. \A j \in DOMAIN s : s[j] # e
  BY DEF ToSet
<1>4. IsInjective(t)
  BY <1>1, <1>2, <1>3 DEF IsInjective
<1>5. ToSet(t) = ToSet(s) \cup {e}
  BY <1>1, <1>2 DEF ToSet
<1>6. QED
  BY <1>4, <1>5 DEF t

\* So does dropping the last item.
LEMMA FrontSet ==
    ASSUME NEW S, NEW s \in Seq(S), s # <<>>, IsInjective(s)
    PROVE  /\ IsInjective(Front(s)) /\ ToSet(Front(s)) = ToSet(s) \ {Last(s)}
           /\ Last(s) \in ToSet(s)
<1> DEFINE t == Front(s)
<1>1. Len(s) \in Nat \ {0} /\ DOMAIN s = 1 .. Len(s)
  OBVIOUS
<1>2. DOMAIN t = 1 .. Len(s) - 1 /\ \A j \in 1 .. Len(s) - 1 : t[j] = s[j]
  BY <1>1 DEF Front
<1> HIDE DEF t
<1>3. DOMAIN s = DOMAIN t \cup {Len(s)} /\ Len(s) \notin DOMAIN t
  BY <1>1, <1>2
<1>4. IsInjective(t)
  BY <1>1, <1>2, <1>3 DEF IsInjective
<1>5. ToSet(t) = ToSet(s) \ {s[Len(s)]} /\ s[Len(s)] \in ToSet(s)
  <2>1. \A j \in DOMAIN t : s[j] # s[Len(s)]
    BY <1>1, <1>3 DEF IsInjective
  <2>2. QED
    BY <1>1, <1>2, <1>3, <2>1 DEF ToSet
<1>6. QED
  BY <1>4, <1>5 DEF t, Last

\* The list of files is extended by an entry that it does not have.
LEMMA ListsMore ==
    ASSUME NEW S, NEW files \in Seq(File), Lists(files, S), NEW f \in File, f.name \notin S,
           Kind[f.name] \in {"REG", "DIR"}, f.type = "DIR" => Kind[f.name] = "DIR"
    PROVE  Lists(Append(files, f), S \cup {f.name})
<1> DEFINE t == Append(files, f)
<1>1. /\ Len(files) \in Nat /\ DOMAIN files = 1 .. Len(files) /\ DOMAIN t = 1 .. Len(files) + 1
      /\ \A j \in 1 .. Len(files) : t[j] = files[j]
      /\ t[Len(files) + 1] = f
  OBVIOUS
<1> HIDE DEF t
<1>2. DOMAIN t = DOMAIN files \cup {Len(files) + 1} /\ Len(files) + 1 \notin DOMAIN files
  BY <1>1
<1>3. \A j \in DOMAIN files : files[j].name # f.name
  BY DEF Lists
<1>4. \A j, k \in DOMAIN t : t[j].name = t[k].name => j = k
  BY <1>1, <1>2, <1>3 DEF Lists
<1>5. {t[j].name : j \in DOMAIN t} = {n \in S \cup {f.name} : Kind[n] \in {"REG", "DIR"}}
  <2>1. {t[j].name : j \in DOMAIN t} = {files[j].name : j \in DOMAIN files} \cup {f.name}
    BY <1>1, <1>2
  <2>2. QED
    BY <2>1 DEF Lists
<1>6. \A j \in DOMAIN t : t[j].type = "DIR" => Kind[t[j].name] = "DIR"
  BY <1>1, <1>2 DEF Lists
<1>7. QED
  BY <1>4, <1>5, <1>6 DEF Lists, t

\* A complete directory stays so when more directories are known.
LEMMA MoreIsComplete ==
    ASSUME NEW d, NEW K, NEW J, K \subseteq J, Complete(d, K)
    PROVE  Complete(d, J)
BY DEF Complete, Walked

\* Where the path in hand is at each point of a step.
LEMMA PoppedAt ==
    ASSUME IndInv
    PROVE  /\ pc \in {"idle", "crashed"} => Popped = {}
           /\ pc \in {"open", "scan", "push"} => Popped = {loc.dir_path}
           /\ pc = "record" => Popped = {loc.dir.path}
BY LocalsFacts DEF IndInv, StepShape, Popped

\* A step that moves no directory leaves the places as they are.
LEMMA SameSets ==
    ASSUME UNCHANGED <<state, record, lost>>, Popped' = Popped
    PROVE  /\ Recorded' = Recorded /\ RecordedPaths' = RecordedPaths /\ Pending' = Pending
           /\ Known' = Known /\ Expanded' = Expanded /\ Seen' = Seen
<1>1. Recorded' = Recorded /\ Pending' = Pending
  BY DEF Recorded, Pending
<1>2. RecordedPaths' = RecordedPaths
  BY <1>1 DEF RecordedPaths
<1>3. QED
  BY <1>1, <1>2 DEF Known, Expanded, Seen

\* Such a step keeps WalkInv if it keeps what it knows of the directory in hand.
LEMMA QuietStep ==
    ASSUME IndInv, WalkInv, UNCHANGED <<state, record, lost>>, Popped' = Popped,
           Traced', Scanned'
    PROVE  WalkInv'
<1>1. /\ Recorded' = Recorded /\ RecordedPaths' = RecordedPaths /\ Pending' = Pending
      /\ Known' = Known /\ Expanded' = Expanded /\ Seen' = Seen
  BY SameSets
<1>2. Apart'
  BY <1>1 DEF WalkInv, Apart
<1>3. Rooted'
  BY <1>1 DEF WalkInv, Rooted
<1>4. Closed'
  BY <1>1 DEF WalkInv, Closed
<1>5. QED
  BY <1>2, <1>3, <1>4 DEF WalkInv

\* Where a directory was found stays known when more entries have been pushed.
LEMMA TracedOn ==
    ASSUME IndInv, WalkInv, UNCHANGED <<state, record, lost>>, Popped' = Popped,
           pc' \in {"open", "scan", "push"} =>
                pc \in {"open", "scan", "push"} /\ Pushed \subseteq Pushed'
    PROVE  Traced'
<1>1. Known' = Known /\ Expanded' = Expanded
  BY SameSets
<1>2. QED
  BY <1>1 DEF WalkInv, Traced

\* Such a step keeps WalkInv when it leaves the directory in hand alone.
LEMMA CalmStep ==
    ASSUME IndInv, WalkInv, UNCHANGED <<state, record, lost>>, Popped' = Popped,
           pc' \in {"idle", "cleanup", "crashed"}
    PROVE  WalkInv'
<1>1. Traced'
  BY TracedOn
<1>2. Scanned'
  BY DEF Scanned
<1>3. QED
  BY <1>1, <1>2, QuietStep

\* A walk begins with the start directory pending.
LEMMA CreateWalks == ASSUME IndInv, WalkInv, jfs_fw_state_create PROVE WalkInv'
<1>0. /\ state' \in State /\ state' # NULL /\ state'.dir_vec.items = <<>>
      /\ state'.path_vec.items = Append(<<>>, Start) /\ record' = NULL /\ lost' = {}
      /\ pc' = "idle"
  <2>1. vector_init \in Vector(Names) /\ Usable(vector_init) /\ vector_init.items = <<>>
    BY InitVector DEF Usable
  <2>2. /\ vector_push(vector_init, Start) \in Vector(Names)
        /\ vector_push(vector_init, Start).items = Append(<<>>, Start)
    BY <2>1, PushVector, FileSystemAssumption DEF Usable
  <2>3. state' \in State /\ state'.dir_vec = vector_init
        /\ state'.path_vec = vector_push(vector_init, Start)
    BY <2>2, InitVector DEF jfs_fw_state_create, State
  <2>4. QED
    BY <2>1, <2>2, <2>3, NullAssumption DEF jfs_fw_state_create
<1>1. Popped' = {}
  <2>1. IndInv'
    BY CreateStep
  <2>2. QED
    BY <1>0, <2>1, LocalsFacts DEF IndInv, StepShape, Popped
<1>2. /\ Recorded' = <<>> /\ Pending' = Append(<<>>, Start)
  BY <1>0 DEF Recorded, Pending
<1>3. RecordedPaths' = <<>>
  BY <1>2 DEF RecordedPaths
<1>4. /\ IsInjective(RecordedPaths') /\ ToSet(RecordedPaths') = {}
      /\ IsInjective(Pending') /\ ToSet(Pending') = {Start}
  BY <1>2, <1>3 DEF IsInjective, ToSet
<1>5. Known' = {Start} /\ Seen' = {Start}
  BY <1>0, <1>1, <1>4 DEF Known, Seen
<1>6. Start \in Directories
  BY FileSystemAssumption DEF Directories
<1>7. Apart'
  BY <1>0, <1>1, <1>4, <1>5, <1>6 DEF Apart
<1>8. Rooted' /\ Traced' /\ Scanned' /\ Closed'
  BY <1>0, <1>2, <1>5 DEF Rooted, Traced, Scanned, Closed
<1>9. QED
  BY <1>7, <1>8 DEF WalkInv

\* A create that fails begins no walk.
LEMMA CreateFailsWalks ==
    ASSUME IndInv, WalkInv, NEW k \in 1 .. 4, state_create_fails(k)
    PROVE  WalkInv'
<1>1. pc = "idle" /\ pc' \in {"idle", "crashed"} /\ UNCHANGED <<state, record, lost>>
  BY DEF state_create_fails, WildFree
<1>2. IndInv'
  BY CreateFailsStep
<1>3. Popped' = {} /\ Popped = {}
  BY <1>1, <1>2, LocalsFacts DEF IndInv, StepShape, Popped
<1>4. QED
  BY <1>1, <1>3, CalmStep

\* A directory that is popped is in hand instead of pending.
LEMMA BeginWalks == ASSUME IndInv, WalkInv, step_begin PROVE WalkInv'
<1>0. /\ pc = "idle" /\ state \in State /\ state # NULL /\ record = NULL
      /\ state.path_vec.items # <<>> /\ loc = Locals /\ Popped = {}
  BY PoppedAt DEF step_begin, IndInv, TypeOK, StepShape, WalkInv, Rooted
<1>1. CASE Succeeds /\ pc' = "open"
  <2> DEFINE P == state.path_vec.items
             d == Last(P)
  <2>0. P \in Seq(Names) /\ Pending = P
    BY <1>0, StateParts DEF Vector, Pending
  <2>1. /\ state' = [state EXCEPT !.path_vec = vector_pop(state.path_vec)]
        /\ loc' = [Locals EXCEPT !.file_vec = vector_init, !.dir_path = d]
        /\ UNCHANGED <<record, lost>>
    BY <1>0, <1>1, Zenon DEF step_begin, cleanup_with, Succeeds
  <2>2. state'.path_vec.items = Front(P) /\ state'.dir_vec = state.dir_vec
    BY <1>0, <2>1 DEF State, Vector, vector_pop
  <2>3. state' # NULL /\ IndInv'
    BY <1>1, BeginStep DEF IndInv, StepShape
  <2>4. /\ loc'.dir_path = d /\ loc'.i = 1 /\ loc'.file_vec = vector_init
        /\ vector_init.items = <<>>
    BY <2>1, LocalsFacts, InitVector DEF Local
  <2>5. Pending' = Front(P) /\ Recorded' = Recorded
    BY <1>0, <2>1, <2>2, <2>3 DEF Pending, Recorded
  <2>6. RecordedPaths' = RecordedPaths
    BY <2>5 DEF RecordedPaths
  <2>7. Popped' = {d}
    BY <1>1, <2>3, <2>4 DEF IndInv, StepShape, Popped
  <2>8. IsInjective(P)
    BY <2>0 DEF WalkInv, Apart
  <2> HIDE DEF P
  <2>9. IsInjective(Front(P)) /\ ToSet(Front(P)) = ToSet(P) \ {d} /\ d \in ToSet(P)
    BY <1>0, <2>0, <2>8, FrontSet DEF P
  <2> HIDE DEF d
  <2>10. Seen' = Seen /\ Known' = Known /\ Expanded' = Expanded \cup {d}
    BY <1>0, <2>0, <2>1, <2>5, <2>6, <2>7, <2>9 DEF Seen, Known, Expanded
  <2>11. Apart'
    BY <1>0, <2>0, <2>1, <2>5, <2>6, <2>7, <2>9, <2>10 DEF WalkInv, Apart, Seen
  <2>12. Rooted'
    BY <1>0, <2>1, <2>3, <2>10 DEF WalkInv, Rooted
  <2>13. Traced'
    <3>1. d \notin Expanded
      BY <1>0, <2>0, <2>9 DEF WalkInv, Apart, Expanded, Seen
    <3>2. QED
      BY <1>0, <2>7, <2>10, <3>1 DEF WalkInv, Traced
  <2>14. Scanned'
    BY <1>1, <2>4 DEF Scanned
  <2>15. Closed'
    BY <2>5, <2>10 DEF WalkInv, Closed
  <2>16. QED
    BY <2>11, <2>12, <2>13, <2>14, <2>15 DEF WalkInv
<1>2. CASE Fails /\ pc' = "cleanup"
  <2>1. UNCHANGED <<state, record, loc, lost>>
    BY <1>0, <1>2 DEF step_begin, cleanup_with
  <2>2. Popped' = Popped
    BY <2>1 DEF Popped
  <2>3. QED
    BY <1>2, <2>1, <2>2, CalmStep
<1>3. QED
  BY <1>1, <1>2 DEF step_begin, cleanup_with

\* opendir finds the entries; a directory it cannot open is lost.
LEMMA OpendirWalks == ASSUME IndInv, WalkInv, step_opendir PROVE WalkInv'
<1>0. pc = "open" /\ UNCHANGED <<state, record, lost>> /\ loc \in Local
  BY Running DEF step_opendir
<1>1. CASE Succeeds /\ pc' = "scan"
  <2>1. /\ loc'.file_vec = loc.file_vec /\ loc'.dir_path = loc.dir_path /\ loc'.dir = loc.dir
        /\ loc'.i = loc.i /\ loc'.todo = Contents[loc.dir_path]
    BY <1>0, <1>1 DEF step_opendir, cleanup_with, Local
  <2>2. Popped' = Popped /\ Pushed' = Pushed
    BY <2>1 DEF Popped, Pushed
  <2>3. Lists(loc'.file_vec.items, Contents[loc'.dir_path] \ loc'.todo)
    BY <1>0, <2>1 DEF WalkInv, Scanned, Lists
  <2>4. Scanned'
    BY <1>0, <1>1, <2>1, <2>3 DEF WalkInv, Scanned
  <2>5. Traced'
    BY <1>0, <1>1, <2>2, TracedOn
  <2>6. QED
    BY <1>0, <2>2, <2>4, <2>5, QuietStep
<1>2. CASE pc' = "cleanup" /\ UNCHANGED loc
  BY <1>0, <1>2, CalmStep DEF Popped
<1>3. QED
  BY <1>1, <1>2 DEF step_opendir, cleanup_with

\* Every entry that is listed was not listed before.
LEMMA DirentWalks == ASSUME IndInv, WalkInv, NEW n \in Names, scan_dirent(n) PROVE WalkInv'
<1> DEFINE dirent == fw_map_dirent_type(Kind[n])
           file == [name |-> n, type |-> dirent.type]
           S == Contents[loc.dir_path] \ loc.todo
<1>0. /\ pc = "scan" /\ UNCHANGED <<state, record, lost>> /\ loc \in Local /\ n \in loc.todo
      /\ Usable(loc.file_vec) /\ loc.file_vec \in Vector(File)
      /\ loc.file_vec.items \in Seq(File) /\ loc.i = 1
      /\ loc.todo \subseteq Contents[loc.dir_path] /\ Lists(loc.file_vec.items, S)
  BY Running, LocalParts DEF scan_dirent, IndInv, StepShape, WalkInv, Scanned
<1>1. /\ file \in File /\ file.name = n
      /\ file.type = "DIR" => Kind[n] = "DIR"
      /\ dirent.err = "OK" => Kind[n] \in {"REG", "DIR"}
      /\ dirent.err = "FW_UNSUPPORTED" => Kind[n] \notin {"REG", "DIR"}
  BY DEF fw_map_dirent_type, File
<1> HIDE DEF file, dirent
<1>2. CASE /\ dirent.err = "OK" /\ UNCHANGED pc
           /\ loc' = [loc EXCEPT !.todo = @ \ {n}, !.file_vec = vector_push(@, file)]
  <2>1. /\ loc'.file_vec = vector_push(loc.file_vec, file)
        /\ loc'.dir_path = loc.dir_path /\ loc'.dir = loc.dir
        /\ loc'.i = loc.i /\ loc'.todo = loc.todo \ {n}
    BY <1>0, <1>2 DEF Local
  <2>2. loc'.file_vec.items = Append(loc.file_vec.items, file)
    <3>1. vector_push(loc.file_vec, file).items = Append(loc.file_vec.items, file)
      BY <1>0, <1>1, PushVector DEF Usable
    <3>2. QED
      BY <2>1, <3>1
  <2>3. Lists(Append(loc.file_vec.items, file), S \cup {n})
    <3>1. n \notin S /\ Lists(loc.file_vec.items, S) /\ loc.file_vec.items \in Seq(File)
      BY <1>0
    <3> HIDE DEF S
    <3>2. Lists(Append(loc.file_vec.items, file), S \cup {file.name})
      BY <1>1, <1>2, <3>1, ListsMore
    <3>3. QED
      BY <1>1, <3>2
  <2>4. S \cup {n} = Contents[loc'.dir_path] \ loc'.todo
    BY <1>0, <2>1
  <2> HIDE DEF S
  <2>5. Scanned'
    BY <1>0, <1>2, <2>1, <2>2, <2>3, <2>4 DEF Scanned
  <2>6. Popped' = Popped
    BY <2>1 DEF Popped
  <2>7. Pushed = {}
    BY <1>0 DEF Pushed
  <2>8. Traced'
    BY <1>0, <2>6, <2>7, TracedOn
  <2>9. QED
    BY <1>0, <2>5, <2>6, <2>8, QuietStep
<1>3. CASE pc' = "cleanup" /\ UNCHANGED loc
  BY <1>0, <1>3, CalmStep DEF Popped
<1>4. CASE /\ dirent.err = "FW_UNSUPPORTED" /\ UNCHANGED pc
           /\ loc' = [loc EXCEPT !.todo = after_unsupported(n)]
  <2>1. /\ loc'.file_vec = loc.file_vec /\ loc'.dir_path = loc.dir_path /\ loc'.dir = loc.dir
        /\ loc'.i = loc.i /\ loc'.todo = loc.todo \ {n}
    BY <1>0, <1>4 DEF Local, after_unsupported
  <2>2. Lists(loc.file_vec.items, Contents[loc.dir_path] \ (loc.todo \ {n}))
    BY <1>0, <1>1, <1>4 DEF Lists
  <2>3. Scanned'
    BY <1>0, <1>4, <2>1, <2>2 DEF Scanned
  <2>4. Popped' = Popped
    BY <2>1 DEF Popped
  <2>5. Pushed = {}
    BY <1>0 DEF Pushed
  <2>6. Traced'
    BY <1>0, <2>4, <2>5, TracedOn
  <2>7. QED
    BY <1>0, <2>3, <2>4, <2>6, QuietStep
<1>5. QED
  BY <1>2, <1>3, <1>4 DEF scan_dirent, cleanup_with, file, dirent

\* At the end every entry has been listed or was of no supported kind.
LEMMA ScanEndWalks == ASSUME IndInv, WalkInv, scan_end PROVE WalkInv'
<1>0. pc = "scan" /\ UNCHANGED <<state, record, loc, lost>> /\ loc.i = 1
  BY DEF scan_end, WalkInv, Scanned
<1>1. Popped' = Popped /\ Pushed' = Pushed
  BY <1>0 DEF Popped, Pushed
<1>2. CASE pc' = "push" /\ loc.todo = {}
  <2>1. Scanned'
    BY <1>0, <1>2 DEF WalkInv, Scanned
  <2>2. Traced'
    BY <1>0, <1>1, TracedOn
  <2>3. QED
    BY <1>0, <1>1, <2>1, <2>2, QuietStep
<1>3. CASE pc' = "cleanup"
  BY <1>0, <1>1, <1>3, CalmStep
<1>4. QED
  BY <1>2, <1>3 DEF scan_end, cleanup_with

\* A path that is pushed is new: TreeAssumption leaves one directory it can be found in, which
\* is in hand, and of whose entries only others have been pushed.
LEMMA PushPathWalks == ASSUME IndInv, WalkInv, push_dir_path PROVE WalkInv'
<1> DEFINE items == loc.file_vec.items
           f == items[loc.i]
           d == loc.dir_path
<1>0. /\ pc = "push" /\ loc \in Local /\ UNCHANGED <<record, lost>>
      /\ loc.i \in 1 .. Len(items) /\ items \in Seq(File) /\ Len(items) \in Nat
      /\ loc.i \in Nat /\ DOMAIN items = 1 .. Len(items)
      /\ loc.todo = {} /\ Lists(items, Contents[d])
      /\ \A j \in 1 .. loc.i - 1 : Walked(items[j], Known)
      /\ Popped = {d}
  <2>1. pc = "push" /\ UNCHANGED <<record, lost>> /\ loc.i <= Len(items) /\ loc \in Local
    BY Running DEF push_dir_path
  <2>2. loc.i \in 1 .. Len(items) + 1 /\ items \in Seq(File) /\ Len(items) \in Nat
    BY <2>1, LocalParts DEF IndInv, TypeOK
  <2>3. /\ loc.todo = {} /\ Lists(items, Contents[d] \ loc.todo)
        /\ \A j \in 1 .. loc.i - 1 : Walked(items[j], Known)
    BY <2>1 DEF WalkInv, Scanned
  <2>4. Contents[d] \ loc.todo = Contents[d]
    BY <2>3
  <2>5. QED
    BY <2>1, <2>2, <2>3, <2>4, PoppedAt
<1>1. f \in File /\ f.name \in Names
  <2>1. f \in File
    BY <1>0
  <2>2. QED
    BY <2>1 DEF File
<1>2. ASSUME loc' = [loc EXCEPT !.i = push_next(f)], pc' = pc
      PROVE  /\ loc'.file_vec = loc.file_vec /\ loc'.dir_path = d /\ loc'.dir = loc.dir
             /\ loc'.i = loc.i + 1 /\ loc'.todo = {}
             /\ Popped' = Popped /\ Pushed' = Pushed \cup {f.name}
             /\ 1 .. loc'.i - 1 = (1 .. loc.i - 1) \cup {loc.i}
  <2>1. /\ loc'.file_vec = loc.file_vec /\ loc'.dir_path = d /\ loc'.dir = loc.dir
        /\ loc'.i = loc.i + 1 /\ loc'.todo = {}
    BY <1>0, <1>2 DEF Local, push_next
  <2>2. 1 .. loc'.i - 1 = (1 .. loc.i - 1) \cup {loc.i}
    BY <1>0, <2>1
  <2>3. Pushed' = Pushed \cup {f.name}
    BY <2>1, <2>2 DEF Pushed
  <2>4. QED
    BY <2>1, <2>2, <2>3 DEF Popped
<1>3. CASE /\ f.type = "REG" \/ f.name \in TooLong
           /\ loc' = [loc EXCEPT !.i = push_next(f)] /\ UNCHANGED <<state, pc>>
  <2>1. Known' = Known /\ Popped' = Popped
    BY <1>0, <1>2, <1>3, SameSets
  <2>2. Walked(f, Known)
    BY <1>3 DEF Walked
  <2>3. Scanned'
    <3>1. \A j \in 1 .. loc'.i - 1 : Walked(loc'.file_vec.items[j], Known')
      BY <1>0, <1>2, <1>3, <2>1, <2>2
    <3>2. Contents[d] \ {} = Contents[d]
      OBVIOUS
    <3>3. QED
      BY <1>0, <1>2, <1>3, <3>1, <3>2 DEF Scanned
  <2>4. Traced'
    BY <1>0, <1>2, <1>3, TracedOn
  <2>5. QED
    BY <1>0, <1>3, <2>1, <2>3, <2>4, QuietStep
<1>4. CASE /\ f.type = "DIR" /\ f.name \notin TooLong
           /\ state' = [state EXCEPT !.path_vec = vector_push(@, f.name)]
           /\ loc' = [loc EXCEPT !.i = push_next(f)] /\ UNCHANGED pc
  <2>0. /\ state \in State /\ state # NULL /\ record = NULL
        /\ Usable(state.path_vec) /\ state.path_vec \in Vector(Names)
    BY <1>0, Running DEF WalkInv, Rooted
  <2>1. f.name \in Contents[d] /\ f.name \in Directories
    <3>1. loc.i \in DOMAIN items
      BY <1>0
    <3>2. f.name \in Contents[d] /\ Kind[f.name] = "DIR"
      BY <1>0, <1>4, <3>1 DEF Lists
    <3>3. QED
      BY <1>1, <3>2 DEF Directories
  \* The heart of it: the directory has not been seen before.
  <2>2. f.name \notin Known
    <3> SUFFICES ASSUME f.name \in Known PROVE FALSE
      OBVIOUS
    <3>1. d \in Directories /\ d \notin ToSet(RecordedPaths) /\ d \notin lost
      BY <1>0 DEF WalkInv, Apart, Seen, Known
    <3>2. f.name # Start
      BY <2>1, <3>1, TreeAssumption
    <3>3. PICK e \in Expanded :
              f.name \in Contents[e] /\ (e \in Popped => f.name \in Pushed)
      BY <1>0, <2>0, <3>2 DEF WalkInv, Traced
    <3>4. e \in Directories
      BY DEF WalkInv, Apart, Expanded, Known, Seen
    <3>5. e = d
      BY <2>1, <3>1, <3>3, <3>4, TreeAssumption
    <3>6. f.name \in Pushed
      BY <1>0, <3>3, <3>5
    <3>7. PICK j \in 1 .. loc.i - 1 : items[j].name = f.name
      BY <3>6 DEF Pushed
    <3>8. j \in DOMAIN items /\ loc.i \in DOMAIN items /\ j # loc.i
      BY <1>0
    <3>9. QED
      BY <1>0, <3>7, <3>8 DEF Lists
  <2>3. /\ state' # NULL /\ state'.dir_vec = state.dir_vec
        /\ state'.path_vec.items = Append(state.path_vec.items, f.name)
    <3> DEFINE v == vector_push(state.path_vec, f.name)
    <3>1. v \in Vector(Names) /\ Usable(v) /\ v.items = Append(state.path_vec.items, f.name)
      BY <1>1, <2>0, PushVector DEF Usable
    <3>2. state' = [state EXCEPT !.path_vec = v]
      BY <1>4, Zenon
    <3> HIDE DEF v
    <3>3. QED
      BY <2>0, <3>1, <3>2, PathVecChange
  <2>4. Recorded' = Recorded /\ Pending' = Append(Pending, f.name) /\ Pending \in Seq(Names)
    BY <1>0, <2>0, <2>3 DEF Recorded, Pending, Vector
  <2>5. RecordedPaths' = RecordedPaths
    BY <2>4 DEF RecordedPaths
  <2>6. IsInjective(Pending') /\ ToSet(Pending') = ToSet(Pending) \cup {f.name}
    <3>1. IsInjective(Pending) /\ f.name \notin ToSet(Pending)
      BY <2>2 DEF WalkInv, Apart, Known, Seen
    <3>2. QED
      BY <1>1, <2>4, <3>1, AppendedSet
  <2>7. /\ Popped' = Popped /\ Pushed' = Pushed \cup {f.name}
        /\ loc'.file_vec = loc.file_vec /\ loc'.dir_path = d /\ loc'.dir = loc.dir
        /\ loc'.i = loc.i + 1 /\ loc'.todo = {}
        /\ 1 .. loc'.i - 1 = (1 .. loc.i - 1) \cup {loc.i}
    BY <1>2, <1>4
  <2> DEFINE new == f.name
  <2> HIDE DEF new
  <2>8. /\ Seen' = Seen \cup {new} /\ Known' = Known \cup {new} /\ Expanded' = Expanded
    BY <1>0, <2>5, <2>6, <2>7 DEF Seen, Known, Expanded, new
  <2>9. Apart'
    <3>1. new \notin Seen /\ new \notin lost /\ new \in Directories
      BY <2>1, <2>2 DEF Known, new
    <3>2. ToSet(Pending') = ToSet(Pending) \cup {new}
      BY <2>6 DEF new
    <3>3. QED
      BY <1>0, <2>5, <2>6, <2>7, <2>8, <3>1, <3>2 DEF WalkInv, Apart, Seen
  <2>10. Rooted'
    BY <1>0, <2>0, <2>8 DEF WalkInv, Rooted
  <2>11. Traced'
    <3> SUFFICES ASSUME NEW n \in Known' \ {Start}
                 PROVE  \E e \in Expanded' : n \in Contents[e] /\ (e \in Popped' => n \in Pushed')
      BY DEF Traced
    <3>1. CASE n = f.name
      <4>1. d \in Expanded /\ n \in Contents[d] /\ n \in Pushed'
        BY <1>0, <2>1, <2>7, <3>1 DEF Expanded
      <4>2. QED
        BY <2>8, <4>1
    <3>2. CASE n \in Known
      <4>1. PICK e \in Expanded : n \in Contents[e] /\ (e \in Popped => n \in Pushed)
        BY <1>0, <2>0, <3>2 DEF WalkInv, Traced
      <4>2. QED
        BY <2>7, <2>8, <4>1
    <3>3. QED
      BY <2>8, <3>1, <3>2 DEF new
  <2>12. Scanned'
    <3>1. \A j \in 1 .. loc'.i - 1 : Walked(loc'.file_vec.items[j], Known')
      <4>1. Walked(f, Known')
        BY <2>8 DEF Walked, new
      <4>2. \A j \in 1 .. loc.i - 1 : Walked(items[j], Known')
        BY <1>0, <2>8 DEF Walked
      <4>3. QED
        BY <2>7, <4>1, <4>2
    <3>2. Contents[d] \ {} = Contents[d]
      OBVIOUS
    <3>3. QED
      BY <1>0, <1>4, <2>7, <3>1, <3>2 DEF Scanned
  <2>13. Closed'
    BY <2>4, <2>8, MoreIsComplete DEF WalkInv, Closed
  <2>14. QED
    BY <2>9, <2>10, <2>11, <2>12, <2>13 DEF WalkInv
<1>5. CASE pc' = "cleanup" /\ UNCHANGED <<state, loc>>
  BY <1>0, <1>5, CalmStep DEF Popped
<1>6. QED
  BY <1>3, <1>4, <1>5 DEF push_dir_path, cleanup_with

\* The directory that is made of the list is complete.
LEMMA DirInitWalks == ASSUME IndInv, WalkInv, step_dir_init PROVE WalkInv'
<1> DEFINE items == loc.file_vec.items
           d == [path |-> loc.dir_path, files |-> items]
<1>0. /\ pc = "push" /\ loc \in Local /\ UNCHANGED <<state, record, lost>>
      /\ items \in Seq(File) /\ Len(items) \in Nat /\ loc.i = Len(items) + 1
      /\ loc.dir_path \in Names /\ loc.dir_path # NULL /\ loc.dir = NULL
  BY LocalParts DEF step_dir_init, IndInv, TypeOK, StepShape
<1>1. CASE /\ pc' = "record"
           /\ loc' = [loc EXCEPT !.file_vec = ZeroVector, !.dir_path = NULL, !.dir = d]
  <2>1. d \in Dir /\ d.files = items /\ d.path = loc.dir_path /\ d # NULL
    <3>1. d \in Dir /\ d.files = items /\ d.path = loc.dir_path
      BY <1>0 DEF Dir
    <3>2. QED
      BY <3>1, NullAssumption
  <2> HIDE DEF d
  <2>2. loc'.dir_path = NULL /\ loc'.dir = d
    BY <1>0, <1>1 DEF Local
  <2>3. Popped' = Popped
    BY <1>0, <2>1, <2>2 DEF Popped
  <2>4. Known' = Known
    BY <1>0, <2>3, SameSets
  <2>5. Complete(d, Known)
    <3>1. /\ loc.todo = {} /\ Lists(items, Contents[loc.dir_path] \ loc.todo)
          /\ \A j \in 1 .. Len(items) : Walked(items[j], Known)
      BY <1>0 DEF WalkInv, Scanned
    <3>2. Contents[loc.dir_path] \ loc.todo = Contents[d.path] /\ DOMAIN items = 1 .. Len(items)
      BY <1>0, <2>1, <3>1
    <3>3. QED
      BY <2>1, <3>1, <3>2 DEF Complete
  <2>6. Scanned'
    BY <1>1, <2>2, <2>4, <2>5 DEF Scanned
  <2>7. Traced'
    BY <1>0, <1>1, <2>3, TracedOn
  <2>8. QED
    BY <1>0, <2>3, <2>6, <2>7, QuietStep
<1>2. CASE pc' = "cleanup" /\ UNCHANGED loc
  BY <1>0, <1>2, CalmStep DEF Popped
<1>3. QED
  BY <1>1, <1>2 DEF step_dir_init, cleanup_with

\* A recorded directory is no longer in hand.
LEMMA RecordWalks == ASSUME IndInv, WalkInv, step_record PROVE WalkInv'
<1>0. /\ pc = "record" /\ state \in State /\ state # NULL /\ Usable(state.dir_vec)
      /\ loc.dir \in Dir /\ UNCHANGED <<record, lost>> /\ record = NULL
      /\ Popped = {loc.dir.path} /\ Complete(loc.dir, Known)
      /\ state.dir_vec \in Vector(Dir)
  BY Running, LocalParts, PoppedAt
     DEF step_record, IndInv, StepShape, WalkInv, Rooted, Scanned
<1>1. CASE /\ pc' = "idle" /\ loc' = Locals
           /\ state' = [state EXCEPT !.dir_vec = vector_push(@, loc.dir)]
  <2> DEFINE D == state.dir_vec.items
             p == loc.dir.path
  <2>1. state' = [state EXCEPT !.dir_vec = vector_push(state.dir_vec, loc.dir)]
    BY <1>1, Zenon
  <2>2. /\ state' # NULL /\ state'.path_vec = state.path_vec
        /\ state'.dir_vec.items = Append(D, loc.dir)
    BY <1>0, <2>1, DirVecChange
  <2>3. Pending' = Pending /\ Recorded = D /\ Recorded' = Append(D, loc.dir) /\ D \in Seq(Dir)
    BY <1>0, <2>2 DEF Pending, Recorded, Vector
  <2>4. Popped' = {}
    BY <1>1, LocalsFacts DEF Popped
  <2>5. /\ Len(D) \in Nat /\ DOMAIN Recorded = 1 .. Len(D) /\ Recorded'[Len(D) + 1] = loc.dir
        /\ DOMAIN Recorded' = DOMAIN Recorded \cup {Len(D) + 1}
        /\ Len(D) + 1 \notin DOMAIN Recorded
        /\ \A k \in DOMAIN Recorded : Recorded'[k] = Recorded[k]
    BY <2>3
  <2> HIDE DEF D
  <2>6. /\ IsInjective(RecordedPaths) /\ p \notin ToSet(RecordedPaths)
        /\ \A k \in DOMAIN Recorded : Recorded[k].path # p
    BY <1>0 DEF WalkInv, Apart, RecordedPaths, ToSet
  <2>7. IsInjective(RecordedPaths')
    BY <2>5, <2>6 DEF RecordedPaths, IsInjective
  <2>8. ToSet(RecordedPaths') = ToSet(RecordedPaths) \cup {p}
    BY <2>5 DEF RecordedPaths, ToSet
  <2> HIDE DEF p
  <2>9. Seen' = Seen /\ Known' = Known /\ Expanded' = Expanded
    BY <1>0, <2>3, <2>4, <2>8 DEF Seen, Known, Expanded, p
  <2>10. Apart'
    <3>1. Popped = {p}
      BY <1>0 DEF p
    <3>2. QED
      BY <1>0, <2>3, <2>4, <2>7, <2>8, <2>9, <3>1 DEF WalkInv, Apart
  <2>11. Rooted'
    BY <1>0, <2>2, <2>9 DEF WalkInv, Rooted
  <2>12. Traced'
    BY <1>0, <2>4, <2>9 DEF WalkInv, Traced
  <2>13. Scanned'
    BY <1>1 DEF Scanned
  <2>14. Closed'
    BY <1>0, <2>5, <2>9 DEF WalkInv, Closed
  <2>15. QED
    BY <2>10, <2>11, <2>12, <2>13, <2>14 DEF WalkInv
<1>2. CASE pc' = "cleanup" /\ UNCHANGED <<state, loc>>
  BY <1>0, <1>2, CalmStep DEF Popped
<1>3. QED
  BY <1>1, <1>2 DEF step_record, cleanup_with

\* A directory whose step has failed is lost, and not in hand any more.
LEMMA CleanupWalks == ASSUME IndInv, WalkInv, step_cleanup PROVE WalkInv'
<1>0. /\ pc = "cleanup" /\ pc' = "idle" /\ loc' = Locals /\ UNCHANGED <<state, record>>
      /\ lost' = lost \cup Popped
  BY DEF step_cleanup, IndInv, StepShape
<1>1. Popped' = {}
  BY <1>0, LocalsFacts DEF Popped
<1>2. Recorded' = Recorded /\ Pending' = Pending
  BY <1>0 DEF Recorded, Pending
<1>3. RecordedPaths' = RecordedPaths
  BY <1>2 DEF RecordedPaths
<1>4. Known' = Known /\ Expanded' = Expanded
  BY <1>0, <1>1, <1>2, <1>3 DEF Known, Seen, Expanded
<1>5. Apart'
  BY <1>0, <1>1, <1>2, <1>3, <1>4 DEF WalkInv, Apart, Seen
<1>6. Rooted' /\ Scanned' /\ Closed'
  BY <1>0, <1>2, <1>4 DEF WalkInv, Rooted, Scanned, Closed
<1>7. Traced'
  BY <1>0, <1>1, <1>4 DEF WalkInv, Traced
<1>8. QED
  BY <1>5, <1>6, <1>7 DEF WalkInv

\* The client gives the walk or its record up.
LEMMA DropWalks ==
    ASSUME IndInv, WalkInv, pc = "idle", UNCHANGED <<loc, pc, lost>>,
           state' = NULL, record' = NULL
    PROVE  WalkInv'
<1>1. Recorded' = <<>> /\ Pending' = <<>>
  BY DEF Recorded, Pending
<1>2. RecordedPaths' = <<>>
  BY <1>1 DEF RecordedPaths
<1>3. /\ IsInjective(RecordedPaths') /\ ToSet(RecordedPaths') = {}
      /\ IsInjective(Pending') /\ ToSet(Pending') = {}
  BY <1>1, <1>2 DEF IsInjective, ToSet
<1>4. Popped' = {}
  BY PoppedAt DEF Popped
<1>5. Seen' = {} /\ Known' = lost
  BY <1>3, <1>4 DEF Seen, Known
<1>6. lost \subseteq Directories
  BY DEF WalkInv, Apart, Known
<1>7. Apart'
  BY <1>3, <1>4, <1>5, <1>6 DEF Apart
<1>8. Rooted' /\ Traced' /\ Scanned' /\ Closed'
  BY <1>1 DEF Rooted, Traced, Scanned, Closed
<1>9. QED
  BY <1>7, <1>8 DEF WalkInv

\* A record has the directories the walk had, and what was pending is gone with the walk.
LEMMA RecordInitWalks == ASSUME IndInv, WalkInv, jfs_fw_record_init PROVE WalkInv'
<1>0. /\ pc = "idle" /\ state # NULL /\ record = NULL /\ state' = NULL
      /\ record' = state.dir_vec.items /\ state.path_vec.items = <<>>
      /\ UNCHANGED <<loc, pc, lost>>
  BY DEF jfs_fw_record_init
<1>1. record' # NULL
  <2>1. state.dir_vec.items \in Seq(Dir)
    BY <1>0 DEF IndInv, TypeOK, State, Vector
  <2>2. QED
    BY <1>0, <2>1, NullAssumption
<1>2. Recorded' = Recorded /\ Pending' = Pending
  BY <1>0, <1>1 DEF Recorded, Pending
<1>3. RecordedPaths' = RecordedPaths
  BY <1>2 DEF RecordedPaths
<1>4. Popped' = Popped
  BY <1>0 DEF Popped
<1>5. Seen' = Seen /\ Known' = Known
  BY <1>0, <1>2, <1>3, <1>4 DEF Seen, Known
<1>6. Apart'
  BY <1>0, <1>2, <1>3, <1>4, <1>5 DEF WalkInv, Apart
<1>7. Rooted' /\ Traced' /\ Scanned' /\ Closed'
  BY <1>0, <1>2, <1>5 DEF WalkInv, Rooted, Traced, Scanned, Closed
<1>8. QED
  BY <1>6, <1>7 DEF WalkInv

\* At first there is no walk.
LEMMA WalkInit == Init => WalkInv
<1> SUFFICES ASSUME Init PROVE WalkInv
  OBVIOUS
<1>1. Recorded = <<>> /\ Pending = <<>>
  BY DEF Init, Recorded, Pending
<1>2. RecordedPaths = <<>>
  BY <1>1 DEF RecordedPaths
<1>3. /\ IsInjective(RecordedPaths) /\ ToSet(RecordedPaths) = {}
      /\ IsInjective(Pending) /\ ToSet(Pending) = {}
  BY <1>1, <1>2 DEF IsInjective, ToSet
<1>4. Popped = {}
  BY LocalsFacts DEF Init, Popped
<1>5. Seen = {} /\ Known = {}
  BY <1>3, <1>4 DEF Init, Seen, Known
<1>6. Apart
  BY <1>3, <1>4, <1>5 DEF Apart
<1>7. Rooted /\ Traced /\ Scanned /\ Closed
  BY <1>1 DEF Init, Rooted, Traced, Scanned, Closed
<1>8. QED
  BY <1>6, <1>7 DEF WalkInv

\* Every step keeps the invariant of the walk.
LEMMA WalkStep == IndInv /\ WalkInv /\ [Next]_vars => WalkInv'
<1> SUFFICES ASSUME IndInv, WalkInv, [Next]_vars PROVE WalkInv'
  OBVIOUS
<1>1. CASE step_empty \/ record_init_refused
  <2>1. UNCHANGED <<state, record, loc, lost>> /\ pc' = "idle"
    BY <1>1 DEF step_empty, record_init_refused
  <2>2. QED
    BY <2>1, CalmStep DEF Popped
<1>2. CASE Step
  BY <1>2, BeginWalks, OpendirWalks, DirentWalks, ScanEndWalks, PushPathWalks, DirInitWalks,
     RecordWalks, CleanupWalks DEF Step
<1>3. CASE jfs_fw_state_destroy
  <2>1. record = NULL
    BY <1>3 DEF jfs_fw_state_destroy, WalkInv, Rooted
  <2>2. QED
    BY <1>3, <2>1, DropWalks DEF jfs_fw_state_destroy
<1>4. CASE jfs_fw_record_free
  <2>1. state = NULL
    BY <1>4 DEF jfs_fw_record_free, WalkInv, Rooted
  <2>2. QED
    BY <1>4, <2>1, DropWalks DEF jfs_fw_record_free
<1>5. CASE UNCHANGED vars
  <2>1. UNCHANGED <<state, record, lost>> /\ Popped' = Popped /\ Pushed' = Pushed /\ pc' = pc
    BY <1>5 DEF vars, Popped, Pushed
  <2>2. Traced'
    BY <2>1, TracedOn
  <2>3. Known' = Known
    BY <2>1, SameSets
  <2>4. Scanned'
    BY <1>5, <2>3 DEF vars, WalkInv, Scanned
  <2>5. QED
    BY <2>1, <2>2, <2>4, QuietStep
<1>6. QED
  BY <1>1, <1>2, <1>3, <1>4, <1>5, CreateWalks, CreateFailsWalks, RecordInitWalks DEF Next

\* WalkInv holds at all times.
LEMMA WalkInvariance == Spec => []WalkInv
BY Invariance, WalkInit, WalkStep, PTL DEF Spec

\* No walk records, keeps or opens a directory twice, and none comes back whose step failed,
\* for every tree of directories and whatever links lead back up.
THEOREM NothingIsTwice == Spec => []NothingTwice
<1>1. WalkInv => NothingTwice
  <2> SUFFICES ASSUME WalkInv PROVE NothingTwice
    OBVIOUS
  <2>1. \A a, b \in 1 .. 4 : a # b => Places[a] \cap Places[b] = {}
    <3> SUFFICES ASSUME NEW a \in 1 .. 4, NEW b \in 1 .. 4, a # b
                 PROVE  Places[a] \cap Places[b] = {}
      OBVIOUS
    <3>1. /\ Places[1] = ToSet(RecordedPaths) /\ Places[2] = ToSet(Pending)
          /\ Places[3] = Popped /\ Places[4] = lost
      BY DEF Places
    <3>2. a \in {1, 2, 3, 4} /\ b \in {1, 2, 3, 4}
      OBVIOUS
    <3>3. QED
      BY <3>1, <3>2 DEF WalkInv, Apart, Seen
  <2>2. QED
    BY <2>1 DEF NothingTwice, WalkInv, Apart
<1>2. QED
  BY WalkInvariance, <1>1, PTL

\* A list without repetitions is as long as what it lists is large.
LEMMA ListedOnce ==
    ASSUME NEW files \in Seq(File), NEW S, Lists(files, S)
    PROVE  Len(files) = Cardinality({n \in S : Kind[n] \in {"REG", "DIR"}})
<1> DEFINE T == {n \in S : Kind[n] \in {"REG", "DIR"}}
           g == [j \in 1 .. Len(files) |-> files[j].name]
<1>1. Len(files) \in Nat /\ DOMAIN files = 1 .. Len(files)
  OBVIOUS
<1>2. T = {files[j].name : j \in 1 .. Len(files)}
  BY <1>1 DEF Lists
<1> HIDE DEF T
<1>3. g \in Bijection(1 .. Len(files), T)
  BY <1>1, <1>2 DEF Lists, Bijection, Injection, Surjection, IsInjective
<1>4. ExistsBijection(1 .. Len(files), T)
  BY <1>3 DEF ExistsBijection
<1>5. Cardinality(T) = Len(files)
  BY <1>1, <1>4, FS_CountingElements
<1>6. QED
  BY <1>5 DEF T

\* Every directory that jfs_fw_state_step records lists its files and directories once each,
\* and each directory below it whose path fits is recorded, pending, in hand, or was lost to
\* a step that failed.
THEOREM RecordsAreClosed == Spec => []RecordIsClosed
<1>1. IndInv /\ WalkInv => RecordIsClosed
  <2> SUFFICES ASSUME IndInv, WalkInv, state # NULL \/ record # NULL
               PROVE  /\ Start \in Seen \cup lost
                      /\ \A d \in ToSet(Recorded) :
                          /\ {f.name : f \in ToSet(d.files)} = Supported(d.path)
                          /\ Len(d.files) = Cardinality(Supported(d.path))
                          /\ \A f \in ToSet(d.files) :
                              f.type = "DIR" /\ f.name \notin TooLong => f.name \in Seen \cup lost
    BY DEF RecordIsClosed
  <2>1. Start \in Seen \cup lost
    BY DEF WalkInv, Rooted, Known
  <2>2. Recorded \in Seq(Dir)
    BY DEF Recorded, IndInv, TypeOK, State, Vector
  <2>3. ASSUME NEW d \in ToSet(Recorded)
        PROVE  /\ {f.name : f \in ToSet(d.files)} = Supported(d.path)
               /\ Len(d.files) = Cardinality(Supported(d.path))
               /\ \A f \in ToSet(d.files) :
                   f.type = "DIR" /\ f.name \notin TooLong => f.name \in Seen \cup lost
    <3>1. PICK k \in DOMAIN Recorded : d = Recorded[k]
      BY <2>3 DEF ToSet
    <3>2. d \in Dir /\ Complete(d, Known)
      BY <2>2, <3>1 DEF WalkInv, Closed
    <3>3. d.files \in Seq(File) /\ Lists(d.files, Contents[d.path])
      BY <3>2 DEF Dir, Complete
    <3>4. {f.name : f \in ToSet(d.files)} = Supported(d.path)
      BY <3>3 DEF ToSet, Lists, Supported
    <3>5. Len(d.files) = Cardinality(Supported(d.path))
      BY <3>3, ListedOnce DEF Supported
    <3>6. \A f \in ToSet(d.files) :
              f.type = "DIR" /\ f.name \notin TooLong => f.name \in Seen \cup lost
      BY <3>2 DEF Complete, Walked, ToSet, Known
    <3>7. QED
      BY <3>4, <3>5, <3>6
  <2>4. QED
    BY <2>1, <2>3
<1>2. QED
  BY Invariance, WalkInvariance, <1>1, PTL
=============================================================================
