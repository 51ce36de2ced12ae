-------------------------- MODULE FilePathsProofs --------------------------
(***************************************************************************)
(* For any number of paths, names and strings and any PATH_MAX: every      *)
(* string has one owner, and the lengths kept beside strings are true.     *)
(***************************************************************************)
EXTENDS FilePaths, FiniteSetTheorems, TLAPS

\* Every string has an owner, and no two structs own the same.
Owned ==
    /\ \A b \in DOMAIN heap : \E s \in Structs : own[s].str = b
    /\ \A s, t \in Structs : own[s].str = own[t].str /\ own[s].str # NULL => s = t
    /\ \A s \in Structs : own[s].str # NULL => own[s].str \in DOMAIN heap

\* A struct without a string has no length, and what is in the buffer fits.
EmptyIsEmpty ==
    /\ \A s \in Structs : own[s].str = NULL => own[s].len = 0
    /\ buf.text.len \in 0 .. Limit

IndInv == TypeOK /\ Owned /\ LengthIsTrue /\ EmptyIsEmpty

\* A set with one member whose members are equal counts one.
LEMMA OneMember ==
    ASSUME NEW S, NEW x \in S, \A y \in S : y = x
    PROVE  Cardinality(S) = 1
  <1>1. S = {x}
    OBVIOUS
  <1> QED BY <1>1, FS_Singleton

\* The inductive invariant gives the one the runs check.
LEMMA IndImpliesPathInv == IndInv => PathInv
  <1> SUFFICES ASSUME IndInv PROVE OneOwner
    BY DEF IndInv, PathInv
  <1>1. ASSUME NEW b \in DOMAIN heap
        PROVE  Cardinality({s \in Structs : own[s].str = b}) = 1
    <2>1. b # NULL
      BY BlocksAssumption DEF IndInv, TypeOK, NULL
    <2>2. PICK s \in Structs : own[s].str = b
      BY DEF IndInv, Owned
    <2>3. \A t \in {u \in Structs : own[u].str = b} : t = s
      BY <2>1, <2>2 DEF IndInv, Owned
    <2> QED BY <2>2, <2>3, OneMember
  <1> QED BY <1>1 DEF OneOwner, IndInv, Owned

\* A client starts with cleared structs and an empty buffer.
LEMMA InitInv == Init => IndInv
  BY LimitAssumption DEF Init, IndInv, TypeOK, Owned, LengthIsTrue, EmptyIsEmpty, Cleared, NULL, Empty

-----------------------------------------------------------------------------
\* A call that fails changes nothing but err.
LEMMA FailKeeps ==
    ASSUME IndInv, NEW code \in {"SYS", "ARG", "FIO_PATH_LEN", "FIO_NAME_LEN", "FIO_PATH_OVERFLOW"},
           Fail(code)
    PROVE  IndInv'
  BY DEF Fail, IndInv, TypeOK, Owned, LengthIsTrue, EmptyIsEmpty

\* A struct that owns nothing and is filled becomes the owner of a new string,
\* and of its length.
LEMMA FillKeeps ==
    ASSUME IndInv, NEW s \in Structs, own[s] = Cleared,
           NEW text, text.len \in 0 .. Limit, Fill(s, text)
    PROVE  IndInv'
  <1> USE LimitAssumption, BlocksAssumption
  <1>1. CASE Fail("SYS")
    BY <1>1, FailKeeps
  <1>2. ASSUME NEW b \in Blocks \ DOMAIN heap,
               heap' = [c \in DOMAIN heap \cup {b} |-> IF c = b THEN text ELSE heap[c]],
               own' = [own EXCEPT ![s] = [len |-> text.len, str |-> b]],
               err' = "OK", UNCHANGED buf
        PROVE  IndInv'
    <2>1. /\ DOMAIN heap' = DOMAIN heap \cup {b} /\ heap'[b] = text
          /\ \A c \in DOMAIN heap : heap'[c] = heap[c]
      BY <1>2
    <2>2. /\ own'[s].len = text.len /\ own'[s].str = b
          /\ \A t \in Structs \ {s} : own'[t] = own[t]
      BY <1>2 DEF IndInv, TypeOK
    <2>3. b # NULL /\ own[s].str = NULL
      BY DEF NULL, Cleared
    <2>4. TypeOK'
      BY <1>2, <2>1 DEF IndInv, TypeOK
    <2>5. \A t \in Structs \ {s} : own[t].str # b
      BY <1>2, <2>3 DEF IndInv, Owned
    <2>6. Owned'
      <3>1. \A c \in DOMAIN heap' : \E t \in Structs : own'[t].str = c
        <4>1. \A c \in DOMAIN heap : \E t \in Structs \ {s} : own[t].str = c
          <5>1. \A c \in DOMAIN heap : c # NULL
            BY DEF IndInv, TypeOK, NULL
          <5> QED BY <2>3, <5>1 DEF IndInv, Owned
        <4> QED BY <2>1, <2>2, <4>1
      <3>2. \A t, u \in Structs : own'[t].str = own'[u].str /\ own'[t].str # NULL => t = u
        BY <2>2, <2>5 DEF IndInv, Owned
      <3>3. \A t \in Structs : own'[t].str # NULL => own'[t].str \in DOMAIN heap'
        BY <2>1, <2>2 DEF IndInv, Owned
      <3> QED BY <3>1, <3>2, <3>3 DEF Owned
    <2>7. LengthIsTrue'
      <3>1. \A t \in Structs \ {s} : own'[t].str \in DOMAIN heap' => own[t].str \in DOMAIN heap
        BY <2>1, <2>2, <2>5
      <3>2. \A t \in Structs : own'[t].str \in DOMAIN heap' => own'[t].len = heap'[own'[t].str].len
        BY <2>1, <2>2, <3>1 DEF IndInv, LengthIsTrue
      <3> QED BY <1>2, <3>2 DEF IndInv, LengthIsTrue
    <2>8. EmptyIsEmpty'
      BY <1>2, <2>2, <2>3 DEF IndInv, EmptyIsEmpty
    <2> QED BY <2>4, <2>6, <2>7, <2>8 DEF IndInv
  <1> QED BY <1>1, <1>2 DEF Fill

\* A path keeps the trimmed text when it is short enough, a name its text.
LEMMA InitCalls ==
    ASSUME IndInv, NEW s \in Structs, NEW t, t.len \in Nat,
           jfs_fio_path_init(s, t) \/ jfs_fio_name_init(s, t)
    PROVE  IndInv'
  <1> USE LimitAssumption
  <1>1. CASE jfs_fio_path_init(s, t)
    <2>1. CASE PathTooLong(Trimmed(t).len)
      BY <1>1, <2>1, FailKeeps DEF jfs_fio_path_init
    <2>2. CASE ~PathTooLong(Trimmed(t).len)
      <3>1. Trimmed(t).len \in 0 .. Limit
        BY <2>2 DEF Trimmed, PathTooLong
      <3> QED BY <1>1, <2>2, <3>1, FillKeeps DEF jfs_fio_path_init
    <2> QED BY <2>1, <2>2
  <1>2. CASE jfs_fio_name_init(s, t)
    <2>1. CASE t.len > NameLimit
      BY <1>2, <2>1, FailKeeps DEF jfs_fio_name_init
    <2>2. CASE ~(t.len > NameLimit)
      BY <1>2, <2>2, FillKeeps DEF jfs_fio_name_init
    <2> QED BY <2>1, <2>2
  <1> QED BY <1>1, <1>2

\* Freeing takes the string and its only owner away; a cleared struct has none.
LEMMA FreeKeeps ==
    ASSUME IndInv, NEW s \in Structs, jfs_fio_free(s)
    PROVE  IndInv'
  <1> USE LimitAssumption, BlocksAssumption
  <1> DEFINE b == own[s].str
  <1>1. /\ DOMAIN heap' = DOMAIN heap \ {b}
        /\ \A c \in DOMAIN heap' : heap'[c] = heap[c]
    BY DEF jfs_fio_free
  <1>2. /\ own'[s] = Cleared /\ \A t \in Structs \ {s} : own'[t] = own[t]
        /\ err' = "OK" /\ buf' = buf
    BY DEF jfs_fio_free, after_free, IndInv, TypeOK
  <1>3. Cleared.str = NULL /\ Cleared.len = 0 /\ Cleared \in [len : 0 .. Limit, str : Blocks \cup {NULL}]
    BY DEF Cleared
  <1>4. TypeOK'
    <2>1. own' \in [Structs -> [len : 0 .. Limit, str : Blocks \cup {NULL}]]
      BY <1>3 DEF jfs_fio_free, after_free, IndInv, TypeOK
    <2> QED BY <1>1, <1>2, <2>1 DEF IndInv, TypeOK
  <1>5. \A c \in DOMAIN heap : c # NULL
    BY DEF IndInv, TypeOK, NULL
  <1>6. \A t \in Structs \ {s} : own[t].str # NULL => own[t].str \in DOMAIN heap /\ own[t].str # b
    BY DEF IndInv, Owned
  <1> HIDE DEF b
  <1>7. Owned'
    <2>1. \A c \in DOMAIN heap' : \E t \in Structs : own'[t].str = c
      <3>1. \A c \in DOMAIN heap' : \E t \in Structs \ {s} : own[t].str = c
        BY <1>1 DEF IndInv, Owned, b
      <3> QED BY <1>2, <3>1
    <2>2. \A t, u \in Structs : own'[t].str = own'[u].str /\ own'[t].str # NULL => t = u
      BY <1>2, <1>3 DEF IndInv, Owned
    <2>3. \A t \in Structs : own'[t].str # NULL => own'[t].str \in DOMAIN heap'
      BY <1>1, <1>2, <1>3, <1>6
    <2> QED BY <2>1, <2>2, <2>3 DEF Owned
  <1>8. LengthIsTrue'
    <2>1. \A t \in Structs : own'[t].str \in DOMAIN heap' => t # s /\ own[t].str \in DOMAIN heap
      BY <1>1, <1>2, <1>3, <1>5
    <2> QED BY <1>1, <1>2, <2>1 DEF IndInv, LengthIsTrue
  <1>9. EmptyIsEmpty'
    BY <1>2, <1>3 DEF IndInv, EmptyIsEmpty
  <1> QED BY <1>4, <1>7, <1>8, <1>9 DEF IndInv

\* Handing a string on renames its owner.
LEMMA TransferKeeps ==
    ASSUME IndInv, NEW to \in Structs, NEW from \in Structs, jfs_fio_transfer(to, from)
    PROVE  IndInv'
  <1>1. /\ to # from /\ own[to] = Cleared
        /\ own'[to] = own[from] /\ own'[from] = Cleared
        /\ \A t \in Structs \ {to, from} : own'[t] = own[t]
        /\ heap' = heap /\ buf' = buf /\ err' = "OK"
    BY DEF jfs_fio_transfer, after_transfer, IndInv, TypeOK
  <1>2. Cleared.str = NULL /\ Cleared.len = 0 /\ Cleared \in [len : 0 .. Limit, str : Blocks \cup {NULL}]
    BY LimitAssumption DEF Cleared
  <1>3. TypeOK'
    <2>1. own' \in [Structs -> [len : 0 .. Limit, str : Blocks \cup {NULL}]]
      BY <1>2 DEF jfs_fio_transfer, after_transfer, IndInv, TypeOK
    <2> QED BY <1>1, <2>1 DEF IndInv, TypeOK
  <1>4. \A c \in DOMAIN heap : c # NULL
    BY BlocksAssumption DEF IndInv, TypeOK, NULL
  <1>5. Owned'
    <2>1. \A c \in DOMAIN heap : \E t \in Structs : own'[t].str = c
      <3> SUFFICES ASSUME NEW c \in DOMAIN heap PROVE \E t \in Structs : own'[t].str = c
        OBVIOUS
      <3>1. PICK t \in Structs : own[t].str = c
        BY DEF IndInv, Owned
      <3>2. t # to
        BY <1>1, <1>2, <1>4, <3>1
      <3> QED BY <1>1, <3>1, <3>2
    <2>2. \A t, u \in Structs : own'[t].str = own'[u].str /\ own'[t].str # NULL => t = u
      BY <1>1, <1>2 DEF IndInv, Owned
    <2>3. \A t \in Structs : own'[t].str # NULL => own'[t].str \in DOMAIN heap
      BY <1>1, <1>2 DEF IndInv, Owned
    <2> QED BY <1>1, <2>1, <2>2, <2>3 DEF Owned
  <1>6. LengthIsTrue'
    BY <1>1, <1>2, <1>4 DEF IndInv, LengthIsTrue
  <1>7. EmptyIsEmpty'
    BY <1>1, <1>2 DEF IndInv, EmptyIsEmpty
  <1> QED BY <1>3, <1>5, <1>6, <1>7 DEF IndInv

\* The buffer gets a text of the length it keeps, when the text fits.
LEMMA BufferKeeps ==
    ASSUME IndInv, NEW len \in 0 .. Limit, NEW text, text.len = len,
           buf' = [len |-> len, text |-> Stored(text)], UNCHANGED <<own, heap>>,
           err' \in {"OK", err}
    PROVE  IndInv'
  <1>1. buf'.len = len /\ buf'.text.len = len
    BY LimitAssumption DEF Stored
  <1> QED BY <1>1 DEF IndInv, TypeOK, Owned, LengthIsTrue, EmptyIsEmpty

\* Copying a path into the buffer, and a path and a name.
LEMMA BufferSteps ==
    ASSUME IndInv, NEW p \in Structs, NEW n \in Structs,
           jfs_fio_path_buf_copy(p) \/ jfs_fio_path_buf_compose(p, n)
    PROVE  IndInv'
  <1> USE LimitAssumption
  <1>0. \A s \in Structs : own[s].len \in 0 .. Limit
    BY DEF IndInv, TypeOK
  <1>1. \A s \in Structs : own[s].str # NULL => heap[own[s].str].len = own[s].len
    BY DEF IndInv, Owned, LengthIsTrue
  <1>2. \A s \in Structs : own[s].len # 0 => own[s].str # NULL
    BY DEF IndInv, EmptyIsEmpty
  <1>3. CASE jfs_fio_path_buf_copy(p)
    <2>1. CASE own[p].len = 0
      BY <1>3, <2>1, FailKeeps DEF jfs_fio_path_buf_copy
    <2>2. CASE own[p].len # 0
      BY <1>0, <1>1, <1>2, <1>3, <2>2, BufferKeeps DEF jfs_fio_path_buf_copy
    <2> QED BY <2>1, <2>2
  <1>4. CASE jfs_fio_path_buf_compose(p, n)
    <2>1. CASE own[p].len = 0
      BY <1>4, <2>1, FailKeeps DEF jfs_fio_path_buf_compose
    <2>2. CASE own[p].len # 0 /\ new_len(p, n) > Limit
      BY <1>4, <2>2, FailKeeps DEF jfs_fio_path_buf_compose
    <2>3. CASE own[p].len # 0 /\ ~(new_len(p, n) > Limit)
      <3>1. new_len(p, n) \in 0 .. Limit
        BY <1>0, <2>3 DEF new_len
      <3>2. Composed(p, n).len = new_len(p, n)
        BY <1>0, <1>1, <1>2, <1>4, <2>3 DEF Composed, new_len, jfs_fio_path_buf_compose
      <3>3. /\ buf' = [len |-> new_len(p, n), text |-> Stored(Composed(p, n))]
            /\ UNCHANGED <<own, heap>> /\ err' = "OK"
        BY <1>4, <2>3 DEF jfs_fio_path_buf_compose
      <3> QED BY <3>1, <3>2, <3>3, BufferKeeps
    <2> QED BY <2>1, <2>2, <2>3
  <1> QED BY <1>3, <1>4

-----------------------------------------------------------------------------
(* The theorem *)

\* No call breaks the invariant.
LEMMA InductiveStep == IndInv /\ [Next]_vars => IndInv'
  <1> SUFFICES ASSUME IndInv, [Next]_vars PROVE IndInv'
    OBVIOUS
  <1>0. Paths \subseteq Structs /\ Names \subseteq Structs
    BY DEF Structs
  <1>1. ASSUME NEW s \in Paths, NEW t \in Text \cup {buf.text}, jfs_fio_path_init(s, t) PROVE IndInv'
    <2>1. t.len \in Nat
      BY LimitAssumption DEF Text, IndInv, EmptyIsEmpty
    <2> QED BY <1>0, <1>1, <2>1, InitCalls
  <1>2. ASSUME NEW s \in Names, NEW len \in 0 .. NameLimit + 1,
               jfs_fio_name_init(s, [len |-> len, tail |-> 0])
        PROVE  IndInv'
    <2> DEFINE t == [len |-> len, tail |-> 0]
    <2>1. t.len \in Nat
      BY LimitAssumption
    <2> HIDE DEF t
    <2>2. jfs_fio_name_init(s, t)
      BY <1>2 DEF t
    <2> QED BY <1>0, <2>1, <2>2, InitCalls
  <1>3. ASSUME NEW s \in Structs, jfs_fio_free(s) PROVE IndInv'
    BY <1>3, FreeKeeps
  <1>4. ASSUME NEW s \in Structs, NEW t \in Structs, jfs_fio_transfer(s, t) PROVE IndInv'
    BY <1>4, TransferKeeps
  <1>5. ASSUME NEW p \in Structs, jfs_fio_path_buf_copy(p) PROVE IndInv'
    BY <1>5, BufferSteps
  <1>6. ASSUME NEW p \in Structs, NEW n \in Structs, jfs_fio_path_buf_compose(p, n) PROVE IndInv'
    BY <1>6, BufferSteps
  <1>7. CASE jfs_fio_path_buf_clear
    BY <1>7, LimitAssumption
       DEF jfs_fio_path_buf_clear, Empty, IndInv, TypeOK, Owned, LengthIsTrue, EmptyIsEmpty
  <1>8. CASE UNCHANGED vars
    BY <1>8 DEF vars, IndInv, TypeOK, Owned, LengthIsTrue, EmptyIsEmpty
  <1> QED BY <1>0, <1>1, <1>2, <1>3, <1>4, <1>5, <1>6, <1>7, <1>8 DEF Next

\* In whatever order a client fills, hands on, frees, copies and composes paths
\* and names, whenever malloc fails: every string has exactly one owner, and the
\* length kept in a struct and in the buffer is the length of what is there.
THEOREM PathsAreSound == Spec => []PathInv
  BY InitInv, InductiveStep, IndImpliesPathInv, PTL DEF Spec
=============================================================================
