----------------------------- MODULE FilePaths ------------------------------
(***************************************************************************)
(* The paths, names and path buffer of src/src/file_io.c: who owns which   *)
(* string, and whether the length kept beside a string is its length.      *)
(*                                                                         *)
(* A text is its length and the number of slashes it ends in, all that the *)
(* code looks at.  A client frees or hands on what a struct owns before it *)
(* is set again; it may free one twice, and compose or copy at any time.   *)
(***************************************************************************)
EXTENDS Integers, FiniteSets

CONSTANTS
    Paths,      \* the jfs_fio_path_t of a client
    Names,      \* its jfs_fio_name_t
    Blocks,     \* the memory malloc hands out
    Limit,      \* PATH_MAX
    NameLimit   \* NAME_MAX

\* Every name fits where a path does; malloc never hands out NULL.
ASSUME LimitAssumption == Limit \in Nat /\ NameLimit \in 0 .. Limit
ASSUME BlocksAssumption == 0 \notin Blocks

VARIABLES
    own,    \* the len and str of each path and name
    heap,   \* the text in every block that is allocated
    buf,    \* the path buffer: its len and the text in it
    err

vars == <<own, heap, buf, err>>

Structs == Paths \cup Names
NULL == 0
Cleared == [len |-> 0, str |-> NULL]
Text == {t \in [len : 0 .. Limit + 2, tail : 0 .. 2] : t.tail <= t.len}
Empty == [len |-> 0, tail |-> 0]

Init ==
    /\ own = [s \in Structs |-> Cleared] /\ heap = <<>>
    /\ buf = [len |-> 0, text |-> Empty] /\ err = "OK"

Fail(code) == err' = code /\ UNCHANGED <<own, heap, buf>>

\* malloc and strlcpy of a text into s.
Fill(s, text) ==
    \/ \E b \in Blocks \ DOMAIN heap :
        /\ heap' = [c \in DOMAIN heap \cup {b} |-> IF c = b THEN text ELSE heap[c]]
        /\ own' = [own EXCEPT ![s] = [len |-> text.len, str |-> b]]
        /\ err' = "OK" /\ UNCHANGED buf
    \/ Fail("SYS")

\* One trailing slash is dropped, but not the one the root is made of.
Trimmed(t) ==
    IF t.len > 1 /\ t.tail > 0 THEN [len |-> t.len - 1, tail |-> t.tail - 1] ELSE t

\* Mutant: the terminator is counted as room for a character.
PathTooLong_by_one(len) == len > Limit + 1

PathTooLong(len) == len > Limit

jfs_fio_path_init(s, text) ==
    /\ own[s] = Cleared
    /\ IF PathTooLong(Trimmed(text).len) THEN Fail("FIO_PATH_LEN") ELSE Fill(s, Trimmed(text))

jfs_fio_name_init(s, text) ==
    /\ own[s] = Cleared
    /\ IF text.len > NameLimit THEN Fail("FIO_NAME_LEN") ELSE Fill(s, text)

\* Mutant: what a freed struct held is not cleared.
after_free_kept(s) == own[s]

after_free(s) == Cleared

\* jfs_fio_path_free and jfs_fio_name_free: free(NULL) does nothing.
jfs_fio_free(s) ==
    /\ heap' = [b \in DOMAIN heap \ {own[s].str} |-> heap[b]]
    /\ own' = [own EXCEPT ![s] = after_free(s)]
    /\ err' = "OK" /\ UNCHANGED buf

\* Mutant: the struct that was handed on keeps its string.
after_transfer_kept(s) == own[s]

after_transfer(s) == Cleared

\* jfs_fio_path_transfer and jfs_fio_name_transfer.
jfs_fio_transfer(to, from) ==
    /\ to # from /\ own[to] = Cleared
    /\ own' = [own EXCEPT ![to] = own[from], ![from] = after_transfer(from)]
    /\ err' = "OK" /\ UNCHANGED <<heap, buf>>

\* strlcpy and snprintf into the PATH_MAX + 1 bytes of the buffer cut off the rest.
Stored(t) == IF t.len <= Limit THEN t ELSE [len |-> Limit, tail |-> 0]

jfs_fio_path_buf_copy(p) ==
    IF own[p].len = 0 THEN Fail("ARG")
    ELSE /\ buf' = [len |-> own[p].len, text |-> Stored(heap[own[p].str])]
         /\ err' = "OK" /\ UNCHANGED <<own, heap>>

Composed(p, n) ==
    LET path == heap[own[p].str]
        name == heap[own[n].str]
    IN  [len  |-> path.len + 1 + name.len,
         tail |-> IF name.len = 0 THEN path.tail + 1 ELSE 0]

\* Mutant: the slash between path and name is not counted.
new_len_no_slash(p, n) == own[p].len + own[n].len

new_len(p, n) == own[p].len + own[n].len + 1

\* A name that owns no string is not checked for; clients pass one that does.
jfs_fio_path_buf_compose(p, n) ==
    /\ own[n].str # NULL
    /\ IF own[p].len = 0 THEN Fail("ARG")
       ELSE IF new_len(p, n) > Limit THEN Fail("FIO_PATH_OVERFLOW")
       ELSE /\ buf' = [len |-> new_len(p, n), text |-> Stored(Composed(p, n))]
            /\ err' = "OK" /\ UNCHANGED <<own, heap>>

jfs_fio_path_buf_clear ==
    buf' = [len |-> 0, text |-> Empty] /\ UNCHANGED <<own, heap, err>>

Next ==
    \/ \E s \in Paths : \E t \in Text \cup {buf.text} : jfs_fio_path_init(s, t)
    \/ \E s \in Names, len \in 0 .. NameLimit + 1 :
            jfs_fio_name_init(s, [len |-> len, tail |-> 0])
    \/ \E s \in Structs : jfs_fio_free(s)
    \/ \E s, t \in Paths : jfs_fio_transfer(s, t)
    \/ \E s, t \in Names : jfs_fio_transfer(s, t)
    \/ \E p \in Paths : jfs_fio_path_buf_copy(p)
    \/ \E p \in Paths, n \in Names : jfs_fio_path_buf_compose(p, n)
    \/ jfs_fio_path_buf_clear

Spec == Init /\ [][Next]_vars

-----------------------------------------------------------------------------
(* Properties *)

\* Every variable stays within its type.
TypeOK ==
    /\ own \in [Structs -> [len : 0 .. Limit, str : Blocks \cup {NULL}]]
    /\ DOMAIN heap \subseteq Blocks
    /\ \A b \in DOMAIN heap : heap[b].len \in 0 .. Limit
    /\ buf.len \in 0 .. Limit
    /\ err \in {"OK", "SYS", "ARG", "FIO_PATH_LEN", "FIO_NAME_LEN", "FIO_PATH_OVERFLOW"}

\* Every string belongs to exactly one struct and every struct with a string has
\* one that is allocated: none is leaked, freed under another struct or freed
\* twice, in whatever order structs are filled, handed on and freed.
OneOwner ==
    /\ \A b \in DOMAIN heap : Cardinality({s \in Structs : own[s].str = b}) = 1
    /\ \A s \in Structs : own[s].str # NULL => own[s].str \in DOMAIN heap

\* The length kept in a struct and in the buffer is the length of the text there,
\* so that nothing was cut off and no later length check is off, up to PATH_MAX.
LengthIsTrue ==
    /\ \A s \in Structs : own[s].str \in DOMAIN heap => own[s].len = heap[own[s].str].len
    /\ buf.len = buf.text.len

\* The invariant of paths, names and the buffer: one owner for each string, and
\* lengths that are true.
PathInv == TypeOK /\ OneOwner /\ LengthIsTrue
=============================================================================
