----------------------------- MODULE Transfer -----------------------------
(***************************************************************************)
(* The four loops that move a whole buffer through a file descriptor:      *)
(* jfs_fio_write and jfs_fio_read of src/src/file_io.c, and                *)
(* jcl_ns_socket_send and jcl_ns_socket_recv of src/src/net_socket.c, with *)
(* the wrappers of src/src/error.c they call.                              *)
(*                                                                         *)
(* Bytes are known by their place in the caller's buffer: stream is the    *)
(* sequence of places whose bytes went through the descriptor, in the      *)
(* order in which they did.  Both directions read it the same way: byte k  *)
(* of the stream was taken from, or stored at, place stream[k].            *)
(***************************************************************************)
EXTENDS Integers, Sequences

CONSTANTS
    MaxSize,        \* bound on the buffer
    MaxInterrupts,  \* bound on the signals that arrive during a call
    MaxStream       \* bound on the bytes the descriptor lets through in a call

ASSUME BoundsAssumption ==
    MaxSize \in Nat /\ MaxInterrupts \in Nat /\ MaxStream \in Nat /\ MaxStream >= MaxSize

VARIABLES
    fn,         \* the function called
    size,       \* the size of the buffer
    total,      \* total_written, total_read, total_sent, total_received
    err,        \* *err
    stream,     \* the places whose bytes have passed
    pc,         \* "idle", "loop" or "done": the call has returned
    signals     \* how often the system call was interrupted

vars == <<fn, size, total, err, stream, pc, signals>>

FileFns   == {"jfs_fio_write", "jfs_fio_read"}
SocketFns == {"jcl_ns_socket_send", "jcl_ns_socket_recv"}
ReadFns   == {"jfs_fio_read", "jcl_ns_socket_recv"}

\* The codes the wrapper of each function makes of errno, EINTR apart.
WrapperErrors(f) ==
    {"AGAIN", "SYS"}
    \cup {e \in {"PIPE"} : f \in {"jfs_fio_write", "jcl_ns_socket_send"}}
    \cup {e \in {"CONNECTION_RESET"} : f = "jcl_ns_socket_send"}

EndCode(f) == IF f = "jfs_fio_read" THEN "FIO_FILE_END" ELSE "NS_CONNECTION_CLOSE"

Init ==
    /\ fn \in FileFns \cup SocketFns
    /\ size = 0 /\ total = 0 /\ err = "OK" /\ stream = <<>> /\ pc = "idle" /\ signals = 0

\* Callers pass an err that is JCL_OK.
Call(f, n) ==
    /\ pc \in {"idle", "done"}
    /\ fn' = f /\ size' = n /\ total' = 0
    /\ err' = "OK" /\ stream' = <<>> /\ signals' = 0
    /\ pc' = "loop"

-----------------------------------------------------------------------------
(* One iteration of the loop *)

Looping == pc = "loop" /\ total < size

\* Mutants: every call starts at the front of the buffer, or one byte late.
passed_from_front(n) == [k \in 1 .. n |-> k - 1]
passed_late(n) == [k \in 1 .. n |-> total + k]

\* The places a system call that lets n bytes through begins at: buf + total.
passed(n) == [k \in 1 .. n |-> total + k - 1]

\* Whether the loop looks at the result of a system call that succeeded: the
\* wrappers never set err back to JCL_OK, so once a file loop has seen INTER
\* it takes every later call for an interrupted one.
counts == err = "OK"

\* The system call lets n bytes through.
transfer(n) ==
    /\ Looping /\ Len(stream) + n <= MaxStream
    /\ stream' = stream \o passed(n)
    /\ total' = IF counts THEN total + n ELSE total
    /\ UNCHANGED <<fn, size, err, pc, signals>>

\* The system call reports the end of the file or of the connection.
end_of_stream ==
    /\ Looping /\ fn \in ReadFns /\ counts
    /\ err' = EndCode(fn)
    /\ pc' = "done"
    /\ UNCHANGED <<fn, size, total, stream, signals>>

\* Mutant: nobody resets err.
interrupted_err_kept == "INTER"

\* err once the loop has handled an interrupted call: only the sockets reset it.
interrupted_err == IF fn \in SocketFns THEN "OK" ELSE "INTER"

interrupted ==
    /\ Looping /\ signals < MaxInterrupts
    /\ err' = interrupted_err
    /\ signals' = signals + 1
    /\ UNCHANGED <<fn, size, total, stream, pc>>

\* Mutant: an error ends the loop as success does.
failed_silently ==
    /\ Looping
    /\ pc' = "done"
    /\ UNCHANGED <<fn, size, total, err, stream, signals>>

failed ==
    /\ Looping
    /\ err' \in WrapperErrors(fn)
    /\ pc' = "done"
    /\ UNCHANGED <<fn, size, total, stream, signals>>

finished ==
    /\ pc = "loop" /\ total >= size
    /\ pc' = "done"
    /\ UNCHANGED <<fn, size, total, err, stream, signals>>

Next ==
    \/ \E f \in FileFns \cup SocketFns, n \in 0 .. MaxSize : Call(f, n)
    \/ \E n \in 1 .. size - total : transfer(n)
    \/ end_of_stream \/ interrupted \/ failed \/ finished

\* The kernel goes on: unless it fails the call or is interrupted, it lets bytes
\* through or reports the end.
Progress == (\E n \in 1 .. size - total : transfer(n)) \/ end_of_stream \/ finished

Spec == Init /\ [][Next]_vars /\ WF_vars(Progress)

-----------------------------------------------------------------------------
(* Properties *)

Codes == {"OK", "INTER", "AGAIN", "SYS", "PIPE", "CONNECTION_RESET", "FIO_FILE_END",
          "NS_CONNECTION_CLOSE"}

\* Every variable stays within its type: no place outside the buffer is touched
\* and no more is counted than was asked for.
TypeOK ==
    /\ fn \in FileFns \cup SocketFns
    /\ size \in 0 .. MaxSize
    /\ total \in 0 .. size
    /\ err \in Codes
    /\ stream \in Seq(0 .. MaxSize - 1)
    /\ pc \in {"idle", "loop", "done"}
    /\ signals \in 0 .. MaxInterrupts

InOrder(n) == [k \in 1 .. n |-> k - 1]

\* What a loop has counted is the front of what passed, in order, however the
\* system calls split the buffer and whatever interrupts them.
CountedIsPrefix ==
    /\ total <= Len(stream)
    /\ \A k \in 1 .. total : stream[k] = k - 1

\* The socket loops count every byte exactly once, also when a call returns in
\* the middle with an error, and the file loops do unless a signal interrupts
\* them: from then on jfs_fio_write and jfs_fio_read move bytes they never count.
CountIsExact == fn \in SocketFns \/ signals = 0 => stream = InOrder(total)

\* A call that returns with JCL_OK has moved the whole buffer once, and nothing
\* twice.
OkIsComplete == pc = "done" /\ err = "OK" => total = size /\ stream = InOrder(size)

\* Every call returns if the kernel goes on, but for a file loop that has been
\* interrupted: it cannot leave before another error.
EveryCallReturns == pc = "loop" ~> pc = "done" \/ (fn \in FileFns /\ signals > 0)
=============================================================================
