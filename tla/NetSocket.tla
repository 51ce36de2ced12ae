----------------------------- MODULE NetSocket -----------------------------
(***************************************************************************)
(* The life of the sockets of src/src/net_socket.c and of the descriptors  *)
(* behind them: create, open, close, destroy, shutdown, set_ip,            *)
(* set_hostname, bind, listen, accept and connect.  Sending and receiving  *)
(* are in Transfer.                                                        *)
(*                                                                         *)
(* Every socket has one caller, callers run in parallel, and so does the   *)
(* rest of the process, which opens and closes descriptors too.  A call is *)
(* a step for each system call and one for the code behind it.  The kernel *)
(* is Linux: a descriptor is gone whatever close answers, connect goes on  *)
(* in the background when a signal interrupts it and joins that attempt    *)
(* when it is called again, and dissolves the association when the address *)
(* was never set.                                                          *)
(*                                                                         *)
(* The codes of a failure are one code, ERR, apart from JCL_ERR_INTER,     *)
(* which the retries consume and no caller sees.                           *)
(***************************************************************************)
EXTENDS Integers, FiniteSets

CONSTANTS
    Socks,          \* the jcl_ns_socket_t a process may hold
    Fds,            \* the descriptors the kernel hands out
    MaxSignals      \* bound on the calls a signal interrupts

ASSUME FdsAssumption     == Fds \subseteq Nat
ASSUME SignalsAssumption == MaxSignals \in Nat

VARIABLES
    sock,       \* of each socket, whether it is allocated, fd, and whether addr is set
    pc,         \* where the call of its caller is
    new,        \* the descriptor or socket that call is about to hand out
    ret,        \* *err of that call, and then of the last one
    kernel,     \* what every descriptor is
    infos,      \* the sockets whose caller holds an addrinfo list
    signals

vars == <<sock, pc, new, ret, kernel, infos, signals>>

Unset == -1
NoSock == [alive |-> FALSE, fd |-> Unset, addr |-> FALSE]

Idle(s)   == pc[s] = "idle" /\ sock[s].alive
Goto(s, l) == pc' = [pc EXCEPT ![s] = l]
Err(s, e) == ret' = [ret EXCEPT ![s] = e]
Return(s, e) == Goto(s, "idle") /\ Err(s, e)

\* The state of the descriptor a socket holds, "closed" (EBADF) for -1.
Of(s) == IF sock[s].fd = Unset THEN "closed" ELSE kernel[sock[s].fd]

KernelSets(f, state) == kernel' = [kernel EXCEPT ![f] = state]
Fresh == {f \in Fds : kernel[f] = "closed"}

Init ==
    /\ sock = [s \in Socks |-> NoSock]
    /\ pc = [s \in Socks |-> "idle"]
    /\ new = [s \in Socks |-> Unset]
    /\ ret = [s \in Socks |-> "OK"]
    /\ kernel \in [Fds -> {"closed", "foreign"}]
    /\ infos = {} /\ signals = 0

-----------------------------------------------------------------------------
(* create, open, close, destroy *)

jcl_ns_socket_create(s) ==
    /\ pc[s] = "idle" /\ ~sock[s].alive
    /\ \/ /\ sock' = [sock EXCEPT ![s] = [NoSock EXCEPT !.alive = TRUE]]
          /\ Err(s, "OK")
       \/ Err(s, "ERR") /\ UNCHANGED sock
    /\ UNCHANGED <<pc, new, kernel, infos, signals>>

jcl_ns_socket_open(s) ==
    /\ Idle(s)
    /\ \/ \E f \in Fresh :
            /\ KernelSets(f, "fresh")
            /\ new' = [new EXCEPT ![s] = f]
            /\ Goto(s, "opened") /\ Err(s, "OK")
       \/ Return(s, "ERR") /\ UNCHANGED <<new, kernel>>
    /\ UNCHANGED <<sock, infos, signals>>

open_assign(s) ==
    /\ pc[s] = "opened"
    /\ sock' = [sock EXCEPT ![s].fd = new[s]]
    /\ new' = [new EXCEPT ![s] = Unset]
    /\ Goto(s, "idle")
    /\ UNCHANGED <<ret, kernel, infos, signals>>

\* The guard is line 31: a socket without a descriptor is left alone.
jcl_ns_socket_close(s) ==
    /\ Idle(s) /\ sock[s].fd # Unset
    /\ KernelSets(sock[s].fd, "closed")
    /\ Goto(s, "closed")
    /\ \E e \in {"OK", "ERR"} : Err(s, e)
    /\ UNCHANGED <<sock, new, infos, signals>>

\* Mutant: a close that fails keeps the descriptor.
close_assign_on_success(s) ==
    /\ pc[s] = "closed"
    /\ sock' = IF ret[s] = "OK" THEN [sock EXCEPT ![s].fd = Unset] ELSE sock
    /\ Goto(s, "idle")
    /\ UNCHANGED <<new, ret, kernel, infos, signals>>

\* The descriptor is forgotten whatever close has answered.
close_assign(s) ==
    /\ pc[s] = "closed"
    /\ sock' = [sock EXCEPT ![s].fd = Unset]
    /\ Goto(s, "idle")
    /\ UNCHANGED <<new, ret, kernel, infos, signals>>

jcl_ns_socket_destroy(s) ==
    /\ Idle(s)
    /\ IF sock[s].fd # Unset THEN KernelSets(sock[s].fd, "closed") ELSE UNCHANGED kernel
    /\ Goto(s, "destroyed")
    /\ UNCHANGED <<sock, new, ret, infos, signals>>

destroy_free(s) ==
    /\ pc[s] = "destroyed"
    /\ sock' = [sock EXCEPT ![s] = NoSock]
    /\ Return(s, "OK")
    /\ UNCHANGED <<new, kernel, infos, signals>>

-----------------------------------------------------------------------------
(* The address *)

\* The port or the text of the address may be refused.
jcl_ns_socket_set_ip(s) ==
    /\ Idle(s)
    /\ \/ sock' = [sock EXCEPT ![s].addr = TRUE] /\ Err(s, "OK")
       \/ Err(s, "ERR") /\ UNCHANGED sock
    /\ UNCHANGED <<pc, new, kernel, infos, signals>>

jcl_ns_socket_set_hostname(s) ==
    /\ Idle(s)
    /\ \/ /\ infos' = infos \cup {s}
          /\ Goto(s, "resolved") /\ Err(s, "OK")
       \/ Err(s, "ERR") /\ UNCHANGED <<pc, infos>>
    /\ UNCHANGED <<sock, new, kernel, signals>>

\* Mutant: the list is not freed when its answer is refused.
set_hostname_copy_keeps(s) ==
    /\ pc[s] = "resolved"
    /\ \/ /\ infos' = infos \ {s}
          /\ sock' = [sock EXCEPT ![s].addr = TRUE] /\ Return(s, "OK")
       \/ Return(s, "ERR") /\ UNCHANGED <<sock, infos>>
    /\ UNCHANGED <<new, kernel, signals>>

\* The first answer is copied, unless it is no IPv4 address, and the list freed.
set_hostname_copy(s) ==
    /\ pc[s] = "resolved"
    /\ infos' = infos \ {s}
    /\ \/ sock' = [sock EXCEPT ![s].addr = TRUE] /\ Return(s, "OK")
       \/ Return(s, "ERR") /\ UNCHANGED sock
    /\ UNCHANGED <<new, kernel, signals>>

-----------------------------------------------------------------------------
(* shutdown, bind, listen: one system call that succeeds in certain states *)

SystemCall(s, from, to) ==
    /\ Idle(s)
    /\ \/ /\ Of(s) \in from
          /\ KernelSets(sock[s].fd, to) /\ Err(s, "OK")
       \/ Err(s, "ERR") /\ UNCHANGED kernel
    /\ UNCHANGED <<sock, pc, new, infos, signals>>

jcl_ns_socket_shutdown(s) ==    \* a listening socket stays as it is
    SystemCall(s, {"connected", "shut"}, "shut") \/ SystemCall(s, {"listening"}, "listening")
jcl_ns_socket_bind(s)     == SystemCall(s, {"fresh"}, "bound")
jcl_ns_socket_listen(s)   == SystemCall(s, {"fresh", "bound", "listening"}, "listening")

-----------------------------------------------------------------------------
(* accept *)

\* The new socket a belongs to the call until it returns.
jcl_ns_socket_accept(s, a) ==
    /\ Idle(s) /\ pc[a] = "idle" /\ ~sock[a].alive
    /\ \/ /\ sock' = [sock EXCEPT ![a] = [NoSock EXCEPT !.alive = TRUE]]
          /\ pc' = [pc EXCEPT ![s] = "accept", ![a] = "nascent"]
          /\ new' = [new EXCEPT ![s] = a] /\ Err(s, "OK")
       \/ Err(s, "ERR") /\ UNCHANGED <<sock, pc, new>>
    /\ UNCHANGED <<kernel, infos, signals>>

accept_interrupted(s) ==
    /\ pc[s] = "accept" /\ Of(s) = "listening" /\ signals < MaxSignals
    /\ signals' = signals + 1
    /\ UNCHANGED <<sock, pc, new, ret, kernel, infos>>

\* Mutant: the new socket is freed, and its descriptor is not closed.
accept_destroy_no_close(s) == UNCHANGED kernel

\* What the destroy of a refused connection does to its descriptor.
accept_destroy(s) ==
    LET fd == sock[new[s]].fd IN
    IF fd # Unset THEN KernelSets(fd, "closed") ELSE UNCHANGED kernel

accept_connection(s, f) ==
    /\ pc[s] = "accept" /\ Of(s) = "listening" /\ f \in Fresh
    /\ KernelSets(f, "connected")
    /\ sock' = [sock EXCEPT ![new[s]].fd = f, ![new[s]].addr = TRUE]
    /\ \E e \in {"OK", "ERR"} : Err(s, e)
    /\ Goto(s, "accepted")
    /\ UNCHANGED <<new, infos, signals>>

accept_error(s) ==
    /\ pc[s] = "accept"
    /\ Err(s, "ERR")
    /\ Goto(s, "accepted")
    /\ UNCHANGED <<sock, new, kernel, infos, signals>>

accept_return(s) ==
    LET a == new[s] IN
    /\ pc[s] = "accepted"
    /\ IF ret[s] = "OK" THEN UNCHANGED <<sock, kernel>>
       ELSE accept_destroy(s) /\ sock' = [sock EXCEPT ![a] = NoSock]
    /\ pc' = [pc EXCEPT ![s] = "idle", ![a] = "idle"]
    /\ new' = [new EXCEPT ![s] = Unset]
    /\ UNCHANGED <<ret, infos, signals>>

-----------------------------------------------------------------------------
(* connect *)

jcl_ns_socket_connect(s) ==
    /\ Idle(s)
    /\ Goto(s, "connect") /\ Err(s, "OK")
    /\ UNCHANGED <<sock, new, kernel, infos, signals>>

\* The system call starts an attempt; it waits while the attempt runs.
connect_attempt(s) ==
    /\ pc[s] = "connect" /\ Of(s) \in {"fresh", "bound"} /\ sock[s].addr
    /\ KernelSets(sock[s].fd, "connecting")
    /\ UNCHANGED <<sock, pc, new, ret, infos, signals>>

\* The other side answers, whether anyone waits or not.
AttemptEnds(f) ==
    /\ kernel[f] = "connecting"
    /\ \E state \in {"established", "refused"} : KernelSets(f, state)
    /\ UNCHANGED <<sock, pc, new, ret, infos, signals>>

\* Mutant: the code EINTR is made of is handed to the caller.
after_connect_interrupted_returns(s) == Return(s, "INTER")

\* Mutant: *err is reset, and the call taken for done.
after_connect_interrupted_ok(s) == Return(s, "OK")

\* EINTR: *err is reset and connect called again.
after_connect_interrupted(s) == UNCHANGED <<pc, ret>>

connect_interrupted(s) ==
    /\ pc[s] = "connect" /\ Of(s) = "connecting" /\ signals < MaxSignals
    /\ after_connect_interrupted(s)
    /\ signals' = signals + 1
    /\ UNCHANGED <<sock, new, kernel, infos>>

connect_answer(s) ==
    /\ pc[s] = "connect"
    /\ \/ Of(s) = "established" /\ KernelSets(sock[s].fd, "connected") /\ Return(s, "OK")
       \/ Of(s) = "refused" /\ KernelSets(sock[s].fd, "fresh") /\ Return(s, "ERR")
    /\ UNCHANGED <<sock, new, infos, signals>>

\* Mutant: the loop is left only with JCL_OK.
connect_error_retried(s) ==
    /\ pc[s] = "connect" /\ Of(s) \notin {"connecting", "established", "refused"}
    /\ UNCHANGED vars

\* connect fails before an attempt is made.
connect_error(s) ==
    /\ pc[s] = "connect" /\ Of(s) \notin {"connecting", "established", "refused"}
    /\ Return(s, "ERR")
    /\ UNCHANGED <<sock, new, kernel, infos, signals>>

\* The zeroed address of jcl_ns_socket_create is of the family AF_UNSPEC.
connect_unspecified(s) ==
    /\ pc[s] = "connect" /\ ~sock[s].addr /\ sock[s].fd # Unset
    /\ KernelSets(sock[s].fd, "fresh")
    /\ Return(s, "OK")
    /\ UNCHANGED <<sock, new, infos, signals>>

-----------------------------------------------------------------------------
(* The rest of the process *)

ForeignOpen(f) ==
    /\ kernel[f] = "closed" /\ KernelSets(f, "foreign")
    /\ UNCHANGED <<sock, pc, new, ret, infos, signals>>

ForeignClose(f) ==
    /\ kernel[f] = "foreign" /\ KernelSets(f, "closed")
    /\ UNCHANGED <<sock, pc, new, ret, infos, signals>>

\* What moves a connect that has begun.
Connecting ==
    \/ \E s \in Socks : connect_attempt(s) \/ connect_answer(s)
                        \/ connect_error(s) \/ connect_unspecified(s)
    \/ \E f \in Fds : AttemptEnds(f)

Next ==
    \/ Connecting
    \/ \E s \in Socks :
        \/ jcl_ns_socket_create(s) \/ jcl_ns_socket_open(s) \/ open_assign(s)
        \/ jcl_ns_socket_close(s) \/ close_assign(s)
        \/ jcl_ns_socket_destroy(s) \/ destroy_free(s)
        \/ jcl_ns_socket_set_ip(s) \/ jcl_ns_socket_set_hostname(s) \/ set_hostname_copy(s)
        \/ jcl_ns_socket_shutdown(s) \/ jcl_ns_socket_bind(s) \/ jcl_ns_socket_listen(s)
        \/ \E a \in Socks \ {s} : jcl_ns_socket_accept(s, a)
        \/ accept_interrupted(s) \/ accept_error(s) \/ accept_return(s)
        \/ \E f \in Fds : accept_connection(s, f)
        \/ jcl_ns_socket_connect(s) \/ connect_interrupted(s)
    \/ \E f \in Fds : ForeignOpen(f) \/ ForeignClose(f)

\* Attempts end, signals are few, and callers run.
Spec == Init /\ [][Next]_vars
             /\ \A s \in Socks : WF_vars(connect_attempt(s) \/ connect_answer(s)
                                        \/ connect_error(s) \/ connect_unspecified(s))
             /\ \A f \in Fds : WF_vars(AttemptEnds(f))

-----------------------------------------------------------------------------
(* Properties *)

Codes == {"OK", "ERR"}
Places == {"idle", "opened", "closed", "destroyed", "resolved", "accept", "accepted",
           "nascent", "connect"}
Ours == {"fresh", "bound", "listening", "connecting", "established", "refused",
         "connected", "shut"}

\* Every variable stays within its type.
TypeOK ==
    /\ sock \in [Socks -> [alive : BOOLEAN, fd : Fds \cup {Unset}, addr : BOOLEAN]]
    /\ pc \in [Socks -> Places]
    /\ new \in [Socks -> Fds \cup Socks \cup {Unset}]
    /\ ret \in [Socks -> Codes]
    /\ kernel \in [Fds -> Ours \cup {"closed", "foreign"}]
    /\ infos \subseteq Socks
    /\ signals \in 0 .. MaxSignals

\* The sockets whose fd is meant: its caller has not just closed it.
Holders == {s \in Socks : sock[s].fd # Unset /\ pc[s] \notin {"closed", "destroyed"}}

\* A socket that holds a descriptor holds one that is open, that the library has
\* opened, and that no other socket holds: no call, whatever close answers and
\* whoever is given the number next, reads, binds or closes a stranger's
\* descriptor.
NoStaleDescriptor ==
    \A s \in Holders :
        /\ kernel[sock[s].fd] \in Ours
        /\ \A t \in Holders : sock[s].fd = sock[t].fd => s = t

\* The descriptors no socket and no running call knows of.
Leaked ==
    {f \in Fds : kernel[f] \in Ours}
    \ ({sock[s].fd : s \in Holders} \cup {new[s] : s \in {t \in Socks : pc[t] = "opened"}})

\* A descriptor is leaked only when jcl_ns_socket_open is called for a socket that
\* is already open, whose descriptor it overwrites; every other way out of every
\* call, the refused connections of accept included, closes what it opened.
LeakOnlyByReopen ==
    [][Leaked' # Leaked =>
        \E s \in Socks : /\ pc[s] = "opened" /\ sock[s].fd # Unset
                         /\ Leaked' = Leaked \cup {sock[s].fd}]_vars

\* An answer from the resolver is held by nobody once jcl_ns_socket_set_hostname
\* has returned, and connect leaves no attempt running in the kernel behind a
\* call that has returned, interrupted or not.
NothingLeftBehind ==
    /\ \A s \in infos : pc[s] = "resolved"
    /\ \A s \in Holders :
        kernel[sock[s].fd] \in {"connecting", "established", "refused"} => pc[s] = "connect"

\* The invariant of the sockets: types, descriptors that are one's own, and nothing
\* left behind by a call that has returned.
SocketInv == TypeOK /\ NoStaleDescriptor /\ NothingLeftBehind

\* A connect that answers JCL_OK has connected the socket, unless nobody ever
\* set its address; one that answers with an error has not.
ConnectTellsTruth ==
    [][\A s \in Socks :
        pc[s] = "connect" /\ pc'[s] = "idle" /\ Of(s) \notin {"connected", "shut"} =>
            /\ ret'[s] = "OK" /\ sock[s].addr => kernel'[sock[s].fd] = "connected"
            /\ ret'[s] # "OK" => sock[s].fd = Unset \/ kernel'[sock[s].fd] # "connected"]_vars

\* Every connect returns, however often signals interrupt it.
ConnectReturns == \A s \in Socks : pc[s] = "connect" ~> pc[s] = "idle"
=============================================================================
