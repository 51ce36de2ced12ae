-------------------------- MODULE NetSocketProofs --------------------------
(***************************************************************************)
(* For any number of sockets, descriptors and signals: no socket works on  *)
(* a descriptor that is not its own, a call leaves nothing behind it, and  *)
(* only a second jcl_ns_socket_open leaks a descriptor.                    *)
(***************************************************************************)
EXTENDS NetSocket, TLAPS

SockRecord == [alive : BOOLEAN, fd : Fds \cup {Unset}, addr : BOOLEAN]
KernelStates == Ours \cup {"closed", "foreign"}
Attempt == {"connecting", "established", "refused"}
Gone == {"closed", "destroyed"}
Accepting == {"accept", "accepted"}

\* The types of the variables that sockets and descriptors are made of.
SockTypes ==
    /\ sock \in [Socks -> SockRecord]
    /\ pc \in [Socks -> Places]
    /\ new \in [Socks -> Fds \cup Socks \cup {Unset}]
    /\ kernel \in [Fds -> KernelStates]

\* An attempt to connect runs only while its caller waits for it.
AttemptIsAwaited == \A s \in Holders : kernel[sock[s].fd] \in Attempt => pc[s] = "connect"

\* A descriptor that jcl_ns_socket_open has been given and not yet stored is
\* fresh, and known to this call alone.
OpenedIsOwn ==
    \A s \in Socks : pc[s] = "opened" =>
        /\ sock[s].alive = TRUE
        /\ new[s] \in Fds /\ kernel[new[s]] = "fresh"
        /\ \A t \in Holders : sock[t].fd # new[s]
        /\ \A t \in Socks : pc[t] = "opened" /\ new[t] = new[s] => s = t

\* The socket that jcl_ns_socket_accept has allocated and not yet returned is
\* allocated, has no caller but this one, and no descriptor before a connection.
AcceptedIsOwn ==
    \A s \in Socks : pc[s] \in Accepting =>
        /\ sock[s].alive = TRUE
        /\ new[s] \in Socks /\ pc[new[s]] = "nascent" /\ sock[new[s]].alive = TRUE
        /\ pc[s] = "accept" => sock[new[s]].fd = Unset
        /\ \A t \in Socks : pc[t] \in Accepting /\ new[t] = new[s] => s = t

\* What is not allocated has no call running and holds nothing.
DeadIsEmpty ==
    \A s \in Socks : sock[s].alive = FALSE => pc[s] = "idle" /\ sock[s].fd = Unset

CoreInv ==
    SockTypes /\ NoStaleDescriptor /\ AttemptIsAwaited /\ OpenedIsOwn /\ AcceptedIsOwn /\ DeadIsEmpty

\* The other variables: codes, the resolver's answers, the signals.
RestInv ==
    /\ ret \in [Socks -> Codes]
    /\ infos \subseteq Socks /\ \A s \in infos : pc[s] = "resolved"
    /\ signals \in 0 .. MaxSignals

IndInv == CoreInv /\ RestInv

\* What a step may do to the descriptors that nobody knows of.
LeakStep ==
    \/ Leaked' = Leaked
    \/ \E s \in Socks : /\ pc[s] = "opened" /\ sock[s].fd # Unset
                        /\ Leaked' = Leaked \cup {sock[s].fd}

\* The inductive invariant gives the one the runs check.
LEMMA IndImpliesSocketInv == IndInv => SocketInv
  BY DEF IndInv, CoreInv, SockTypes, RestInv, SocketInv, TypeOK, NothingLeftBehind,
         AttemptIsAwaited, Attempt, SockRecord, KernelStates

\* Nothing is allocated and nothing opened before the first call.
LEMMA InitInv == Init => IndInv
  <1> SUFFICES ASSUME Init PROVE IndInv
    OBVIOUS
  <1>1. SockTypes
    BY DEF Init, SockTypes, SockRecord, KernelStates, NoSock, Unset, Places
  <1>2. \A s \in Socks : sock[s].fd = Unset /\ pc[s] = "idle"
    BY DEF Init, NoSock
  <1>3. NoStaleDescriptor /\ AttemptIsAwaited /\ OpenedIsOwn /\ AcceptedIsOwn /\ DeadIsEmpty
    BY <1>2 DEF NoStaleDescriptor, AttemptIsAwaited, OpenedIsOwn, AcceptedIsOwn, Accepting,
                DeadIsEmpty, Holders
  <1>4. RestInv
    BY SignalsAssumption DEF Init, RestInv, Codes
  <1> QED BY <1>1, <1>3, <1>4 DEF IndInv, CoreInv

-----------------------------------------------------------------------------
(* Steps that concern one socket and its descriptor *)

\* The places where a caller works on nothing but its socket.
Plain == {"idle", "closed", "destroyed", "resolved", "connect"}

\* The caller of s goes to q, leaves s as r and its descriptor in the state k:
\* the descriptor is closed when s stops holding it, and no attempt goes on
\* unless connect waits for it.
PlainStep(s, r, q, k) ==
    /\ pc[s] \in Plain /\ q \in Plain /\ r \in SockRecord /\ k \in KernelStates
    /\ sock' = [sock EXCEPT ![s] = r]
    /\ pc' = [pc EXCEPT ![s] = q]
    /\ new' = new
    /\ kernel' = IF s \in Holders THEN [kernel EXCEPT ![sock[s].fd] = k] ELSE kernel
    /\ r.fd \in {sock[s].fd, Unset}
    /\ r.alive = FALSE => q = "idle" /\ r.fd = Unset
    /\ IF r.fd # Unset /\ q \notin Gone
       THEN s \in Holders /\ k \in Ours /\ (k \in Attempt => q = "connect")
       ELSE s \in Holders => k = "closed"

\* What such a step does, socket by socket and descriptor by descriptor.
LEMMA PlainStepEffect ==
    ASSUME CoreInv, NEW s \in Socks, NEW r, NEW q, NEW k, PlainStep(s, r, q, k)
    PROVE  /\ SockTypes'
           /\ sock'[s] = r /\ pc'[s] = q
           /\ \A t \in Socks \ {s} : sock'[t] = sock[t] /\ pc'[t] = pc[t]
           /\ s \in Holders => kernel'[sock[s].fd] = k
           /\ \A f \in Fds : ~(s \in Holders /\ f = sock[s].fd) => kernel'[f] = kernel[f]
           /\ \A t \in Socks \ {s} : t \in Holders' <=> t \in Holders
           /\ s \in Holders' <=> r.fd # Unset /\ q \notin Gone
           /\ \A t \in Holders : t # s /\ s \in Holders => sock[t].fd # sock[s].fd
           /\ \A t \in Holders : sock[t].fd \in Fds
  <1>1. SockTypes'
    BY DEF PlainStep, CoreInv, SockTypes, Holders, Plain, Places, SockRecord, KernelStates
  <1>2. sock'[s] = r /\ pc'[s] = q /\ \A t \in Socks \ {s} : sock'[t] = sock[t] /\ pc'[t] = pc[t]
    BY DEF PlainStep, CoreInv, SockTypes
  <1>3. \A t \in Holders : sock[t].fd \in Fds
    BY DEF Holders, CoreInv, SockTypes, SockRecord
  <1>4. /\ s \in Holders => kernel'[sock[s].fd] = k
        /\ \A f \in Fds : ~(s \in Holders /\ f = sock[s].fd) => kernel'[f] = kernel[f]
    BY <1>3 DEF PlainStep, CoreInv, SockTypes
  <1>5. /\ \A t \in Socks \ {s} : t \in Holders' <=> t \in Holders
        /\ s \in Holders' <=> r.fd # Unset /\ q \notin Gone
    BY <1>2 DEF Holders, Gone
  <1>6. \A t \in Holders : t # s /\ s \in Holders => sock[t].fd # sock[s].fd
    BY DEF CoreInv, NoStaleDescriptor
  <1> QED BY <1>1, <1>2, <1>3, <1>4, <1>5, <1>6

\* Such a step keeps every socket on a descriptor of its own, and leaks nothing.
LEMMA PlainStepKeeps ==
    ASSUME CoreInv, NEW s \in Socks, NEW r, NEW q, NEW k, PlainStep(s, r, q, k)
    PROVE  CoreInv' /\ Leaked' = Leaked
  <1>e. /\ SockTypes'
        /\ sock'[s] = r /\ pc'[s] = q
        /\ \A t \in Socks \ {s} : sock'[t] = sock[t] /\ pc'[t] = pc[t]
        /\ s \in Holders => kernel'[sock[s].fd] = k
        /\ \A f \in Fds : ~(s \in Holders /\ f = sock[s].fd) => kernel'[f] = kernel[f]
        /\ \A t \in Socks \ {s} : t \in Holders' <=> t \in Holders
        /\ s \in Holders' <=> r.fd # Unset /\ q \notin Gone
        /\ \A t \in Holders : t # s /\ s \in Holders => sock[t].fd # sock[s].fd
        /\ \A t \in Holders : sock[t].fd \in Fds
    BY PlainStepEffect
  <1>p. /\ pc[s] \in Plain /\ q \in Plain /\ new' = new
        /\ r.fd \in {sock[s].fd, Unset}
        /\ r.alive = FALSE => q = "idle" /\ r.fd = Unset
        /\ s \in Holders' => s \in Holders /\ k \in Ours /\ (k \in Attempt => q = "connect")
        /\ s \notin Holders' => (s \in Holders => k = "closed")
        /\ s \in Holders' => r.fd = sock[s].fd
    BY <1>e DEF PlainStep
  <1>h. Holders \subseteq Socks /\ Holders' \subseteq Socks
    BY DEF Holders
  <1>1. NoStaleDescriptor'
    BY <1>e, <1>p, <1>h DEF CoreInv, NoStaleDescriptor
  <1>2. AttemptIsAwaited'
    BY <1>e, <1>p, <1>h DEF CoreInv, AttemptIsAwaited
  <1>3. \A t \in Socks : pc'[t] = "opened" <=> pc[t] = "opened"
    BY <1>e, <1>p DEF Plain
  <1>4. OpenedIsOwn'
    <2> SUFFICES ASSUME NEW t \in Socks, pc[t] = "opened"
                 PROVE  /\ sock'[t].alive = TRUE
                        /\ new[t] \in Fds /\ kernel'[new[t]] = "fresh"
                        /\ \A u \in Holders' : sock'[u].fd # new[t]
                        /\ \A u \in Socks : pc[u] = "opened" /\ new[u] = new[t] => t = u
      BY <1>3, <1>p DEF OpenedIsOwn
    <2>1. t # s
      BY <1>p DEF Plain
    <2>2. /\ sock[t].alive = TRUE /\ new[t] \in Fds /\ kernel[new[t]] = "fresh"
          /\ \A u \in Holders : sock[u].fd # new[t]
          /\ \A u \in Socks : pc[u] = "opened" /\ new[u] = new[t] => t = u
      BY DEF CoreInv, OpenedIsOwn
    <2> QED BY <1>e, <1>p, <1>h, <2>1, <2>2
  <1>5. AcceptedIsOwn'
    <2>1. \A t \in Socks : pc'[t] \in Accepting => t # s /\ new[t] # s /\ pc[t] \in Accepting
      BY <1>e, <1>p DEF CoreInv, AcceptedIsOwn, Plain, Accepting
    <2> QED BY <1>e, <1>p, <2>1 DEF CoreInv, AcceptedIsOwn
  <1>6. DeadIsEmpty'
    BY <1>e, <1>p DEF CoreInv, DeadIsEmpty
  <1>7. Leaked' = Leaked
    <2>1. \A f \in Fds : (\E t \in Socks : pc'[t] = "opened" /\ new'[t] = f)
                         <=> (\E t \in Socks : pc[t] = "opened" /\ new[t] = f)
      BY <1>3, <1>p
    <2>2. \A f \in Fds : (kernel'[f] \in Ours /\ \A t \in Holders' : sock'[t].fd # f)
                         <=> (kernel[f] \in Ours /\ \A t \in Holders : sock[t].fd # f)
      <3> SUFFICES ASSUME NEW f \in Fds
                   PROVE (kernel'[f] \in Ours /\ \A t \in Holders' : sock'[t].fd # f)
                         <=> (kernel[f] \in Ours /\ \A t \in Holders : sock[t].fd # f)
        OBVIOUS
      <3>1. CASE s \in Holders /\ f = sock[s].fd
        <4>1. CASE s \in Holders'
          BY <1>e, <1>p, <3>1, <4>1
        <4>2. CASE s \notin Holders'
          <5>1. kernel'[f] = "closed"
            BY <1>e, <1>p, <3>1, <4>2
          <5> QED BY <3>1, <5>1 DEF Ours
        <4> QED BY <4>1, <4>2
      <3>2. CASE ~(s \in Holders /\ f = sock[s].fd)
        BY <1>e, <1>p, <1>h, <3>2
      <3> QED BY <3>1, <3>2
    <2> QED BY <2>1, <2>2 DEF Leaked
  <1> QED BY <1>e, <1>1, <1>2, <1>4, <1>5, <1>6, <1>7 DEF CoreInv

\* A step that touches neither sockets nor descriptors.
LEMMA StutterKeeps ==
    ASSUME CoreInv, UNCHANGED <<sock, pc, new, kernel>>
    PROVE  CoreInv' /\ Leaked' = Leaked
  BY DEF CoreInv, SockTypes, NoStaleDescriptor, AttemptIsAwaited, OpenedIsOwn, AcceptedIsOwn,
         DeadIsEmpty, Leaked, Holders

\* What a caller knows of its socket and of the descriptor in it.
LEMMA OwnFacts ==
    ASSUME CoreInv, NEW s \in Socks
    PROVE  /\ sock[s] \in SockRecord
           /\ sock[s].alive \in BOOLEAN /\ sock[s].fd \in Fds \cup {Unset} /\ sock[s].addr \in BOOLEAN
           /\ Of(s) \in KernelStates
           /\ s \in Holders <=> sock[s].fd # Unset /\ pc[s] \notin Gone
           /\ s \in Holders => /\ sock[s].fd \in Fds
                               /\ Of(s) = kernel[sock[s].fd] /\ Of(s) \in Ours
                               /\ Of(s) \in Attempt => pc[s] = "connect"
                               /\ [kernel EXCEPT ![sock[s].fd] = Of(s)] = kernel
           /\ [sock EXCEPT ![s] = sock[s]] = sock
           /\ [pc EXCEPT ![s] = pc[s]] = pc
           /\ pc[s] # "idle" => sock[s].alive = TRUE
  <1>1. /\ sock \in [Socks -> SockRecord] /\ pc \in [Socks -> Places]
        /\ kernel \in [Fds -> KernelStates] /\ sock[s] \in SockRecord
    BY DEF CoreInv, SockTypes
  <1>2. sock[s].alive \in BOOLEAN /\ sock[s].fd \in Fds \cup {Unset} /\ sock[s].addr \in BOOLEAN
    BY <1>1 DEF SockRecord
  <1>3. Of(s) \in KernelStates
    BY <1>1, <1>2 DEF Of, KernelStates
  <1>4. s \in Holders <=> sock[s].fd # Unset /\ pc[s] \notin Gone
    BY DEF Holders, Gone
  <1>5. ASSUME s \in Holders
        PROVE  /\ sock[s].fd \in Fds
               /\ Of(s) = kernel[sock[s].fd] /\ Of(s) \in Ours
               /\ Of(s) \in Attempt => pc[s] = "connect"
               /\ [kernel EXCEPT ![sock[s].fd] = Of(s)] = kernel
    <2>1. sock[s].fd \in Fds /\ Of(s) = kernel[sock[s].fd]
      BY <1>2, <1>4, <1>5 DEF Of
    <2>2. Of(s) \in Ours /\ (Of(s) \in Attempt => pc[s] = "connect")
      BY <2>1, <1>5 DEF CoreInv, NoStaleDescriptor, AttemptIsAwaited
    <2>3. [kernel EXCEPT ![sock[s].fd] = Of(s)] = kernel
      BY <1>1, <2>1
    <2> QED BY <2>1, <2>2, <2>3
  <1>6. [sock EXCEPT ![s] = sock[s]] = sock /\ [pc EXCEPT ![s] = pc[s]] = pc
    BY <1>1
  <1>7. pc[s] # "idle" => sock[s].alive = TRUE
    BY <1>2 DEF CoreInv, DeadIsEmpty
  <1> QED BY <1>1, <1>2, <1>3, <1>4, <1>5, <1>6, <1>7

-----------------------------------------------------------------------------
(* create, open, close, destroy *)

\* The three operations that change nothing in the kernel but by closing what
\* the socket holds, in their two steps.
LEMMA CloseAndDestroy ==
    ASSUME CoreInv, NEW s \in Socks,
           \/ jcl_ns_socket_create(s)
           \/ jcl_ns_socket_close(s) \/ close_assign(s)
           \/ jcl_ns_socket_destroy(s) \/ destroy_free(s)
    PROVE  CoreInv' /\ Leaked' = Leaked
  <1> USE OwnFacts
  <1> USE DEF PlainStep, Plain, Gone, KernelStates, Goto, Return, Err, Idle, KernelSets
  <1>0. Unset \in Fds \cup {Unset} /\ NoSock \in SockRecord /\ NoSock.fd = Unset
        /\ NoSock.alive = FALSE
    BY DEF NoSock, SockRecord
  <1>1. CASE jcl_ns_socket_create(s)
    <2>1. CASE UNCHANGED sock
      BY <1>1, <2>1, StutterKeeps DEF jcl_ns_socket_create
    <2>2. CASE sock' = [sock EXCEPT ![s] = [NoSock EXCEPT !.alive = TRUE]]
      <3> DEFINE r == [NoSock EXCEPT !.alive = TRUE]
      <3>1. r \in SockRecord /\ r.fd = Unset /\ r.alive = TRUE
        BY DEF SockRecord, NoSock
      <3>2. sock[s].fd = Unset
        BY <1>1 DEF jcl_ns_socket_create, CoreInv, DeadIsEmpty
      <3> HIDE DEF r
      <3>3. PlainStep(s, r, "idle", "closed")
        BY <1>1, <2>2, <3>1, <3>2 DEF jcl_ns_socket_create, r
      <3> QED BY <3>3, PlainStepKeeps
    <2> QED BY <1>1, <2>1, <2>2 DEF jcl_ns_socket_create
  <1>2. CASE jcl_ns_socket_close(s)
    <2>1. PlainStep(s, sock[s], "closed", "closed")
      BY <1>2 DEF jcl_ns_socket_close
    <2> QED BY <2>1, PlainStepKeeps
  <1>3. CASE close_assign(s)
    <2> DEFINE r == [sock[s] EXCEPT !.fd = Unset]
    <2>1. r \in SockRecord /\ r.fd = Unset /\ r.alive = TRUE
      BY <1>3 DEF SockRecord, close_assign
    <2>2. sock' = [sock EXCEPT ![s] = r]
      BY <1>3 DEF close_assign
    <2> HIDE DEF r
    <2>3. PlainStep(s, r, "idle", "closed")
      BY <1>3, <2>1, <2>2 DEF close_assign
    <2> QED BY <2>3, PlainStepKeeps
  <1>4. CASE jcl_ns_socket_destroy(s)
    <2>1. PlainStep(s, sock[s], "destroyed", "closed")
      BY <1>4 DEF jcl_ns_socket_destroy
    <2> QED BY <2>1, PlainStepKeeps
  <1>5. CASE destroy_free(s)
    <2>1. PlainStep(s, NoSock, "idle", "closed")
      BY <1>0, <1>5 DEF destroy_free
    <2> QED BY <2>1, PlainStepKeeps
  <1> QED BY <1>1, <1>2, <1>3, <1>4, <1>5

-----------------------------------------------------------------------------
(* The address; shutdown, bind, listen; connect *)

\* Setting the address leaves the descriptor alone.
LEMMA AddressSteps ==
    ASSUME CoreInv, NEW s \in Socks,
           \/ jcl_ns_socket_set_ip(s)
           \/ jcl_ns_socket_set_hostname(s) \/ set_hostname_copy(s)
    PROVE  CoreInv' /\ Leaked' = Leaked
  <1> USE OwnFacts
  <1> USE DEF PlainStep, Plain, Gone, KernelStates, Goto, Return, Err, Idle
  <1> DEFINE r == [sock[s] EXCEPT !.addr = TRUE]
  <1>0. r \in SockRecord /\ r.fd = sock[s].fd /\ r.alive = sock[s].alive
    BY DEF SockRecord
  <1>r. [sock EXCEPT ![s].addr = TRUE] = [sock EXCEPT ![s] = r]
    OBVIOUS
  <1> HIDE DEF r
  <1>1. CASE jcl_ns_socket_set_ip(s)
    <2>1. CASE UNCHANGED sock
      BY <1>1, <2>1, StutterKeeps DEF jcl_ns_socket_set_ip
    <2>2. CASE sock' = [sock EXCEPT ![s] = r]
      <3>1. PlainStep(s, r, "idle", Of(s))
        BY <1>0, <1>1, <2>2 DEF jcl_ns_socket_set_ip, Of
      <3> QED BY <3>1, PlainStepKeeps
    <2> QED BY <1>1, <1>r, <2>1, <2>2 DEF jcl_ns_socket_set_ip
  <1>2. CASE jcl_ns_socket_set_hostname(s)
    <2>1. CASE UNCHANGED pc
      BY <1>2, <2>1, StutterKeeps DEF jcl_ns_socket_set_hostname
    <2>2. CASE Goto(s, "resolved")
      <3>1. PlainStep(s, sock[s], "resolved", Of(s))
        BY <1>2, <2>2 DEF jcl_ns_socket_set_hostname, Of
      <3> QED BY <3>1, PlainStepKeeps
    <2> QED BY <1>2, <2>1, <2>2 DEF jcl_ns_socket_set_hostname
  <1>3. CASE set_hostname_copy(s)
    <2>1. CASE UNCHANGED sock
      <3>1. PlainStep(s, sock[s], "idle", Of(s))
        BY <1>3, <2>1 DEF set_hostname_copy, Of
      <3> QED BY <3>1, PlainStepKeeps
    <2>2. CASE sock' = [sock EXCEPT ![s] = r]
      <3>1. PlainStep(s, r, "idle", Of(s))
        BY <1>0, <1>3, <2>2 DEF set_hostname_copy, Of
      <3> QED BY <3>1, PlainStepKeeps
    <2> QED BY <1>3, <1>r, <2>1, <2>2 DEF set_hostname_copy
  <1> QED BY <1>1, <1>2, <1>3

\* A system call that succeeds leaves a state that is ours and no attempt.
LEMMA SystemCallStep ==
    ASSUME CoreInv, NEW s \in Socks, NEW from, NEW to \in Ours \ Attempt,
           from \cap {"closed"} = {}, SystemCall(s, from, to)
    PROVE  CoreInv' /\ Leaked' = Leaked
  <1> USE OwnFacts
  <1> USE DEF PlainStep, Plain, Gone, KernelStates, Err, Idle
  <1>1. CASE UNCHANGED kernel
    BY <1>1, StutterKeeps DEF SystemCall
  <1>2. CASE Of(s) \in from /\ KernelSets(sock[s].fd, to)
    <2>1. s \in Holders
      BY <1>2 DEF SystemCall, Of
    <2>2. PlainStep(s, sock[s], "idle", to)
      BY <1>2, <2>1 DEF SystemCall, KernelSets
    <2> QED BY <2>2, PlainStepKeeps
  <1> QED BY <1>1, <1>2 DEF SystemCall

\* shutdown, bind and listen are such calls.
LEMMA SystemCallSteps ==
    ASSUME CoreInv, NEW s \in Socks,
           jcl_ns_socket_shutdown(s) \/ jcl_ns_socket_bind(s) \/ jcl_ns_socket_listen(s)
    PROVE  CoreInv' /\ Leaked' = Leaked
  <1>1. {"shut", "listening", "bound"} \subseteq Ours \ Attempt
    BY DEF Ours, Attempt
  <1>2. CASE jcl_ns_socket_shutdown(s)
    <2>1. CASE SystemCall(s, {"connected", "shut"}, "shut")
      BY <1>1, <2>1, SystemCallStep
    <2>2. CASE SystemCall(s, {"listening"}, "listening")
      BY <1>1, <2>2, SystemCallStep
    <2> QED BY <1>2, <2>1, <2>2 DEF jcl_ns_socket_shutdown
  <1>3. CASE jcl_ns_socket_bind(s)
    BY <1>1, <1>3, SystemCallStep DEF jcl_ns_socket_bind
  <1>4. CASE jcl_ns_socket_listen(s)
    BY <1>1, <1>4, SystemCallStep DEF jcl_ns_socket_listen
  <1> QED BY <1>2, <1>3, <1>4

\* connect starts, awaits and ends an attempt, or returns without one.
LEMMA ConnectSteps ==
    ASSUME CoreInv, NEW s \in Socks,
           \/ jcl_ns_socket_connect(s) \/ connect_attempt(s) \/ connect_interrupted(s)
           \/ connect_answer(s) \/ connect_error(s) \/ connect_unspecified(s)
    PROVE  CoreInv' /\ Leaked' = Leaked
  <1> USE OwnFacts
  <1> USE DEF PlainStep, Plain, Gone, KernelStates, Goto, Return, Err, Idle, KernelSets
  <1>0. Attempt \subseteq Ours /\ {"fresh", "connected"} \subseteq Ours \ Attempt
    BY DEF Ours, Attempt
  <1>1. CASE jcl_ns_socket_connect(s)
    <2>1. PlainStep(s, sock[s], "connect", Of(s))
      BY <1>1 DEF jcl_ns_socket_connect, Of
    <2> QED BY <2>1, PlainStepKeeps
  <1>2. CASE connect_attempt(s)
    <2>1. s \in Holders
      BY <1>2 DEF connect_attempt, Of
    <2>2. PlainStep(s, sock[s], "connect", "connecting")
      BY <1>0, <1>2, <2>1 DEF connect_attempt, Attempt
    <2> QED BY <2>2, PlainStepKeeps
  <1>3. CASE connect_interrupted(s)
    BY <1>3, StutterKeeps DEF connect_interrupted, after_connect_interrupted
  <1>4. CASE connect_answer(s)
    <2>1. s \in Holders
      BY <1>4 DEF connect_answer, Of
    <2>2. CASE KernelSets(sock[s].fd, "connected") /\ Return(s, "OK")
      <3>1. PlainStep(s, sock[s], "idle", "connected")
        BY <1>0, <1>4, <2>1, <2>2 DEF connect_answer
      <3> QED BY <3>1, PlainStepKeeps
    <2>3. CASE KernelSets(sock[s].fd, "fresh") /\ Return(s, "ERR")
      <3>1. PlainStep(s, sock[s], "idle", "fresh")
        BY <1>0, <1>4, <2>1, <2>3 DEF connect_answer
      <3> QED BY <3>1, PlainStepKeeps
    <2> QED BY <1>4, <2>2, <2>3 DEF connect_answer
  <1>5. CASE connect_error(s)
    <2>1. PlainStep(s, sock[s], "idle", Of(s))
      BY <1>5 DEF connect_error, Of, Attempt
    <2> QED BY <2>1, PlainStepKeeps
  <1>6. CASE connect_unspecified(s)
    <2>1. PlainStep(s, sock[s], "idle", "fresh")
      BY <1>0, <1>6 DEF connect_unspecified
    <2> QED BY <2>1, PlainStepKeeps
  <1> QED BY <1>1, <1>2, <1>3, <1>4, <1>5, <1>6

-----------------------------------------------------------------------------
(* open *)

\* The descriptors that nobody knows of, one by one.
LEMMA LeakedMember ==
    \A f \in Fds : f \in Leaked <=> /\ kernel[f] \in Ours
                                    /\ \A t \in Holders : sock[t].fd # f
                                    /\ \A t \in Socks : pc[t] = "opened" => new[t] # f
  BY DEF Leaked

\* The same of the next state.
LEMMA LeakedMemberNext ==
    \A f \in Fds : f \in Leaked' <=> /\ kernel'[f] \in Ours
                                     /\ \A t \in Holders' : sock'[t].fd # f
                                     /\ \A t \in Socks : pc'[t] = "opened" => new'[t] # f
  BY DEF Leaked

\* The kernel hands out a number nobody holds, whatever socket held it before.
LEMMA OpenStep ==
    ASSUME CoreInv, NEW s \in Socks, jcl_ns_socket_open(s)
    PROVE  CoreInv' /\ Leaked' = Leaked
  <1>0. pc[s] = "idle" /\ sock[s].alive = TRUE /\ sock' = sock
    BY OwnFacts DEF jcl_ns_socket_open, Idle
  <1>1. CASE UNCHANGED <<new, kernel>> /\ Return(s, "ERR")
    <2>1. UNCHANGED <<sock, pc, new, kernel>>
      BY <1>0, <1>1, OwnFacts DEF Return, Goto
    <2> QED BY <2>1, StutterKeeps
  <1>2. ASSUME NEW f \in Fresh,
               KernelSets(f, "fresh"), new' = [new EXCEPT ![s] = f], Goto(s, "opened")
        PROVE  CoreInv' /\ Leaked' = Leaked
    <2>1. f \in Fds /\ kernel[f] = "closed"
      BY <1>2 DEF Fresh
    <2>2. /\ SockTypes'
          /\ pc'[s] = "opened" /\ new'[s] = f /\ kernel'[f] = "fresh"
          /\ \A t \in Socks \ {s} : pc'[t] = pc[t] /\ new'[t] = new[t]
          /\ \A g \in Fds \ {f} : kernel'[g] = kernel[g]
      BY <1>0, <1>2, <2>1 DEF CoreInv, SockTypes, KernelSets, Goto, Places, KernelStates, Ours
    <2>3. Holders' = Holders
      BY <1>0, <2>2 DEF Holders
    <2>4. \A t \in Holders : t \in Socks /\ sock[t].fd \in Fds /\ sock[t].fd # f
      <3>1. \A t \in Holders : t \in Socks /\ kernel[sock[t].fd] \in Ours
        BY DEF CoreInv, NoStaleDescriptor, Holders
      <3> QED BY <2>1, <3>1, OwnFacts DEF Ours
    <2>5. \A t \in Socks : pc[t] = "opened" => new[t] \in Fds /\ new[t] # f
      BY <2>1 DEF CoreInv, OpenedIsOwn
    <2>6. NoStaleDescriptor'
      BY <1>0, <2>2, <2>3, <2>4 DEF CoreInv, NoStaleDescriptor
    <2>7. AttemptIsAwaited'
      BY <1>0, <2>2, <2>3, <2>4 DEF CoreInv, AttemptIsAwaited
    <2>8. OpenedIsOwn'
      BY <1>0, <2>1, <2>2, <2>3, <2>4, <2>5 DEF CoreInv, OpenedIsOwn
    <2>9. AcceptedIsOwn'
      BY <1>0, <2>2 DEF CoreInv, AcceptedIsOwn, Accepting
    <2>10. DeadIsEmpty'
      BY <1>0, <2>2 DEF CoreInv, DeadIsEmpty
    <2>11. \A g \in Fds : g \in Leaked' <=> g \in Leaked
      <3>1. "closed" \notin Ours
        BY DEF Ours
      <3> QED BY <1>0, <2>1, <2>2, <2>3, <2>4, <2>5, <3>1, LeakedMember, LeakedMemberNext
    <2>12. Leaked' = Leaked
      BY <2>11 DEF Leaked
    <2> QED BY <2>2, <2>6, <2>7, <2>8, <2>9, <2>10, <2>12 DEF CoreInv
  <1> QED BY <1>1, <1>2 DEF jcl_ns_socket_open

\* The socket takes the descriptor over, and forgets the one it may have held.
LEMMA OpenAssignStep ==
    ASSUME CoreInv, NEW s \in Socks, open_assign(s)
    PROVE  CoreInv' /\ LeakStep
  <1> DEFINE r == [sock[s] EXCEPT !.fd = new[s]]
             f == new[s]
  <1>0. pc[s] = "opened" /\ kernel' = kernel
    BY DEF open_assign
  <1>1. /\ f \in Fds /\ f # Unset /\ kernel[f] = "fresh" /\ sock[s].alive = TRUE
        /\ \A t \in Holders : sock[t].fd # f
        /\ \A t \in Socks : pc[t] = "opened" /\ new[t] = f => s = t
    BY <1>0, FdsAssumption DEF CoreInv, OpenedIsOwn, Unset
  <1>2. r \in SockRecord /\ r.fd = f /\ r.alive = TRUE
    BY <1>1, OwnFacts DEF SockRecord
  <1>3. sock' = [sock EXCEPT ![s] = r] /\ new' = [new EXCEPT ![s] = Unset] /\ Goto(s, "idle")
    BY DEF open_assign
  <1> HIDE DEF r, f
  <1>4. /\ SockTypes'
        /\ sock'[s] = r /\ pc'[s] = "idle"
        /\ \A t \in Socks \ {s} : sock'[t] = sock[t] /\ pc'[t] = pc[t] /\ new'[t] = new[t]
    BY <1>0, <1>2, <1>3 DEF CoreInv, SockTypes, Goto, Places
  <1>5. s \in Holders' /\ \A t \in Socks \ {s} : t \in Holders' <=> t \in Holders
    BY <1>1, <1>2, <1>4 DEF Holders
  <1>6. Holders \subseteq Socks /\ Holders' \subseteq Socks
    BY DEF Holders
  <1>7. NoStaleDescriptor'
    <2>1. "fresh" \in Ours
      BY DEF Ours
    <2> QED BY <1>0, <1>1, <1>2, <1>4, <1>5, <1>6, <2>1 DEF CoreInv, NoStaleDescriptor
  <1>8. AttemptIsAwaited'
    <2>1. "fresh" \notin Attempt
      BY DEF Attempt
    <2> QED BY <1>0, <1>1, <1>2, <1>4, <1>5, <1>6, <2>1 DEF CoreInv, AttemptIsAwaited
  <1>9. OpenedIsOwn'
    <2>1. \A t \in Socks : pc'[t] = "opened" => t # s /\ pc[t] = "opened" /\ new[t] # f
      BY <1>1, <1>4
    <2> QED BY <1>0, <1>2, <1>4, <1>5, <1>6, <2>1 DEF CoreInv, OpenedIsOwn
  <1>10. AcceptedIsOwn'
    <2>1. \A t \in Socks : pc'[t] \in Accepting => t # s /\ pc[t] \in Accepting /\ new[t] # s
      BY <1>0, <1>4 DEF CoreInv, AcceptedIsOwn, Accepting
    <2> QED BY <1>4, <2>1 DEF CoreInv, AcceptedIsOwn
  <1>11. DeadIsEmpty'
    BY <1>2, <1>4 DEF CoreInv, DeadIsEmpty
  <1>12. LeakStep
    <2>1. CASE sock[s].fd = Unset
      <3>1. s \notin Holders
        BY <2>1, OwnFacts
      <3>2. \A g \in Fds : g \in Leaked' <=> g \in Leaked
        BY <1>0, <1>1, <1>2, <1>4, <1>5, <1>6, <3>1, LeakedMember, LeakedMemberNext DEF f
      <3> QED BY <3>2 DEF Leaked, LeakStep
    <2>2. CASE sock[s].fd # Unset
      <3>1. s \in Holders /\ sock[s].fd \in Fds /\ kernel[sock[s].fd] \in Ours
            /\ \A t \in Holders : sock[t].fd = sock[s].fd => t = s
        BY <1>0, <2>2, OwnFacts DEF Gone, CoreInv, NoStaleDescriptor
      <3>2. \A t \in Socks : pc[t] = "opened" => new[t] # sock[s].fd
        BY <3>1 DEF CoreInv, OpenedIsOwn
      <3>3. \A g \in Fds : g \in Leaked' <=> g \in Leaked \/ g = sock[s].fd
        BY <1>0, <1>1, <1>2, <1>4, <1>5, <1>6, <3>1, <3>2, LeakedMember, LeakedMemberNext DEF f
      <3>4. Leaked' = Leaked \cup {sock[s].fd}
        BY <3>1, <3>3 DEF Leaked
      <3> QED BY <1>0, <2>2, <3>4 DEF LeakStep
    <2> QED BY <2>1, <2>2
  <1> QED BY <1>4, <1>7, <1>8, <1>9, <1>10, <1>11, <1>12 DEF CoreInv

-----------------------------------------------------------------------------
(* accept *)

\* The new socket is allocated for this call and holds nothing yet.
LEMMA AcceptStep ==
    ASSUME CoreInv, NEW s \in Socks, NEW a \in Socks \ {s}, jcl_ns_socket_accept(s, a)
    PROVE  CoreInv' /\ Leaked' = Leaked
  <1>0. /\ pc[s] = "idle" /\ sock[s].alive = TRUE /\ kernel' = kernel
        /\ pc[a] = "idle" /\ sock[a].alive = FALSE /\ sock[a].fd = Unset
    BY OwnFacts DEF jcl_ns_socket_accept, Idle, CoreInv, DeadIsEmpty
  <1>1. CASE UNCHANGED <<sock, pc, new>>
    BY <1>0, <1>1, StutterKeeps
  <1>2. ASSUME sock' = [sock EXCEPT ![a] = [NoSock EXCEPT !.alive = TRUE]],
               pc' = [pc EXCEPT ![s] = "accept", ![a] = "nascent"],
               new' = [new EXCEPT ![s] = a]
        PROVE  CoreInv' /\ Leaked' = Leaked
    <2> DEFINE r == [NoSock EXCEPT !.alive = TRUE]
    <2>1. r \in SockRecord /\ r.fd = Unset /\ r.alive = TRUE
      BY DEF SockRecord, NoSock
    <2>2. sock' = [sock EXCEPT ![a] = r]
      BY <1>2
    <2> HIDE DEF r
    <2>3. /\ SockTypes'
          /\ sock'[a] = r /\ sock'[s] = sock[s] /\ pc'[s] = "accept" /\ pc'[a] = "nascent" /\ new'[s] = a
          /\ \A t \in Socks \ {s} : new'[t] = new[t]
          /\ \A t \in Socks \ {s, a} : sock'[t] = sock[t] /\ pc'[t] = pc[t]
      BY <1>0, <1>2, <2>1, <2>2 DEF CoreInv, SockTypes, Places
    <2>4. Holders' = Holders /\ a \notin Holders /\ Holders \subseteq Socks
      BY <1>0, <2>1, <2>3 DEF Holders
    <2>5. NoStaleDescriptor' /\ AttemptIsAwaited'
      BY <1>0, <2>3, <2>4 DEF CoreInv, NoStaleDescriptor, AttemptIsAwaited
    <2>6. \A t \in Socks : pc'[t] = "opened" <=> pc[t] = "opened"
      BY <1>0, <2>3
    <2>7. OpenedIsOwn'
      <3>1. \A t \in Socks : pc[t] = "opened" => t # s /\ t # a
        BY <1>0
      <3> QED BY <1>0, <2>3, <2>4, <2>6, <3>1 DEF CoreInv, OpenedIsOwn
    <2>8. AcceptedIsOwn'
      <3>1. \A t \in Socks : pc[t] \in Accepting => new[t] # a /\ new[t] # s /\ t # a /\ t # s
        BY <1>0 DEF CoreInv, AcceptedIsOwn, Accepting
      <3>2. \A t \in Socks : pc'[t] \in Accepting <=> t = s \/ pc[t] \in Accepting
        BY <1>0, <2>3 DEF Accepting
      <3>3. \A t \in Socks \ {s} : pc'[t] \in Accepting => pc'[t] = pc[t]
        BY <2>3 DEF Accepting
      <3> QED BY <1>0, <2>1, <2>3, <3>1, <3>2, <3>3 DEF CoreInv, AcceptedIsOwn
    <2>9. DeadIsEmpty'
      BY <1>0, <2>1, <2>3 DEF CoreInv, DeadIsEmpty
    <2>10. \A f \in Fds : f \in Leaked' <=> f \in Leaked
      <3>1. \A t \in Holders : sock'[t] = sock[t]
        BY <2>3, <2>4
      <3>2. \A t \in Socks : pc'[t] = "opened" => new'[t] = new[t]
        BY <2>3
      <3> QED BY <1>0, <2>4, <2>6, <3>1, <3>2, LeakedMember, LeakedMemberNext
    <2>11. Leaked' = Leaked
      BY <2>10 DEF Leaked
    <2> QED BY <2>3, <2>5, <2>7, <2>8, <2>9, <2>11 DEF CoreInv
  <1> QED BY <1>1, <1>2 DEF jcl_ns_socket_accept

\* A connection arrives: its descriptor goes into the new socket, which nobody
\* else can reach.  Or the call fails before one does.
LEMMA AcceptConnectionStep ==
    ASSUME CoreInv, NEW s \in Socks, NEW f \in Fds, accept_connection(s, f)
    PROVE  CoreInv' /\ Leaked' = Leaked
  <1> DEFINE a == new[s]
             r == [sock[a] EXCEPT !.fd = f, !.addr = TRUE]
  <1>0. pc[s] = "accept" /\ kernel[f] = "closed"
    BY DEF accept_connection, Fresh
  <1>1. /\ sock[s].alive = TRUE /\ a \in Socks /\ a # s /\ pc[a] = "nascent" /\ sock[a].alive = TRUE
        /\ sock[a].fd = Unset
        /\ \A t \in Socks : pc[t] \in Accepting /\ new[t] = a => t = s
    BY <1>0 DEF CoreInv, AcceptedIsOwn, Accepting
  <1>2. f # Unset
    BY FdsAssumption DEF Unset
  <1>3. sock' = [sock EXCEPT ![a] = r]
    BY <1>1 DEF accept_connection, CoreInv, SockTypes
  <1>4. r \in SockRecord /\ r.fd = f /\ r.alive = TRUE
    BY <1>1, OwnFacts DEF SockRecord
  <1> HIDE DEF a, r
  <1>5. /\ SockTypes' /\ new' = new
        /\ sock'[a] = r /\ pc'[s] = "accepted" /\ kernel'[f] = "connected"
        /\ \A t \in Socks \ {a} : sock'[t] = sock[t]
        /\ \A t \in Socks \ {s} : pc'[t] = pc[t]
        /\ \A g \in Fds \ {f} : kernel'[g] = kernel[g]
    <2>1. /\ sock \in [Socks -> SockRecord] /\ pc \in [Socks -> Places]
          /\ kernel \in [Fds -> KernelStates] /\ new \in [Socks -> Fds \cup Socks \cup {Unset}]
      BY DEF CoreInv, SockTypes
    <2>2. /\ kernel' = [kernel EXCEPT ![f] = "connected"] /\ new' = new
          /\ pc' = [pc EXCEPT ![s] = "accepted"]
      BY DEF accept_connection, KernelSets, Goto
    <2>3. "accepted" \in Places /\ "connected" \in KernelStates
      BY DEF Places, KernelStates, Ours
    <2> QED BY <1>1, <1>3, <1>4, <2>1, <2>2, <2>3 DEF SockTypes
  <1>6. /\ a \in Holders' /\ a \notin Holders
        /\ \A t \in Socks \ {a} : t \in Holders' <=> t \in Holders
        /\ Holders \subseteq Socks /\ Holders' \subseteq Socks
    BY <1>0, <1>1, <1>2, <1>4, <1>5 DEF Holders
  <1>7. \A t \in Holders : sock[t].fd \in Fds /\ sock[t].fd # f
    <2>1. \A t \in Holders : t \in Socks /\ kernel[sock[t].fd] \in Ours
      BY <1>6 DEF CoreInv, NoStaleDescriptor
    <2> QED BY <1>0, <2>1, OwnFacts DEF Ours
  <1>8. \A t \in Socks : pc'[t] = "opened" => t # s /\ t # a /\ pc[t] = "opened" /\ new[t] \in Fds /\ new[t] # f
    BY <1>0, <1>1, <1>5 DEF CoreInv, OpenedIsOwn
  <1>9. NoStaleDescriptor' /\ AttemptIsAwaited'
    <2>1. "connected" \in Ours \ Attempt
      BY DEF Ours, Attempt
    <2>2. \A t \in Holders' \ {a} : /\ t \in Holders /\ sock'[t] = sock[t]
                                    /\ kernel'[sock[t].fd] = kernel[sock[t].fd]
      BY <1>5, <1>6, <1>7
    <2>3. NoStaleDescriptor'
      BY <1>4, <1>5, <1>6, <1>7, <2>1, <2>2 DEF CoreInv, NoStaleDescriptor
    <2>4. \A t \in Holders : pc[t] = "connect" => pc'[t] = "connect"
      BY <1>0, <1>5, <1>6
    <2>5. AttemptIsAwaited'
      BY <1>4, <1>5, <1>6, <2>1, <2>2, <2>4 DEF CoreInv, AttemptIsAwaited
    <2> QED BY <2>3, <2>5
  <1>10. OpenedIsOwn'
    BY <1>4, <1>5, <1>6, <1>7, <1>8 DEF CoreInv, OpenedIsOwn
  <1>11. AcceptedIsOwn'
    <2>1. \A t \in Socks : pc'[t] \in Accepting => pc[t] \in Accepting /\ t # a /\ new[t] # s
      BY <1>0, <1>1, <1>5 DEF CoreInv, AcceptedIsOwn, Accepting
    <2>2. \A t \in Socks : pc'[t] = "accept" => pc[t] = "accept" /\ new[t] # a
      BY <1>0, <1>1, <1>5 DEF Accepting
    <2> QED BY <1>4, <1>5, <2>1, <2>2 DEF CoreInv, AcceptedIsOwn
  <1>12. DeadIsEmpty'
    BY <1>1, <1>4, <1>5 DEF CoreInv, DeadIsEmpty
  <1>13. \A g \in Fds : g \in Leaked' <=> g \in Leaked
    <2>1. "closed" \notin Ours
      BY DEF Ours
    <2>2. \A t \in Socks : pc'[t] = "opened" <=> pc[t] = "opened"
      BY <1>0, <1>5
    <2>3. \A g \in Fds \ {f} : (\A t \in Holders' : sock'[t].fd # g) <=> (\A t \in Holders : sock[t].fd # g)
      BY <1>4, <1>5, <1>6
    <2>4. f \notin Leaked /\ f \notin Leaked'
      BY <1>0, <1>4, <1>5, <1>6, <2>1, LeakedMember, LeakedMemberNext
    <2> QED BY <1>5, <2>2, <2>3, <2>4, LeakedMember, LeakedMemberNext
  <1>14. Leaked' = Leaked
    BY <1>13 DEF Leaked
  <1> QED BY <1>5, <1>9, <1>10, <1>11, <1>12, <1>14 DEF CoreInv

\* The call fails before a connection arrives.
LEMMA AcceptErrorStep ==
    ASSUME CoreInv, NEW s \in Socks, accept_error(s)
    PROVE  CoreInv' /\ Leaked' = Leaked
  <1>0. pc[s] = "accept" /\ sock' = sock /\ new' = new /\ kernel' = kernel
    BY DEF accept_error
  <1>1. /\ SockTypes' /\ pc'[s] = "accepted"
        /\ \A t \in Socks \ {s} : pc'[t] = pc[t]
    BY <1>0 DEF accept_error, CoreInv, SockTypes, Goto, Places
  <1>2. Holders' = Holders
    BY <1>0, <1>1 DEF Holders
  <1>3. /\ \A t \in Socks : pc'[t] = "opened" <=> pc[t] = "opened"
        /\ \A t \in Socks : pc'[t] = "accept" => pc[t] = "accept"
        /\ \A t \in Socks : pc'[t] \in Accepting <=> pc[t] \in Accepting
        /\ \A t \in Socks : pc[t] \in {"connect", "nascent"} => pc'[t] = pc[t]
    BY <1>0, <1>1 DEF Accepting
  <1>4. NoStaleDescriptor' /\ AttemptIsAwaited'
    BY <1>0, <1>2, <1>3 DEF CoreInv, NoStaleDescriptor, AttemptIsAwaited, Holders
  <1>5. OpenedIsOwn'
    BY <1>0, <1>2, <1>3 DEF CoreInv, OpenedIsOwn
  <1>6. AcceptedIsOwn'
    BY <1>0, <1>3 DEF CoreInv, AcceptedIsOwn
  <1>7. DeadIsEmpty'
    BY <1>0, <1>1 DEF CoreInv, DeadIsEmpty
  <1>8. \A f \in Fds : f \in Leaked' <=> f \in Leaked
    BY <1>0, <1>2, <1>3, LeakedMember, LeakedMemberNext
  <1>9. Leaked' = Leaked
    BY <1>8 DEF Leaked
  <1> QED BY <1>1, <1>4, <1>5, <1>6, <1>7, <1>9 DEF CoreInv

\* The new socket goes to the caller, or is freed and its descriptor closed.
LEMMA AcceptReturnStep ==
    ASSUME CoreInv, NEW s \in Socks, accept_return(s)
    PROVE  CoreInv' /\ Leaked' = Leaked
  <1> DEFINE a == new[s]
  <1>0. pc[s] = "accepted"
    BY DEF accept_return
  <1>1. /\ sock[s].alive = TRUE /\ a \in Socks /\ a # s /\ pc[a] = "nascent" /\ sock[a].alive = TRUE
        /\ \A t \in Socks : pc[t] \in Accepting /\ new[t] = a => t = s
    BY <1>0 DEF CoreInv, AcceptedIsOwn, Accepting
  <1>2. /\ pc' = [pc EXCEPT ![s] = "idle", ![a] = "idle"]
        /\ new' = [new EXCEPT ![s] = Unset]
        /\ \/ sock' = sock /\ kernel' = kernel
           \/ /\ sock' = [sock EXCEPT ![a] = NoSock]
              /\ kernel' = IF sock[a].fd # Unset THEN [kernel EXCEPT ![sock[a].fd] = "closed"]
                           ELSE kernel
    BY DEF accept_return, accept_destroy, KernelSets
  <1> HIDE DEF a
  <1>3. /\ sock \in [Socks -> SockRecord] /\ pc \in [Socks -> Places]
        /\ kernel \in [Fds -> KernelStates] /\ new \in [Socks -> Fds \cup Socks \cup {Unset}]
    BY DEF CoreInv, SockTypes
  <1>4. /\ pc' \in [Socks -> Places] /\ new' \in [Socks -> Fds \cup Socks \cup {Unset}]
        /\ pc'[s] = "idle" /\ pc'[a] = "idle"
        /\ \A t \in Socks \ {s, a} : pc'[t] = pc[t]
        /\ \A t \in Socks \ {s} : new'[t] = new[t]
    BY <1>1, <1>2, <1>3 DEF Places
  <1>5. \A t \in Socks : pc'[t] = "opened" <=> pc[t] = "opened"
    BY <1>0, <1>1, <1>4
  <1>6. \A t \in Socks : pc'[t] = "opened" => t # s /\ t # a /\ new'[t] = new[t]
    BY <1>4
  <1>7. \A t \in Socks : pc'[t] \in Accepting =>
            t # s /\ t # a /\ pc'[t] = pc[t] /\ new'[t] = new[t] /\ new[t] # a /\ new[t] # s
    BY <1>0, <1>1, <1>4 DEF CoreInv, AcceptedIsOwn, Accepting
  <1>8. Holders \subseteq Socks /\ Holders' \subseteq Socks
    BY DEF Holders
  <1>9. a \in Holders <=> sock[a].fd # Unset
    BY <1>1, OwnFacts DEF Gone
  <1>10. CASE sock' = sock /\ kernel' = kernel
    <2>1. Holders' = Holders
      BY <1>0, <1>1, <1>4, <1>10 DEF Holders
    <2>2. SockTypes'
      BY <1>3, <1>4, <1>10 DEF SockTypes
    <2>3. NoStaleDescriptor'
      BY <1>10, <2>1 DEF CoreInv, NoStaleDescriptor
    <2>4. \A t \in Socks : pc[t] = "connect" => pc'[t] = "connect"
      BY <1>0, <1>1, <1>4
    <2>5. AttemptIsAwaited'
      BY <1>8, <1>10, <2>1, <2>4 DEF CoreInv, AttemptIsAwaited
    <2>6. OpenedIsOwn'
      BY <1>5, <1>6, <1>10, <2>1 DEF CoreInv, OpenedIsOwn
    <2>7. \A t \in Socks : pc'[t] \in Accepting => pc'[new[t]] = pc[new[t]]
      BY <1>4, <1>7 DEF CoreInv, AcceptedIsOwn
    <2>8. AcceptedIsOwn'
      BY <1>7, <1>10, <2>7 DEF CoreInv, AcceptedIsOwn
    <2>9. DeadIsEmpty'
      BY <1>1, <1>4, <1>10 DEF CoreInv, DeadIsEmpty
    <2>10. \A f \in Fds : f \in Leaked' <=> f \in Leaked
      BY <1>5, <1>6, <1>10, <2>1, LeakedMember, LeakedMemberNext
    <2>11. Leaked' = Leaked
      BY <2>10 DEF Leaked
    <2> QED BY <2>2, <2>3, <2>5, <2>6, <2>8, <2>9, <2>11 DEF CoreInv
  <1>11. CASE /\ sock' = [sock EXCEPT ![a] = NoSock]
              /\ kernel' = IF sock[a].fd # Unset THEN [kernel EXCEPT ![sock[a].fd] = "closed"]
                           ELSE kernel
    <2>1. NoSock \in SockRecord /\ NoSock.fd = Unset /\ NoSock.alive = FALSE
      BY DEF NoSock, SockRecord
    <2>2. sock'[a] = NoSock /\ \A t \in Socks \ {a} : sock'[t] = sock[t]
      BY <1>1, <1>3, <1>11
    <2>3. /\ a \in Holders => sock[a].fd \in Fds /\ kernel'[sock[a].fd] = "closed"
          /\ \A f \in Fds : ~(a \in Holders /\ f = sock[a].fd) => kernel'[f] = kernel[f]
      BY <1>1, <1>3, <1>9, <1>11, OwnFacts
    <2>4. a \notin Holders' /\ \A t \in Socks \ {a} : t \in Holders' <=> t \in Holders
      BY <1>0, <1>1, <1>4, <2>1, <2>2 DEF Holders
    <2>5. SockTypes'
      <3>1. "closed" \in KernelStates
        BY DEF KernelStates
      <3>2. sock' \in [Socks -> SockRecord] /\ kernel' \in [Fds -> KernelStates]
        BY <1>3, <1>11, <2>1, <3>1
      <3> QED BY <1>4, <3>2 DEF SockTypes
    <2>6. \A t \in Holders' : /\ t \in Holders /\ t # a /\ sock'[t] = sock[t] /\ sock[t].fd \in Fds
                              /\ kernel'[sock[t].fd] = kernel[sock[t].fd]
      <3>1. \A t \in Holders' : t \in Holders /\ t # a /\ sock'[t] = sock[t] /\ sock[t].fd \in Fds
        BY <1>8, <2>2, <2>4, OwnFacts
      <3>2. \A t \in Holders' : ~(a \in Holders /\ sock[t].fd = sock[a].fd)
        BY <3>1 DEF CoreInv, NoStaleDescriptor
      <3> QED BY <2>3, <3>1, <3>2
    <2>7. NoStaleDescriptor'
      BY <2>6 DEF CoreInv, NoStaleDescriptor
    <2>8. AttemptIsAwaited'
      <3>1. \A t \in Holders' : pc[t] = "connect" => pc'[t] = "connect"
        BY <1>0, <1>1, <1>4, <1>8
      <3> QED BY <2>6, <3>1 DEF CoreInv, AttemptIsAwaited
    <2>9. OpenedIsOwn'
      <3>1. \A t \in Socks : pc[t] = "opened" => kernel'[new[t]] = "fresh"
        BY <2>3 DEF CoreInv, OpenedIsOwn
      <3> QED BY <1>5, <1>6, <2>2, <2>6, <3>1 DEF CoreInv, OpenedIsOwn
    <2>10. AcceptedIsOwn'
      <3>1. \A t \in Socks : pc'[t] \in Accepting =>
                pc'[new[t]] = pc[new[t]] /\ sock'[new[t]] = sock[new[t]] /\ sock'[t] = sock[t]
        BY <1>4, <1>7, <2>2 DEF CoreInv, AcceptedIsOwn
      <3> QED BY <1>7, <3>1 DEF CoreInv, AcceptedIsOwn
    <2>11. DeadIsEmpty'
      BY <1>1, <1>4, <2>1, <2>2 DEF CoreInv, DeadIsEmpty
    <2>12. \A f \in Fds : f \in Leaked' <=> f \in Leaked
      <3>1. "closed" \notin Ours
        BY DEF Ours
      <3>2. \A f \in Fds : a \in Holders /\ f = sock[a].fd => f \notin Leaked /\ f \notin Leaked'
        BY <2>3, <3>1, LeakedMember, LeakedMemberNext
      <3>3. \A f \in Fds : ~(a \in Holders /\ f = sock[a].fd) =>
                ((\A t \in Holders' : sock'[t].fd # f) <=> (\A t \in Holders : sock[t].fd # f))
        BY <1>8, <2>2, <2>4
      <3> QED BY <1>5, <1>6, <2>3, <3>2, <3>3, LeakedMember, LeakedMemberNext
    <2>13. Leaked' = Leaked
      BY <2>12 DEF Leaked
    <2> QED BY <2>5, <2>7, <2>8, <2>9, <2>10, <2>11, <2>13 DEF CoreInv
  <1> QED BY <1>2, <1>10, <1>11

-----------------------------------------------------------------------------
(* The kernel and the rest of the process *)

\* An attempt ends, or a descriptor that is not ours comes or goes.
LEMMA KernelSteps ==
    ASSUME CoreInv, NEW f \in Fds, AttemptEnds(f) \/ ForeignOpen(f) \/ ForeignClose(f)
    PROVE  CoreInv' /\ Leaked' = Leaked
  <1>1. PICK k \in KernelStates :
            /\ kernel' = [kernel EXCEPT ![f] = k]
            /\ (kernel[f] \in Attempt /\ k \in Attempt) \/ (kernel[f] \notin Ours /\ k \notin Ours)
    BY DEF AttemptEnds, ForeignOpen, ForeignClose, KernelSets, KernelStates, Ours, Attempt
  <1>2. sock' = sock /\ pc' = pc /\ new' = new
    BY DEF AttemptEnds, ForeignOpen, ForeignClose
  <1>3. SockTypes' /\ kernel'[f] = k /\ \A g \in Fds \ {f} : kernel'[g] = kernel[g]
    BY <1>1, <1>2 DEF CoreInv, SockTypes
  <1>4. Holders' = Holders /\ \A t \in Holders : t \in Socks /\ sock[t].fd \in Fds
    BY <1>2, OwnFacts DEF Holders
  <1>5. \A g \in Fds : kernel'[g] \in Ours <=> kernel[g] \in Ours
    BY <1>1, <1>3 DEF Ours, Attempt
  <1>6. \A g \in Fds : kernel'[g] \in Attempt => kernel[g] \in Attempt
    BY <1>1, <1>3 DEF Ours, Attempt
  <1>7. NoStaleDescriptor' /\ AttemptIsAwaited'
    BY <1>2, <1>4, <1>5, <1>6 DEF CoreInv, NoStaleDescriptor, AttemptIsAwaited
  <1>8. OpenedIsOwn'
    <2>1. \A t \in Socks : pc[t] = "opened" => kernel'[new[t]] = "fresh"
      <3>1. \A t \in Socks : pc[t] = "opened" => new[t] \in Fds /\ kernel[new[t]] = "fresh"
        BY DEF CoreInv, OpenedIsOwn
      <3>2. kernel[f] # "fresh"
        BY <1>1 DEF Ours, Attempt
      <3> QED BY <1>3, <3>1, <3>2
    <2> QED BY <1>2, <1>4, <2>1 DEF CoreInv, OpenedIsOwn
  <1>9. AcceptedIsOwn' /\ DeadIsEmpty'
    BY <1>2 DEF CoreInv, AcceptedIsOwn, DeadIsEmpty
  <1>10. Leaked' = Leaked
    BY <1>2, <1>4, <1>5 DEF Leaked
  <1> QED BY <1>3, <1>7, <1>8, <1>9, <1>10 DEF CoreInv

-----------------------------------------------------------------------------
(* The inductive invariant *)

\* Every step keeps every socket on a descriptor of its own, and leaks at most
\* the descriptor that a second open overwrites.
LEMMA CoreStep == CoreInv /\ [Next]_vars => CoreInv' /\ LeakStep
  <1> SUFFICES ASSUME CoreInv, [Next]_vars PROVE CoreInv' /\ LeakStep
    OBVIOUS
  <1>1. CASE Connecting
    BY <1>1, ConnectSteps, KernelSteps DEF Connecting, LeakStep
  <1>2. ASSUME NEW s \in Socks,
               \/ jcl_ns_socket_create(s) \/ jcl_ns_socket_close(s) \/ close_assign(s)
               \/ jcl_ns_socket_destroy(s) \/ destroy_free(s)
        PROVE  CoreInv' /\ LeakStep
    BY <1>2, CloseAndDestroy DEF LeakStep
  <1>3. ASSUME NEW s \in Socks, jcl_ns_socket_open(s) \/ open_assign(s)
        PROVE  CoreInv' /\ LeakStep
    BY <1>3, OpenStep, OpenAssignStep DEF LeakStep
  <1>4. ASSUME NEW s \in Socks,
               jcl_ns_socket_set_ip(s) \/ jcl_ns_socket_set_hostname(s) \/ set_hostname_copy(s)
        PROVE  CoreInv' /\ LeakStep
    BY <1>4, AddressSteps DEF LeakStep
  <1>5. ASSUME NEW s \in Socks,
               jcl_ns_socket_shutdown(s) \/ jcl_ns_socket_bind(s) \/ jcl_ns_socket_listen(s)
        PROVE  CoreInv' /\ LeakStep
    BY <1>5, SystemCallSteps DEF LeakStep
  <1>6. ASSUME NEW s \in Socks,
               \/ \E a \in Socks \ {s} : jcl_ns_socket_accept(s, a)
               \/ \E f \in Fds : accept_connection(s, f)
               \/ accept_error(s) \/ accept_return(s)
        PROVE  CoreInv' /\ LeakStep
    BY <1>6, AcceptStep, AcceptConnectionStep, AcceptErrorStep, AcceptReturnStep DEF LeakStep
  <1>7. ASSUME NEW s \in Socks, accept_interrupted(s) PROVE CoreInv' /\ LeakStep
    BY <1>7, StutterKeeps DEF accept_interrupted, LeakStep
  <1>8. ASSUME NEW s \in Socks, jcl_ns_socket_connect(s) \/ connect_interrupted(s)
        PROVE  CoreInv' /\ LeakStep
    BY <1>8, ConnectSteps DEF LeakStep
  <1>9. ASSUME NEW f \in Fds, ForeignOpen(f) \/ ForeignClose(f)
        PROVE  CoreInv' /\ LeakStep
    BY <1>9, KernelSteps DEF LeakStep
  <1>10. CASE UNCHANGED vars
    BY <1>10, StutterKeeps DEF vars, LeakStep
  <1> QED BY <1>1, <1>2, <1>3, <1>4, <1>5, <1>6, <1>7, <1>8, <1>9, <1>10 DEF Next

\* Codes, signals and the resolver's answers: only set_hostname takes a list,
\* and its second half gives it back on both ways out.
LEMMA RestStep == IndInv /\ [Next]_vars => RestInv'
  <1> SUFFICES ASSUME IndInv, [Next]_vars PROVE RestInv'
    OBVIOUS
  <1> USE SignalsAssumption DEF RestInv, Codes, Goto, Err, Return, Idle
  <1>i. RestInv /\ CoreInv /\ pc \in [Socks -> Places]
    BY DEF IndInv, CoreInv, SockTypes
  <1>1. CASE Connecting
    BY <1>i, <1>1 DEF Connecting, connect_attempt, connect_answer, connect_error,
                      connect_unspecified, AttemptEnds
  <1>2. ASSUME NEW s \in Socks,
               \/ jcl_ns_socket_create(s) \/ jcl_ns_socket_close(s) \/ close_assign(s)
               \/ jcl_ns_socket_destroy(s) \/ destroy_free(s)
        PROVE  RestInv'
    BY <1>i, <1>2 DEF jcl_ns_socket_create, jcl_ns_socket_close, close_assign,
                      jcl_ns_socket_destroy, destroy_free
  <1>3. ASSUME NEW s \in Socks, jcl_ns_socket_open(s) \/ open_assign(s)
        PROVE  RestInv'
    BY <1>i, <1>3 DEF jcl_ns_socket_open, open_assign
  <1>4. ASSUME NEW s \in Socks,
               jcl_ns_socket_set_ip(s) \/ jcl_ns_socket_set_hostname(s) \/ set_hostname_copy(s)
        PROVE  RestInv'
    BY <1>i, <1>4 DEF jcl_ns_socket_set_ip, jcl_ns_socket_set_hostname, set_hostname_copy
  <1>5. ASSUME NEW s \in Socks,
               jcl_ns_socket_shutdown(s) \/ jcl_ns_socket_bind(s) \/ jcl_ns_socket_listen(s)
        PROVE  RestInv'
    BY <1>i, <1>5 DEF jcl_ns_socket_shutdown, jcl_ns_socket_bind, jcl_ns_socket_listen, SystemCall
  <1>6. ASSUME NEW s \in Socks, NEW a \in Socks \ {s}, jcl_ns_socket_accept(s, a)
        PROVE  RestInv'
    BY <1>i, <1>6 DEF jcl_ns_socket_accept
  <1>7. ASSUME NEW s \in Socks, NEW f \in Fds, accept_connection(s, f)
        PROVE  RestInv'
    BY <1>i, <1>7 DEF accept_connection
  <1>8. ASSUME NEW s \in Socks, accept_error(s) \/ accept_interrupted(s)
        PROVE  RestInv'
    BY <1>i, <1>8 DEF accept_error, accept_interrupted
  <1>9. ASSUME NEW s \in Socks, accept_return(s)
        PROVE  RestInv'
    <2>1. new[s] \in Socks /\ pc[new[s]] = "nascent" /\ pc[s] = "accepted"
      BY <1>i, <1>9 DEF accept_return, CoreInv, AcceptedIsOwn, Accepting
    <2> QED BY <1>i, <1>9, <2>1 DEF accept_return
  <1>10. ASSUME NEW s \in Socks, jcl_ns_socket_connect(s) \/ connect_interrupted(s)
         PROVE  RestInv'
    BY <1>i, <1>10 DEF jcl_ns_socket_connect, connect_interrupted, after_connect_interrupted
  <1>11. ASSUME NEW f \in Fds, ForeignOpen(f) \/ ForeignClose(f)
         PROVE  RestInv'
    BY <1>i, <1>11 DEF ForeignOpen, ForeignClose
  <1>12. CASE UNCHANGED vars
    BY <1>i, <1>12 DEF vars
  <1> QED BY <1>1, <1>2, <1>3, <1>4, <1>5, <1>6, <1>7, <1>8, <1>9, <1>10, <1>11, <1>12 DEF Next

\* The inductive invariant holds of every behaviour.
LEMMA Invariance == Spec => []IndInv
  <1>1. IndInv /\ [Next]_vars => IndInv'
    BY CoreStep, RestStep DEF IndInv
  <1> QED BY InitInv, <1>1, PTL DEF Spec

-----------------------------------------------------------------------------
(* The theorems *)

\* However many callers, signals and other users of descriptors there are: no
\* socket of jcl_ns_socket_* ever works on a descriptor that another socket or
\* the rest of the process owns, no list of the resolver outlives set_hostname,
\* and no attempt outlives connect.
THEOREM SocketsKeepTheirOwn == Spec => []SocketInv
  BY Invariance, IndImpliesSocketInv, PTL

\* No step of any call loses a descriptor but the second half of a
\* jcl_ns_socket_open for a socket that is open already.
THEOREM OnlyReopenLeaks == Spec => LeakOnlyByReopen
  <1>1. IndInv /\ [Next]_vars =>
            [Leaked' # Leaked =>
                \E s \in Socks : /\ pc[s] = "opened" /\ sock[s].fd # Unset
                                 /\ Leaked' = Leaked \cup {sock[s].fd}]_vars
    BY CoreStep DEF IndInv, LeakStep
  <1> QED BY Invariance, <1>1, PTL DEF Spec, LeakOnlyByReopen

\* What the step that ends a jcl_ns_socket_connect reports is what the kernel
\* has made of the descriptor.
LEMMA ConnectStepTellsTruth ==
    ASSUME IndInv, Next, NEW s \in Socks, pc[s] = "connect", pc'[s] = "idle",
           Of(s) \notin {"connected", "shut"}
    PROVE  /\ ret'[s] = "OK" /\ sock[s].addr => kernel'[sock[s].fd] = "connected"
           /\ ret'[s] # "OK" => sock[s].fd = Unset \/ kernel'[sock[s].fd] # "connected"
  <1>i. /\ CoreInv /\ RestInv
        /\ kernel \in [Fds -> KernelStates] /\ ret \in [Socks -> Codes] /\ pc \in [Socks -> Places]
    BY DEF IndInv, CoreInv, SockTypes, RestInv
  <1>o. sock[s].fd # Unset => sock[s].fd \in Fds /\ Of(s) = kernel[sock[s].fd]
    BY <1>i, OwnFacts DEF Gone
  <1>1. connect_answer(s) \/ connect_error(s) \/ connect_unspecified(s)
    <2> USE DEF Goto, Err, Return, Idle
    <2>1. \A t \in Socks : pc[t] \in Accepting => new[t] # s
      BY <1>i DEF CoreInv, AcceptedIsOwn
    <2>2. CASE Connecting
      <3>1. ASSUME NEW t \in Socks, t # s,
                   connect_attempt(t) \/ connect_answer(t) \/ connect_error(t) \/ connect_unspecified(t)
            PROVE  FALSE
        BY <1>i, <3>1 DEF connect_attempt, connect_answer, connect_error, connect_unspecified
      <3>2. ~connect_attempt(s)
        BY DEF connect_attempt
      <3>3. ASSUME NEW f \in Fds, AttemptEnds(f) PROVE FALSE
        BY <3>3 DEF AttemptEnds
      <3> QED BY <2>2, <3>1, <3>2, <3>3 DEF Connecting
    <2>3. ASSUME NEW t \in Socks,
                 \/ jcl_ns_socket_create(t) \/ jcl_ns_socket_open(t) \/ open_assign(t)
                 \/ jcl_ns_socket_close(t) \/ close_assign(t)
                 \/ jcl_ns_socket_destroy(t) \/ destroy_free(t)
                 \/ jcl_ns_socket_set_ip(t) \/ jcl_ns_socket_set_hostname(t) \/ set_hostname_copy(t)
                 \/ jcl_ns_socket_shutdown(t) \/ jcl_ns_socket_bind(t) \/ jcl_ns_socket_listen(t)
          PROVE  FALSE
      BY <1>i, <2>3 DEF jcl_ns_socket_create, jcl_ns_socket_open, open_assign, jcl_ns_socket_close,
         close_assign, jcl_ns_socket_destroy, destroy_free, jcl_ns_socket_set_ip,
         jcl_ns_socket_set_hostname, set_hostname_copy, jcl_ns_socket_shutdown,
         jcl_ns_socket_bind, jcl_ns_socket_listen, SystemCall
    <2>4. ASSUME NEW t \in Socks,
                 \/ \E a \in Socks \ {t} : jcl_ns_socket_accept(t, a)
                 \/ accept_interrupted(t) \/ accept_error(t)
                 \/ \E f \in Fds : accept_connection(t, f)
                 \/ jcl_ns_socket_connect(t) \/ connect_interrupted(t)
          PROVE  FALSE
      BY <1>i, <2>4 DEF jcl_ns_socket_accept, accept_interrupted, accept_error, accept_connection,
         jcl_ns_socket_connect, connect_interrupted, after_connect_interrupted
    <2>5. ASSUME NEW t \in Socks, accept_return(t) PROVE FALSE
      <3>1. t # s /\ new[t] # s
        BY <2>1, <2>5 DEF accept_return, Accepting
      <3> QED BY <1>i, <2>5, <3>1 DEF accept_return
    <2>6. ASSUME NEW f \in Fds, ForeignOpen(f) \/ ForeignClose(f) PROVE FALSE
      BY <2>6 DEF ForeignOpen, ForeignClose
    <2> QED BY <2>2, <2>3, <2>4, <2>5, <2>6 DEF Next
  <1> USE DEF Return, Err, KernelSets
  <1>2. CASE connect_answer(s)
    <2>1. sock[s].fd # Unset
      BY <1>2 DEF connect_answer, Of
    <2> QED BY <1>i, <1>o, <1>2, <2>1 DEF connect_answer
  <1>3. CASE connect_error(s)
    BY <1>i, <1>o, <1>3 DEF connect_error
  <1>4. CASE connect_unspecified(s)
    BY <1>i, <1>o, <1>4 DEF connect_unspecified
  <1> QED BY <1>1, <1>2, <1>3, <1>4

\* jcl_ns_socket_connect answers JCL_OK exactly when it has connected a socket
\* whose address was set, whatever signals interrupt it and whatever the other
\* callers do meanwhile.
THEOREM ConnectIsTruthful == Spec => ConnectTellsTruth
  <1>1. IndInv /\ [Next]_vars =>
            [\A s \in Socks :
                pc[s] = "connect" /\ pc'[s] = "idle" /\ Of(s) \notin {"connected", "shut"} =>
                    /\ ret'[s] = "OK" /\ sock[s].addr => kernel'[sock[s].fd] = "connected"
                    /\ ret'[s] # "OK" => sock[s].fd = Unset \/ kernel'[sock[s].fd] # "connected"]_vars
    BY ConnectStepTellsTruth
  <1> QED BY Invariance, <1>1, PTL DEF Spec, ConnectTellsTruth
=============================================================================
