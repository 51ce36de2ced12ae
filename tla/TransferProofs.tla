-------------------------- MODULE TransferProofs --------------------------
(***************************************************************************)
(* For every buffer, every number of signals and every way the kernel      *)
(* splits the transfer: what the loops count and report is what moved.     *)
(***************************************************************************)
EXTENDS Transfer, SequenceTheorems, TLAPS

\* While a loop runs, err is JCL_OK or the INTER that only the file loops keep,
\* and as long as it is JCL_OK the count is exact.
LoopInv ==
    pc = "loop" => /\ err \in {"OK", "INTER"}
                   /\ err = "INTER" => fn \in FileFns /\ signals > 0
                   /\ err = "OK" => stream = InOrder(total)

IndInv == TypeOK /\ CountedIsPrefix /\ CountIsExact /\ OkIsComplete /\ LoopInv

-----------------------------------------------------------------------------
\* InOrder(n) is the sequence of the first n places.
LEMMA InOrderIsSeq ==
    ASSUME NEW n \in Nat
    PROVE  InOrder(n) \in Seq(Int) /\ Len(InOrder(n)) = n /\ \A k \in 1 .. n : InOrder(n)[k] = k - 1
  BY DEF InOrder

\* Appending the next n places to the first t gives the first t + n.
LEMMA AppendInOrder ==
    ASSUME NEW t \in Nat, NEW n \in Nat
    PROVE  InOrder(t) \o [k \in 1 .. n |-> t + k - 1] = InOrder(t + n)
  <1> DEFINE a == InOrder(t)
             b == [k \in 1 .. n |-> t + k - 1]
  <1>1. a \in Seq(Int) /\ Len(a) = t /\ \A k \in 1 .. t : a[k] = k - 1
    BY DEF InOrder
  <1>2. b \in Seq(Int) /\ Len(b) = n /\ \A k \in 1 .. n : b[k] = t + k - 1
    OBVIOUS
  <1> HIDE DEF a, b
  <1>3. /\ a \o b \in Seq(Int) /\ Len(a \o b) = t + n
        /\ \A k \in 1 .. t + n : (a \o b)[k] = IF k <= t THEN a[k] ELSE b[k - t]
    BY <1>1, <1>2, ConcatProperties
  <1>4. \A k \in 1 .. t + n : (a \o b)[k] = k - 1
    BY <1>1, <1>2, <1>3
  <1> DEFINE c == InOrder(t + n)
  <1>5. c \in Seq(Int) /\ Len(c) = t + n /\ \A k \in 1 .. t + n : c[k] = k - 1
    BY InOrderIsSeq
  <1> HIDE DEF c
  <1>6. a \o b = c
    BY <1>3, <1>4, <1>5, SeqEqual
  <1> QED BY <1>6 DEF a, b, c

\* What passed(n) appends stays inside the buffer and behind what was counted.
LEMMA AppendTypes ==
    ASSUME NEW s \in Seq(0 .. MaxSize - 1), NEW t \in Nat, NEW n \in Nat, t + n <= MaxSize
    PROVE  /\ s \o [k \in 1 .. n |-> t + k - 1] \in Seq(0 .. MaxSize - 1)
           /\ Len(s \o [k \in 1 .. n |-> t + k - 1]) = Len(s) + n
           /\ \A k \in 1 .. Len(s) : (s \o [j \in 1 .. n |-> t + j - 1])[k] = s[k]
  <1> DEFINE b == [k \in 1 .. n |-> t + k - 1]
  <1>1. b \in Seq(0 .. MaxSize - 1) /\ Len(b) = n
    BY BoundsAssumption
  <1>2. Len(s) \in Nat
    BY LenProperties
  <1> HIDE DEF b
  <1>3. /\ s \o b \in Seq(0 .. MaxSize - 1) /\ Len(s \o b) = Len(s) + n
        /\ \A k \in 1 .. Len(s) + n : (s \o b)[k] = IF k <= Len(s) THEN s[k] ELSE b[k - Len(s)]
    BY <1>1, ConcatProperties
  <1> QED BY <1>2, <1>3 DEF b

-----------------------------------------------------------------------------
(* The inductive invariant *)

\* Before the first call nothing has moved.
LEMMA InitInv == Init => IndInv
  BY BoundsAssumption DEF Init, IndInv, TypeOK, Codes, CountedIsPrefix, CountIsExact,
     OkIsComplete, LoopInv, InOrder, FileFns, SocketFns

\* No step of a loop, and no new call, breaks the invariant.
LEMMA InductiveStep == IndInv /\ [Next]_vars => IndInv'
  <1> SUFFICES ASSUME IndInv, [Next]_vars PROVE IndInv'
    OBVIOUS
  <1> USE BoundsAssumption
  <1>t. /\ size \in 0 .. MaxSize /\ total \in 0 .. size /\ stream \in Seq(0 .. MaxSize - 1)
        /\ signals \in 0 .. MaxInterrupts /\ Len(stream) \in Nat
    BY LenProperties DEF IndInv, TypeOK
  <1>1. ASSUME NEW f \in FileFns \cup SocketFns, NEW n \in 0 .. MaxSize, Call(f, n) PROVE IndInv'
    BY <1>1 DEF Call, IndInv, TypeOK, Codes, CountedIsPrefix, CountIsExact, OkIsComplete,
       LoopInv, InOrder
  <1>2. ASSUME NEW n \in 1 .. size - total, transfer(n) PROVE IndInv'
    <2>0. /\ stream' = stream \o [k \in 1 .. n |-> total + k - 1]
          /\ total' = IF err = "OK" THEN total + n ELSE total
          /\ fn' = fn /\ size' = size /\ err' = err /\ pc' = pc /\ signals' = signals
          /\ pc = "loop"
      BY <1>2 DEF transfer, passed, counts, Looping
    <2>1. /\ stream' \in Seq(0 .. MaxSize - 1) /\ Len(stream') = Len(stream) + n
          /\ \A k \in 1 .. Len(stream) : stream'[k] = stream[k]
      BY <1>t, <2>0, AppendTypes
    <2>2. total' \in 0 .. size
      BY <1>t, <2>0
    <2>3. TypeOK'
      BY <2>0, <2>1, <2>2 DEF IndInv, TypeOK
    <2>4. CASE err = "OK"
      <3>1. stream = InOrder(total)
        BY <2>0, <2>4 DEF IndInv, LoopInv
      <3>2. stream' = InOrder(total')
        <4>1. total \in Nat /\ n \in Nat /\ total' = total + n
          BY <1>t, <2>0, <2>4
        <4>2. InOrder(total) \o [k \in 1 .. n |-> total + k - 1] = InOrder(total + n)
          BY <4>1, AppendInOrder
        <4> QED BY <2>0, <3>1, <4>1, <4>2
      <3>3. CountedIsPrefix'
        BY <2>2, <3>2, <1>t, InOrderIsSeq DEF CountedIsPrefix
      <3> QED
        BY <2>0, <2>3, <2>4, <3>2, <3>3 DEF IndInv, CountIsExact, OkIsComplete, LoopInv
    <2>5. CASE err # "OK"
      <3>1. total' = total /\ err = "INTER" /\ fn \in FileFns /\ signals > 0
        BY <2>0, <2>5 DEF IndInv, LoopInv
      <3>2. CountedIsPrefix'
        BY <1>t, <2>1, <3>1 DEF IndInv, CountedIsPrefix
      <3> QED
        BY <1>t, <2>0, <2>3, <2>5, <3>1, <3>2
        DEF IndInv, CountIsExact, OkIsComplete, LoopInv, FileFns, SocketFns
    <2> QED BY <2>4, <2>5
  <1>3. CASE end_of_stream
    BY <1>3 DEF end_of_stream, EndCode, Looping, IndInv, TypeOK, Codes, CountedIsPrefix,
       CountIsExact, OkIsComplete, LoopInv, ReadFns
  <1>4. CASE interrupted
    <2>1. /\ pc = "loop" /\ pc' = pc /\ signals' = signals + 1 /\ signals < MaxInterrupts
          /\ err' = IF fn \in SocketFns THEN "OK" ELSE "INTER"
          /\ fn' = fn /\ size' = size /\ total' = total /\ stream' = stream
      BY <1>4 DEF interrupted, interrupted_err, Looping
    <2>2. TypeOK' /\ CountedIsPrefix'
      BY <1>t, <2>1 DEF IndInv, TypeOK, Codes, CountedIsPrefix
    <2>3. fn \in SocketFns \/ fn \in FileFns
      BY DEF IndInv, TypeOK
    <2>4. signals' > 0
      BY <1>t, <2>1
    <2>5. fn \in SocketFns => stream = InOrder(total)
      BY DEF IndInv, CountIsExact
    <2> QED
      BY <2>1, <2>2, <2>3, <2>4, <2>5 DEF IndInv, CountIsExact, OkIsComplete, LoopInv
  <1>5. CASE failed
    BY <1>5 DEF failed, WrapperErrors, Looping, IndInv, TypeOK, Codes, CountedIsPrefix,
       CountIsExact, OkIsComplete, LoopInv
  <1>6. CASE finished
    BY <1>6, <1>t DEF finished, IndInv, TypeOK, CountedIsPrefix, CountIsExact, OkIsComplete,
       LoopInv
  <1>7. CASE UNCHANGED vars
    BY <1>7 DEF vars, IndInv, TypeOK, CountedIsPrefix, CountIsExact, OkIsComplete, LoopInv
  <1> QED
    BY <1>1, <1>2, <1>3, <1>4, <1>5, <1>6, <1>7 DEF Next

\* The invariant holds of every behaviour.
LEMMA Invariance == Spec => []IndInv
  BY InitInv, InductiveStep, PTL DEF Spec

-----------------------------------------------------------------------------
(* The theorems *)

\* No loop touches a place outside the buffer or counts more than it was given.
THEOREM TypeCorrect == Spec => []TypeOK
  BY Invariance, PTL DEF IndInv

\* What jfs_fio_write, jfs_fio_read, jcl_ns_socket_send and jcl_ns_socket_recv
\* return is the front of what passed, in order.
THEOREM CountsAreHonest == Spec => []CountedIsPrefix
  BY Invariance, PTL DEF IndInv

\* The socket loops, and the file loops that no signal interrupts, count every
\* byte exactly once.
THEOREM CountsAreExact == Spec => []CountIsExact
  BY Invariance, PTL DEF IndInv

\* A call that returns with JCL_OK has moved the whole buffer, once.
THEOREM OkMeansComplete == Spec => []OkIsComplete
  BY Invariance, PTL DEF IndInv
=============================================================================
