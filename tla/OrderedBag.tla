---------------------------- MODULE OrderedBag ----------------------------
(***************************************************************************)
(* What the tree promises a client, without nodes, links or a cache: a bag *)
(* of at most Capacity keys, whose every operation takes effect at once.   *)
(* bag counts the values held of each key, size those of all keys; answer  *)
(* is what the last operation has answered, or nothing when one has begun  *)
(* and not yet taken effect.                                               *)
(***************************************************************************)
EXTENDS Integers, FiniteSetsExt

CONSTANTS Keys, Capacity, NULL

VARIABLES bag, size, answer

vars == <<bag, size, answer>>

Nothing == [err |-> "none", out |-> NULL]
Answer(err, out) == [err |-> err, out |-> out]

Held == {k \in Keys : bag[k] > 0}

Init == bag = [k \in Keys |-> 0] /\ size = 0 /\ answer = Nothing

Begin == answer' = Nothing /\ UNCHANGED <<bag, size>>

Put(k) ==
    \/ /\ size < Capacity
       /\ bag' = [bag EXCEPT ![k] = @ + 1] /\ size' = size + 1
       /\ answer' = Answer("OK", NULL)
    \/ /\ size = Capacity
       /\ answer' = Answer("FULL", NULL) /\ UNCHANGED <<bag, size>>

Remove(k) ==
    /\ bag[k] > 0
    /\ bag' = [bag EXCEPT ![k] = @ - 1] /\ size' = size - 1
    /\ answer' = Answer("OK", k)

Peek(k) == bag[k] > 0 /\ answer' = Answer("OK", k) /\ UNCHANGED <<bag, size>>

\* The key is handed out; the value behind it may stay where it is.
Take(k) ==
    \/ Remove(k)
    \/ Peek(k)
    \/ /\ bag[k] = 0 /\ Held # {}
       /\ answer' = Answer("BAD_KEY", NULL) /\ UNCHANGED <<bag, size>>

Empty == Held = {} /\ answer' = Answer("EMPTY", NULL) /\ UNCHANGED <<bag, size>>

GetSmallest == Held # {} /\ Remove(Min(Held))
GetLargest  == Held # {} /\ Remove(Max(Held))

Next ==
    \/ Begin \/ Empty \/ GetSmallest \/ GetLargest
    \/ \E k \in Keys : Put(k) \/ Take(k)

Spec == Init /\ [][Next]_vars
=============================================================================
