----------------------------- MODULE FreeStack ------------------------------
(***************************************************************************)
(* What a free list promises: once made it holds a number of objects, and  *)
(* every object is either on the stack or with the caller, never on both   *)
(* and never twice.  This is the stack that BinarySearchTree works with;   *)
(* there are no addresses, links or bytes here.                            *)
(***************************************************************************)
EXTENDS Sequences, SequencesExt

CONSTANT Objects    \* what may be an object

VARIABLES
    made,   \* whether the list has been made
    stack,  \* the free objects, the next one first
    out     \* the objects the caller holds

vars == <<made, stack, out>>

Init == made = FALSE /\ stack = <<>> /\ out = {}

Make ==
    /\ ~made /\ made' = TRUE
    /\ ToSet(stack') \subseteq Objects /\ IsInjective(stack')
    /\ UNCHANGED out

Alloc ==
    /\ made /\ stack # <<>>
    /\ stack' = Tail(stack) /\ out' = out \cup {Head(stack)}
    /\ UNCHANGED made

Free(o) ==
    /\ made /\ o \in out
    /\ stack' = <<o>> \o stack /\ out' = out \ {o}
    /\ UNCHANGED made

\* The memory of the objects is given up.
Drop == made' = FALSE /\ stack' = <<>> /\ out' = {}

Next == Make \/ Drop \/ Alloc \/ \E o \in Objects : Free(o)

Spec == Init /\ [][Next]_vars
=============================================================================
