--------------------------- MODULE RecencyCache ---------------------------
(***************************************************************************)
(* What an LRU cache promises, without slots: a set of at most Capacity    *)
(* keys, and which of any two was used more recently.                      *)
(***************************************************************************)
EXTENDS Naturals, FiniteSets

CONSTANTS Keys, Capacity

VARIABLES
    held,       \* the keys in the cache
    newer       \* <<a, b>>: a has been used more recently than b

Oldest == {k \in held : \A l \in held : <<k, l>> \notin newer}

\* What has to leave to make room for k.
Victims(k) == IF k \in held \/ Cardinality(held) < Capacity THEN {} ELSE Oldest

Init == held = {} /\ newer = {}

Use(k) ==
    /\ held' = (held \ Victims(k)) \cup {k}
    /\ newer' = {p \in newer : {p[1], p[2]} \subseteq held' \ {k}} \cup ({k} \X (held' \ {k}))

Release == held' = {} /\ newer' = {}

Next == Release \/ \E k \in Keys : Use(k)

Spec == Init /\ [][Next]_<<held, newer>>
=============================================================================
