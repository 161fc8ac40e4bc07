--------------------------- MODULE EntityClasses ---------------------------
(***************************************************************************)
(* What the match graph builder promises, without its loops, its search or *)
(* its index maps: entities connected by matches are one entity, each kept *)
(* entity is resolved together with its whole class, in no given order,    *)
(* into one node or into the choices put to the user, and the builder does *)
(* not return before all are.                                              *)
(***************************************************************************)
EXTENDS MatchInputs

VARIABLES
  nodes,    \* the triples merged as one entity
  choices,  \* the triples put to the user
  done      \* the builder has returned

Kept == {x \in Elements : x[1] \in sources}

Init ==
  /\ InputInit
  /\ nodes = {} /\ choices = {}
  /\ done = FALSE

Resolve(x) ==
  /\ ~done
  /\ IF Unambiguous(Class(x))
       THEN nodes' = nodes \cup Triples(Class(x)) /\ UNCHANGED choices
       ELSE choices' = choices \cup Triples(Class(x)) /\ UNCHANGED nodes
  /\ UNCHANGED <<inputs, done>>

Resolved(x) == Triples(Class(x)) \subseteq nodes \cup choices

Return ==
  /\ ~done
  /\ \A x \in Kept : Resolved(x)
  /\ done' = TRUE
  /\ UNCHANGED <<inputs, nodes, choices>>

Next == Return \/ \E x \in Kept : Resolve(x)

Spec == Init /\ [][Next]_<<inputs, nodes, choices, done>>
=============================================================================
