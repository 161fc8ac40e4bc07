----------------------------- MODULE GraphSort -----------------------------
(***************************************************************************)
(* How a match graph is put in order (json_merger/graph_builder.py):       *)
(* toposort, and sort_cyclic_graph_best_effort when toposort raises.       *)
(*                                                                         *)
(* In a match graph every node has at most one next node on each side, so  *)
(* that the nodes that come from head form a chain from FIRST, and those   *)
(* that come from update another.                                          *)
(***************************************************************************)
EXTENDS Integers, Sequences, FiniteSets

CONSTANT MaxNodes  \* the match graphs given have up to MaxNodes nodes

ASSUME MaxNodesAssumption == MaxNodes \in Nat

VARIABLES
  graph,       \* node |-> the next node on each side
  pick_first,  \* the side that comes first where the order is free
  pc,          \* "count", "toposort", "first_chain", "second_chain", "sorted"
  in_deg,      \* toposort: in-edges not yet followed
  stk,         \* toposort: nodes ready to be output
  visited,
  ordered,     \* the output
  current,     \* fallback: where the walk along a chain is
  cyclic       \* toposort has raised ValueError

inputs == <<graph, pick_first>>
vars == <<graph, pick_first, pc, in_deg, stk, visited, ordered, current, cyclic>>

NONE  == -1
FIRST == 0
Sides == {"head", "update"}
Other == [head |-> "update", update |-> "head"]

Nodes == DOMAIN graph

---------------------------------------------------------------------------
(* The match graphs of n nodes: each node is on one of two chains at least.*)
Chains(n) ==
  {c \in UNION {[1 .. k -> 1 .. n] : k \in 0 .. n} :
     \A i, j \in DOMAIN c : c[i] = c[j] => i = j}

NextIn(c, n) ==
  LET at == IF n = FIRST THEN 0 ELSE CHOOSE i \in DOMAIN c : c[i] = n
  IN  IF at + 1 \in DOMAIN c THEN c[at + 1] ELSE NONE

Visits(c, n) == n = FIRST \/ \E i \in DOMAIN c : c[i] = n

TwoChains(n, h, u) ==
  [m \in 0 .. n |->
     [head   |-> IF Visits(h, m) THEN NextIn(h, m) ELSE NONE,
      update |-> IF Visits(u, m) THEN NextIn(u, m) ELSE NONE]]

MatchGraphs(n) ==
  {TwoChains(n, p[1], p[2]) :
     p \in {q \in Chains(n) \X Chains(n) :
              \A m \in 1 .. n : Visits(q[1], m) \/ Visits(q[2], m)}}

StartSort ==
  /\ pc = "count"
  /\ in_deg = <<>> /\ stk = <<>> /\ visited = {} /\ ordered = <<>>
  /\ current = FIRST
  /\ cyclic = FALSE

IsMatchGraph == \E n \in 0 .. MaxNodes : graph \in MatchGraphs(n)

Init ==
  /\ IsMatchGraph
  /\ pick_first \in Sides
  /\ StartSort

---------------------------------------------------------------------------
(* toposort counts the edges into each node; FIRST is ready.               *)
CountInDegrees ==
  /\ pc = "count"
  /\ in_deg' = [n \in Nodes |-> Cardinality({e \in Nodes \X Sides : graph[e[1]][e[2]] = n})]
  /\ stk' = <<FIRST>>
  /\ pc' = "toposort"
  /\ UNCHANGED <<inputs, visited, ordered, current, cyclic>>

(* Mutant: the node of the pick_first side goes under the other one.       *)
TraversalSwapped(next) == <<next[pick_first], next[Other[pick_first]]>>

(* The successors of a node, the one on the pick_first side last: it is    *)
(* then on top of the stack.                                               *)
Traversal(next) == <<next[Other[pick_first]], next[pick_first]>>

(* Mutant: a node is ready only once its in-degree is below 0.             *)
RelaxLate(w, n) ==
  IF n = NONE THEN w
  ELSE [in_deg |-> [w.in_deg EXCEPT ![n] = @ - 1],
        stk    |-> IF w.in_deg[n] = 0 THEN Append(w.stk, n) ELSE w.stk]

(* Following an edge: w holds in_deg and stk.                              *)
Relax(w, n) ==
  IF n = NONE THEN w
  ELSE [in_deg |-> [w.in_deg EXCEPT ![n] = @ - 1],
        stk    |-> IF w.in_deg[n] = 1 THEN Append(w.stk, n) ELSE w.stk]

(* Mutant: what toposort has met is not met by the fallback.               *)
GiveUpDirty ==
  /\ cyclic' = TRUE
  /\ ordered' = <<>> /\ current' = FIRST
  /\ pc' = "first_chain"
  /\ UNCHANGED <<inputs, in_deg, stk, visited>>

(* toposort raises ValueError and unify calls the fallback.                *)
GiveUp ==
  /\ cyclic' = TRUE
  /\ visited' = {} /\ ordered' = <<>> /\ current' = FIRST
  /\ pc' = "first_chain"
  /\ UNCHANGED <<inputs, in_deg, stk>>

(* Mutant: the order is built from its end.                                *)
OutputInFront(node) ==
  LET t == Traversal(graph[node])
      rest == [in_deg |-> in_deg, stk |-> SubSeq(stk, 1, Len(stk) - 1)]
      after == Relax(Relax(rest, t[1]), t[2])
  IN  /\ in_deg' = after.in_deg
      /\ stk' = after.stk
      /\ visited' = visited \cup {node}
      /\ ordered' = IF node = FIRST THEN ordered ELSE <<node>> \o ordered
      /\ UNCHANGED <<inputs, pc, current, cyclic>>

(* The node on top of the stack is output and its out-edges are followed.  *)
Output(node) ==
  LET t == Traversal(graph[node])
      rest == [in_deg |-> in_deg, stk |-> SubSeq(stk, 1, Len(stk) - 1)]
      after == Relax(Relax(rest, t[1]), t[2])
  IN  /\ in_deg' = after.in_deg
      /\ stk' = after.stk
      /\ visited' = visited \cup {node}
      /\ ordered' = IF node = FIRST THEN ordered ELSE Append(ordered, node)
      /\ UNCHANGED <<inputs, pc, current, cyclic>>

PopNode ==
  /\ pc = "toposort" /\ stk # <<>>
  /\ LET node == stk[Len(stk)] IN
     IF \E l \in Sides : graph[node][l] \in visited \cup {node}
       THEN GiveUp
       ELSE Output(node)

(* Mutant: nodes that never become ready are not missed.                   *)
FinishUnchecked ==
  /\ pc = "toposort" /\ stk = <<>>
  /\ pc' = "sorted"
  /\ UNCHANGED <<inputs, in_deg, stk, visited, ordered, current, cyclic>>

FinishToposort ==
  /\ pc = "toposort" /\ stk = <<>>
  /\ IF Len(ordered) = Cardinality(Nodes) - 1
       THEN pc' = "sorted" /\ UNCHANGED <<inputs, in_deg, stk, visited, ordered, current, cyclic>>
       ELSE GiveUp

---------------------------------------------------------------------------
(* sort_cyclic_graph_best_effort walks along the chain of pick_first, then *)
(* along the other one, and outputs what it has not met before.            *)
Walk(l) ==
  /\ current # NONE
  /\ visited' = visited \cup {current}
  /\ current' = graph[current][l]
  /\ ordered' = IF current' \in visited' \cup {NONE} THEN ordered ELSE Append(ordered, current')
  /\ UNCHANGED <<inputs, pc, in_deg, stk, cyclic>>

WalkFirst  == pc = "first_chain"  /\ Walk(pick_first)
WalkSecond == pc = "second_chain" /\ Walk(Other[pick_first])

(* Mutant: the second walk starts again at its end.                        *)
EndOfChainRestarts ==
  /\ pc \in {"first_chain", "second_chain"} /\ current = NONE
  /\ pc' = "second_chain" /\ current' = FIRST
  /\ UNCHANGED <<inputs, in_deg, stk, visited, ordered, cyclic>>

EndOfChain ==
  /\ pc \in {"first_chain", "second_chain"} /\ current = NONE
  /\ IF pc = "first_chain"
       THEN pc' = "second_chain" /\ current' = FIRST
       ELSE pc' = "sorted" /\ UNCHANGED current
  /\ UNCHANGED <<inputs, in_deg, stk, visited, ordered, cyclic>>

SortGraph ==
  CountInDegrees \/ PopNode \/ FinishToposort \/ WalkFirst \/ WalkSecond \/ EndOfChain

(* The order has been returned: nothing happens any more.                  *)
Sorted == pc = "sorted" /\ UNCHANGED vars

Next == SortGraph \/ Sorted

Spec == Init /\ [][Next]_vars

(* The sort is a sequential computation, which runs until it returns.      *)
FairSpec == Spec /\ WF_vars(SortGraph)

---------------------------------------------------------------------------
(* The reference notions: the chain of a side, as the node that is k steps *)
(* from FIRST; and m comes before n on a side.                             *)
Step(l) ==
  LET at[k \in Nat] ==
        IF k = 0 THEN FIRST
        ELSE IF at[k - 1] = NONE THEN NONE ELSE graph[at[k - 1]][l]
  IN  at

OnChain(l, n) == \E k \in 1 .. Cardinality(Nodes) : Step(l)[k] = n

Precedes(l, m, n) ==
  \E j \in 1 .. Cardinality(Nodes) : \E i \in 1 .. j - 1 : Step(l)[i] = m /\ Step(l)[j] = n

OutputBefore(m, n) ==
  \E j \in 1 .. Len(ordered) : \E i \in 1 .. j - 1 : ordered[i] = m /\ ordered[j] = n

(* The order has every node once, the fallback's included: an entity that  *)
(* is only on one side is not dropped when the sides disagree              *)
(* (graph_builder.py:273 "both chains will always contain all the          *)
(* elements": together).                                                   *)
Complete ==
  pc = "sorted" =>
    /\ {ordered[i] : i \in 1 .. Len(ordered)} = Nodes \ {FIRST}
    /\ Len(ordered) = Cardinality(Nodes) - 1

(* An order that toposort returns respects the order of head and that of   *)
(* update.                                                                 *)
OrderPreserved ==
  pc = "sorted" /\ ~cyclic =>
    \A l \in Sides : \A m, n \in Nodes : Precedes(l, m, n) => OutputBefore(m, n)

(* toposort raises exactly when head and update have two nodes in opposite *)
(* orders: a REORDER conflict is reported for nothing less.                *)
CyclicIffReordered ==
  pc = "sorted" =>
    (cyclic <=> \E m, n \in Nodes : Precedes("head", m, n) /\ Precedes("update", n, m))

(* Where toposort is free to swap two neighbours, one from each side only, *)
(* the one of pick_first comes first.                                      *)
TieBreak ==
  pc = "sorted" /\ ~cyclic =>
    \A i \in 1 .. Len(ordered) - 1 :
      ~ /\ ~OnChain(pick_first, ordered[i])
        /\ ~OnChain(Other[pick_first], ordered[i + 1])

(* The fallback returns the chain of pick_first in its order, then what is *)
(* only on the other one in the order of that.                             *)
FallbackOrder ==
  pc = "sorted" /\ cyclic =>
    LET other == Other[pick_first] IN
    \A m, n \in Nodes \ {FIRST} :
      \/ Precedes(pick_first, m, n)
      \/ OnChain(pick_first, m) /\ ~OnChain(pick_first, n)
      \/ ~OnChain(pick_first, m) /\ ~OnChain(pick_first, n) /\ Precedes(other, m, n)
      => OutputBefore(m, n)

(* The sort returns, on cyclic graphs too.                                 *)
Termination == <>(pc = "sorted")
=============================================================================
