--------------------------- MODULE BipartiteGraph ---------------------------
(***************************************************************************)
(* The graphs that link elements of one list to elements of another, as    *)
(* json_merger/contrib/inspirehep/match.py builds them, and what their     *)
(* connected components are.                                               *)
(***************************************************************************)
EXTENDS Integers

CONSTANTS N1, N2  \* the lengths of the two lists

ASSUME SizesAssumption == N1 \in Nat /\ N2 \in Nat

Pairs == (0 .. N1 - 1) \X (0 .. N2 - 1)

(* The code's (p1_node, None) and (None, p2_node).                         *)
Node1(e) == <<1, e[1]>>
Node2(e) == <<2, e[2]>>
Nodes == ({1} \X (0 .. N1 - 1)) \cup ({2} \X (0 .. N2 - 1))

(* The indices of a component, in the one list and in the other.           *)
Split(S) == <<{n[2] : n \in {m \in S : m[1] = 1}}, {n[2] : n \in {m \in S : m[1] = 2}}>>

(* The nodes that the edges in E connect to n are those in every set that  *)
(* contains n and, of each edge, both ends or none.                        *)
Connected(E, n) ==
  {m \in Nodes :
     \A S \in SUBSET Nodes :
       n \in S /\ (\A e \in E : Node1(e) \in S <=> Node2(e) \in S) => m \in S}

ComponentsOf(E) == {Split(Connected(E, Node1(e))) : e \in E}
=============================================================================
