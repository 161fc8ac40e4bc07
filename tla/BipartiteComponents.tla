------------------------ MODULE BipartiteComponents ------------------------
(***************************************************************************)
(* BipartiteConnectedComponents (json_merger/contrib/inspirehep/match.py): *)
(* union-find with path compression over the elements of two lists, used   *)
(* to split a matching problem into its connected components.  The loops   *)
(* of _find are steps, so that what a caller holds across a second _find   *)
(* is what it has found before the compression.                            *)
(*                                                                         *)
(* Edges are added in any order: the code's is one of them.                *)
(***************************************************************************)
EXTENDS BipartiteGraph

VARIABLES
  edges,       \* the pairs of indices that are linked
  todo,        \* the edges that have not been added yet
  edge,        \* the edge that add_edge is adding
  parents,
  pc,          \* "edges", "climb", "compress", "keys", "done"
  caller,      \* who has called _find: "node_1", "node_2", "key"
  key,         \* the key that get_connected_components is grouping
  node, root,  \* the variables of _find
  parent_1,    \* what _find has returned for node_1
  buckets,     \* components_by_root
  components   \* what has been yielded: pairs of sets of indices

vars == <<edges, todo, edge, parents, pc, caller, key, node, root,
          parent_1, buckets, components>>

NoNode == <<0, 0>>
NoEdge == <<-1, -1>>

Set(f, x, v) == [y \in DOMAIN f \cup {x} |-> IF y = x THEN v ELSE f[y]]

Init ==
  /\ edges \in SUBSET Pairs
  /\ todo = edges
  /\ edge = NoEdge
  /\ parents = [n \in {} |-> NoNode]
  /\ pc = "edges" /\ caller = "node_1"
  /\ key = NoNode /\ node = NoNode /\ root = NoNode /\ parent_1 = NoNode
  /\ buckets = [n \in {} |-> {}]
  /\ components = {}

(* The call _find(n).                                                      *)
CallFind(who, n) ==
  /\ caller' = who
  /\ node' = n /\ root' = n
  /\ pc' = "climb"

---------------------------------------------------------------------------
(* add_edge: _union finds the root of one end, then of the other.          *)
AddEdge ==
  /\ pc = "edges"
  /\ \E e \in todo :
       /\ edge' = e
       /\ todo' = todo \ {e}
       /\ CallFind("node_1", Node1(e))
  /\ UNCHANGED <<edges, parents, key, parent_1, buckets, components>>

(* The first loop of _find climbs to the root...                           *)
Climb ==
  /\ pc = "climb"
  /\ IF root \in DOMAIN parents
       THEN root' = parents[root] /\ UNCHANGED pc
       ELSE pc' = "compress" /\ UNCHANGED root
  /\ UNCHANGED <<edges, todo, edge, parents, caller, key, node, parent_1, buckets, components>>

(* ...and the second one makes it the parent of every node on the way.     *)
Compress ==
  /\ pc = "compress"
  /\ node \in DOMAIN parents
  /\ node' = parents[node]
  /\ parents' = [parents EXCEPT ![node] = root]
  /\ UNCHANGED <<edges, todo, edge, pc, caller, key, root, parent_1, buckets, components>>

Found(who) == pc = "compress" /\ node \notin DOMAIN parents /\ caller = who

FindOtherEnd ==
  /\ Found("node_1")
  /\ parent_1' = root
  /\ CallFind("node_2", Node2(edge))
  /\ UNCHANGED <<edges, todo, edge, parents, key, buckets, components>>

(* Mutant: the end itself is linked, not its root.                         *)
UnionOfEnds ==
  /\ Found("node_2")
  /\ parents' = IF parent_1 # root THEN Set(parents, Node1(edge), root) ELSE parents
  /\ pc' = "edges"
  /\ edge' = NoEdge
  /\ UNCHANGED <<edges, todo, caller, key, node, root, parent_1, buckets, components>>

(* Mutant: two ends with the same root are linked too.                     *)
UnionAlways ==
  /\ Found("node_2")
  /\ parents' = Set(parents, parent_1, root)
  /\ pc' = "edges"
  /\ edge' = NoEdge
  /\ UNCHANGED <<edges, todo, caller, key, node, root, parent_1, buckets, components>>

Union ==
  /\ Found("node_2")
  /\ parents' = IF parent_1 # root THEN Set(parents, parent_1, root) ELSE parents
  /\ pc' = "edges"
  /\ edge' = NoEdge
  /\ UNCHANGED <<edges, todo, caller, key, node, root, parent_1, buckets, components>>

---------------------------------------------------------------------------
(* get_connected_components: every key of parents is put in the bucket of  *)
(* its root, while _find goes on compressing the paths.                    *)
Group ==
  /\ pc = "edges" /\ todo = {}
  /\ pc' = "keys"
  /\ UNCHANGED <<edges, todo, edge, parents, caller, key, node, root, parent_1, buckets, components>>

Grouped == UNION {buckets[r] : r \in DOMAIN buckets}

NextKey ==
  /\ pc = "keys"
  /\ \E n \in DOMAIN parents \ Grouped :
       /\ key' = n
       /\ CallFind("key", n)
  /\ UNCHANGED <<edges, todo, edge, parents, parent_1, buckets, components>>

PutInBucket ==
  /\ Found("key")
  /\ buckets' = Set(buckets, root,
                    (IF root \in DOMAIN buckets THEN buckets[root] ELSE {}) \cup {key})
  /\ pc' = "keys"
  /\ UNCHANGED <<edges, todo, edge, parents, caller, key, node, root, parent_1, components>>

(* Mutant: the roots, which are no keys, are left out.                     *)
YieldKeys ==
  /\ pc = "keys" /\ DOMAIN parents \subseteq Grouped
  /\ components' = {Split(buckets[r]) : r \in DOMAIN buckets}
  /\ pc' = "done"
  /\ UNCHANGED <<edges, todo, edge, parents, caller, key, node, root, parent_1, buckets>>

(* The root is not a key: it joins its own bucket last.                    *)
Yield ==
  /\ pc = "keys" /\ DOMAIN parents \subseteq Grouped
  /\ components' = {Split(buckets[r] \cup {r}) : r \in DOMAIN buckets}
  /\ pc' = "done"
  /\ UNCHANGED <<edges, todo, edge, parents, caller, key, node, root, parent_1, buckets>>

GetComponents ==
  \/ AddEdge \/ Climb \/ Compress \/ FindOtherEnd \/ Union
  \/ Group \/ NextKey \/ PutInBucket \/ Yield

(* All components have been yielded: nothing happens any more.             *)
Yielded == pc = "done" /\ UNCHANGED vars

Next == GetComponents \/ Yielded

Spec == Init /\ [][Next]_vars

(* A sequential computation, which runs until it returns.                  *)
FairSpec == Spec /\ WF_vars(GetComponents)

---------------------------------------------------------------------------
(* The nodes on the way from n to its root are in every set that contains  *)
(* n and the parents of its members.                                       *)
Ancestors(n) ==
  {m \in Nodes :
     \A S \in SUBSET Nodes :
       n \in S /\ (\A k \in S \cap DOMAIN parents : parents[k] \in S) => m \in S}

IsRootOf(r, n) == r \in Ancestors(n) /\ r \notin DOMAIN parents

(* Two nodes have the same root exactly when the edges added so far        *)
(* connect them, at every step of every path compression: parents never    *)
(* forms a cycle, and no compression moves a node to another tree.         *)
SameRootIffConnected ==
  LET added == edges \ (todo \cup {edge}) IN
  \A x \in Nodes :
    \E r \in Nodes : IsRootOf(r, x) /\
      \A y \in Nodes : IsRootOf(r, y) <=> y \in Connected(added, x)

(* What is yielded are the connected components of the graph of the edges: *)
(* each once, none of them split, none with a node of another.             *)
ComponentsExact ==
  pc = "done" =>
    components = ComponentsOf(edges)

(* Climbing ends: add_edge and get_connected_components return.            *)
Termination == <>(pc = "done")
=============================================================================
