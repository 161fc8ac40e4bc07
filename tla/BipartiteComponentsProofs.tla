--------------------- MODULE BipartiteComponentsProofs ---------------------
(***************************************************************************)
(* Theorems of BipartiteComponents, for lists of any length.               *)
(*                                                                         *)
(* The invariant is about a root function rt, which no variable of the     *)
(* code holds: compressing a path leaves it as it is, and a union sends    *)
(* one tree to the root of another.                                        *)
(***************************************************************************)
EXTENDS BipartiteComponents, TLAPS

---------------------------------------------------------------------------
(* The nodes that edges connect.                                           *)

LEMMA EndsAreNodes ==
  ASSUME NEW e \in Pairs
  PROVE  Node1(e) \in Nodes /\ Node2(e) \in Nodes /\ Node1(e) # Node2(e)
BY DEF Pairs, Nodes, Node1, Node2

LEMMA ConnectedByClosed ==
  ASSUME NEW E, NEW x \in Nodes, NEW y \in Connected(E, x), NEW S \in SUBSET Nodes, x \in S,
         \A e \in E : Node1(e) \in S <=> Node2(e) \in S
  PROVE  y \in S
BY DEF Connected

LEMMA EndsConnected ==
  ASSUME NEW E \in SUBSET Pairs, NEW e \in E
  PROVE  Node2(e) \in Connected(E, Node1(e))
BY EndsAreNodes DEF Connected

---------------------------------------------------------------------------
(* Parents p form trees with the roots that rt gives.                      *)
Upward(p, S) == \A k \in S \cap DOMAIN p : p[k] \in S

Leads(p, n, m) == \A S \in SUBSET Nodes : n \in S /\ Upward(p, S) => m \in S

Tree(rt, p) ==
  /\ rt \in [Nodes -> Nodes]
  /\ DOMAIN p \subseteq Nodes /\ p \in [DOMAIN p -> Nodes]
  /\ \A n \in Nodes \ DOMAIN p : rt[n] = n
  /\ \A n \in DOMAIN p : rt[p[n]] = rt[n]
  /\ \A n \in Nodes : rt[n] \notin DOMAIN p
  /\ \A n \in Nodes : Leads(p, n, rt[n])

(* A node is given its root as parent: the roots stay.                     *)
LEMMA CompressedTree ==
  ASSUME NEW rt, NEW p, Tree(rt, p), NEW k \in DOMAIN p
  PROVE  Tree(rt, [p EXCEPT ![k] = rt[k]])
<1> DEFINE q == [p EXCEPT ![k] = rt[k]]
<1>1. /\ rt \in [Nodes -> Nodes] /\ DOMAIN p \subseteq Nodes /\ p \in [DOMAIN p -> Nodes]
      /\ \A n \in Nodes \ DOMAIN p : rt[n] = n
      /\ \A n \in DOMAIN p : rt[p[n]] = rt[n]
      /\ \A n \in Nodes : rt[n] \notin DOMAIN p
      /\ \A n \in Nodes : Leads(p, n, rt[n])
  BY DEF Tree
<1>2. /\ DOMAIN q = DOMAIN p /\ q \in [DOMAIN p -> Nodes]
      /\ \A n \in DOMAIN p : q[n] = IF n = k THEN rt[k] ELSE p[n]
  BY <1>1
<1> HIDE DEF q
<1>3. \A n \in DOMAIN q : rt[q[n]] = rt[n]
  BY <1>1, <1>2
<1>4. ASSUME NEW n \in Nodes, NEW S \in SUBSET Nodes, n \in S, Upward(q, S)
      PROVE  rt[n] \in S
  <2>1. CASE rt[n] = rt[k] /\ k \in S
    BY <1>1, <1>2, <1>4, <2>1 DEF Upward
  <2>2. CASE k \notin S
    <3>1. Upward(p, S)
      BY <1>2, <1>4, <2>2 DEF Upward
    <3> QED
      BY <1>1, <1>4, <3>1 DEF Leads
  <2>3. CASE rt[n] # rt[k]
    <3> DEFINE T == {m \in S : rt[m] = rt[n]}
    <3>1. T \in SUBSET Nodes /\ n \in T
      BY <1>4
    <3>2. Upward(p, T)
      BY <1>1, <1>2, <1>4, <2>3 DEF Upward
    <3>3. rt[n] \in T
      BY <1>1, <3>1, <3>2 DEF Leads
    <3> QED
      BY <3>3
  <2> QED
    BY <2>1, <2>2, <2>3
<1>5. \A n \in Nodes : Leads(q, n, rt[n])
  BY <1>4 DEF Leads
<1> QED
  BY <1>1, <1>2, <1>3, <1>5 DEF Tree, q

(* Where a union puts the root a under the root b.                         *)
Linked(rt, a, b) == [n \in Nodes |-> IF rt[n] = a THEN b ELSE rt[n]]

LEMMA LinkedTree ==
  ASSUME NEW rt, NEW p, Tree(rt, p), NEW a \in Nodes \ DOMAIN p, NEW b \in Nodes \ DOMAIN p, a # b
  PROVE  Tree(Linked(rt, a, b), Set(p, a, b))
<1> DEFINE q == Set(p, a, b)
           r == Linked(rt, a, b)
<1>1. /\ rt \in [Nodes -> Nodes] /\ DOMAIN p \subseteq Nodes /\ p \in [DOMAIN p -> Nodes]
      /\ \A n \in Nodes \ DOMAIN p : rt[n] = n
      /\ \A n \in DOMAIN p : rt[p[n]] = rt[n]
      /\ \A n \in Nodes : rt[n] \notin DOMAIN p
      /\ \A n \in Nodes : Leads(p, n, rt[n])
  BY DEF Tree
<1>2. /\ DOMAIN q = DOMAIN p \cup {a} /\ q \in [DOMAIN q -> Nodes] /\ q[a] = b
      /\ \A n \in DOMAIN p : q[n] = p[n]
  BY <1>1 DEF Set
<1>3. r \in [Nodes -> Nodes] /\ \A n \in Nodes : r[n] = IF rt[n] = a THEN b ELSE rt[n]
  BY <1>1 DEF Linked
<1> HIDE DEF q, r
<1>4. \A n \in Nodes \ DOMAIN q : r[n] = n
  BY <1>1, <1>2, <1>3
<1>5. \A n \in DOMAIN q : r[q[n]] = r[n]
  <2>1. r[b] = b /\ r[a] = b
    BY <1>1, <1>3
  <2> QED
    BY <1>1, <1>2, <1>3, <2>1
<1>6. \A n \in Nodes : r[n] \notin DOMAIN q
  BY <1>1, <1>2, <1>3
<1>7. ASSUME NEW n \in Nodes, NEW S \in SUBSET Nodes, n \in S, Upward(q, S)
      PROVE  r[n] \in S
  <2>1. Upward(p, S)
    BY <1>2, <1>7 DEF Upward
  <2>2. rt[n] \in S
    BY <1>1, <1>7, <2>1 DEF Leads
  <2>3. a \in S => b \in S
    BY <1>2, <1>7 DEF Upward
  <2> QED
    BY <1>3, <2>2, <2>3
<1>8. \A n \in Nodes : Leads(q, n, r[n])
  BY <1>7 DEF Leads
<1> QED
  BY <1>1, <1>2, <1>3, <1>4, <1>5, <1>6, <1>8 DEF Tree, q, r

(* A node has no other root than the one of rt.                            *)
LEMMA OneRoot ==
  ASSUME NEW rt, Tree(rt, parents), NEW n \in Nodes, NEW r \in Nodes
  PROVE  IsRootOf(r, n) <=> r = rt[n]
<1>1. /\ rt \in [Nodes -> Nodes] /\ DOMAIN parents \subseteq Nodes /\ parents \in [DOMAIN parents -> Nodes]
      /\ \A m \in Nodes \ DOMAIN parents : rt[m] = m
      /\ \A m \in DOMAIN parents : rt[parents[m]] = rt[m]
      /\ \A m \in Nodes : rt[m] \notin DOMAIN parents
      /\ \A m \in Nodes : Leads(parents, m, rt[m])
  BY DEF Tree
<1>2. ASSUME r = rt[n] PROVE IsRootOf(r, n)
  BY <1>1, <1>2 DEF IsRootOf, Ancestors, Leads, Upward
<1>3. ASSUME IsRootOf(r, n) PROVE r = rt[n]
  <2> DEFINE T == {m \in Nodes : rt[m] = rt[n]}
  <2>1. n \in T /\ T \in SUBSET Nodes /\ \A k \in T \cap DOMAIN parents : parents[k] \in T
    BY <1>1
  <2>2. r \in T
    BY <1>3, <2>1 DEF IsRootOf, Ancestors
  <2> QED
    BY <1>1, <1>3, <2>2 DEF IsRootOf
<1> QED
  BY <1>2, <1>3

---------------------------------------------------------------------------
(* rt tells what the edges E connect.                                      *)
Tells(rt, E) == \A x, y \in Nodes : rt[x] = rt[y] <=> y \in Connected(E, x)

LEMMA TellsNothing ==
  ASSUME NEW rt, rt = [n \in Nodes |-> n]
  PROVE  Tells(rt, {})
<1> SUFFICES ASSUME NEW x \in Nodes, NEW y \in Nodes
             PROVE  x = y <=> y \in Connected({}, x)
  BY DEF Tells
<1>1. x \in Connected({}, x)
  BY DEF Connected
<1>2. {x} \in SUBSET Nodes /\ x \in {x}
  OBVIOUS
<1>3. y \in Connected({}, x) => y \in {x}
  BY ONLY <1>2 DEF Connected
<1> QED
  BY <1>1, <1>3

LEMMA TellsMore ==
  ASSUME NEW rt \in [Nodes -> Nodes], NEW E \in SUBSET Pairs, Tells(rt, E), NEW e \in Pairs
  PROVE  Tells(Linked(rt, rt[Node1(e)], rt[Node2(e)]), E \cup {e})
<1> DEFINE a == rt[Node1(e)]
           b == rt[Node2(e)]
           r == Linked(rt, a, b)
           F == E \cup {e}
<1>1. Node1(e) \in Nodes /\ Node2(e) \in Nodes
  BY EndsAreNodes
<1>2. \A n \in Nodes : r[n] = IF rt[n] = a THEN b ELSE rt[n]
  BY DEF Linked
<1>3. \A x, y \in Nodes : rt[x] = rt[y] <=> y \in Connected(E, x)
  BY DEF Tells
<1> HIDE DEF r
<1>4. ASSUME NEW x \in Nodes, NEW y \in Nodes, r[x] = r[y],
             NEW S \in SUBSET Nodes, x \in S, \A f \in F : Node1(f) \in S <=> Node2(f) \in S
      PROVE  y \in S
  <2>1. ASSUME NEW u \in S, NEW v \in Nodes, rt[u] = rt[v] PROVE v \in S
    <3>1. v \in Connected(E, u) /\ u \in Nodes
      BY <1>3, <2>1
    <3> QED
      BY <1>4, <3>1, ConnectedByClosed
  <2>2. Node1(e) \in S <=> Node2(e) \in S
    BY <1>4
  <2>3. CASE rt[x] = rt[y]
    BY <1>4, <2>1, <2>3
  <2>4. CASE rt[x] = a /\ rt[y] = b
    BY <1>1, <1>4, <2>1, <2>2, <2>4
  <2>5. CASE rt[x] = b /\ rt[y] = a
    BY <1>1, <1>4, <2>1, <2>2, <2>5
  <2> QED
    BY <1>2, <1>4, <2>3, <2>4, <2>5
<1>5. ASSUME NEW x \in Nodes, NEW y \in Connected(F, x)
      PROVE  r[x] = r[y]
  <2> DEFINE S == {m \in Nodes : r[m] = r[x]}
  <2>1. \A f \in E : Node1(f) \in Nodes /\ Node2(f) \in Nodes /\ rt[Node1(f)] = rt[Node2(f)]
    BY <1>3, EndsAreNodes, EndsConnected
  <2>2. \A f \in F : r[Node1(f)] = r[Node2(f)]
    BY <1>1, <1>2, <2>1
  <2>3. \A f \in F : Node1(f) \in S <=> Node2(f) \in S
    BY <2>2, EndsAreNodes
  <2>4. S \in SUBSET Nodes /\ x \in S
    OBVIOUS
  <2> HIDE DEF S
  <2>5. y \in S
    BY ONLY <2>3, <2>4, x \in Nodes, y \in Connected(F, x), ConnectedByClosed
  <2> QED
    BY <2>5 DEF S
<1>6. \A x, y \in Nodes : r[x] = r[y] <=> y \in Connected(F, x)
  BY <1>4, <1>5 DEF Connected
<1> QED
  BY <1>6 DEF Tells, r

---------------------------------------------------------------------------
(* The invariant: parents and the edges added so far have the same trees,  *)
(* what _find and its callers hold belongs to the tree of what was asked   *)
(* for, and buckets hold keys under their roots.                           *)
Finding == pc \in {"climb", "compress"}
Adding == Finding /\ caller # "key"
Added == edges \ (todo \cup {edge})

EdgeInv ==
  /\ edges \subseteq Pairs /\ todo \subseteq edges
  /\ pc \in {"edges", "climb", "compress", "keys", "done"}
  /\ caller \in {"node_1", "node_2", "key"}
  /\ Adding => edge \in edges \ todo
  /\ ~Adding => edge = NoEdge
  /\ ~Adding /\ pc # "edges" => todo = {}

FindInv(rt) ==
  Finding =>
    /\ node \in Nodes /\ root \in Nodes /\ rt[node] = rt[root]
    /\ pc = "compress" => root \notin DOMAIN parents
    /\ caller = "node_1" => rt[node] = rt[Node1(edge)]
    /\ caller = "node_2" => rt[node] = rt[Node2(edge)] /\ parent_1 = rt[Node1(edge)]
    /\ caller = "key" => key \in DOMAIN parents /\ rt[node] = rt[key]

Linking(rt) == \A n \in DOMAIN parents : \E e \in Added : rt[Node1(e)] = rt[n]

ForestInv(rt) ==
  /\ Tree(rt, parents)
  /\ Tells(rt, Added)
  /\ Linking(rt)

BucketInv(rt) ==
  /\ pc = "edges" \/ Adding => DOMAIN buckets = {}
  /\ \A r \in DOMAIN buckets :
       /\ r \in Nodes /\ buckets[r] # {}
       /\ \A n \in buckets[r] : n \in DOMAIN parents /\ rt[n] = r

InvOf(rt) == EdgeInv /\ FindInv(rt) /\ ForestInv(rt) /\ BucketInv(rt) /\ ComponentsExact

ComponentsInv == \E rt : InvOf(rt)

LEMMA NoEdgeNoPair == NoEdge \notin Pairs
BY DEF NoEdge, Pairs

LEMMA TreeFacts ==
  ASSUME NEW rt, NEW p, Tree(rt, p)
  PROVE  /\ rt \in [Nodes -> Nodes] /\ DOMAIN p \subseteq Nodes /\ p \in [DOMAIN p -> Nodes]
         /\ \A n \in Nodes \ DOMAIN p : rt[n] = n
         /\ \A n \in DOMAIN p : rt[p[n]] = rt[n]
         /\ \A n \in Nodes : rt[n] \notin DOMAIN p
         /\ \A n \in Nodes : rt[rt[n]] = rt[n]
BY DEF Tree

LEMMA InitComponents == Init => ComponentsInv
<1> SUFFICES ASSUME Init PROVE ComponentsInv
  OBVIOUS
<1> DEFINE rt == [n \in Nodes |-> n]
<1>1. Tree(rt, parents)
  BY DEF Init, Tree, Leads, Upward
<1>2. Added = {}
  BY DEF Init, Added
<1>3. Tells(rt, {})
  BY TellsNothing
<1>4. EdgeInv /\ FindInv(rt) /\ BucketInv(rt) /\ ComponentsExact /\ Linking(rt)
  BY DEF Init, EdgeInv, FindInv, BucketInv, ComponentsExact, Adding, Finding, Linking
<1> QED
  BY <1>1, <1>2, <1>3, <1>4 DEF ComponentsInv, InvOf, ForestInv

LEMMA AddEdgeStep ==
  ASSUME NEW rt, InvOf(rt), AddEdge
  PROVE  InvOf(rt)'
<1>1. PICK e \in todo : edge' = e /\ todo' = todo \ {e} /\ CallFind("node_1", Node1(e))
  BY DEF AddEdge
<1>2. /\ pc = "edges" /\ edges' = edges /\ parents' = parents /\ buckets' = buckets
      /\ edge = NoEdge /\ todo \subseteq edges /\ edges \subseteq Pairs
  BY DEF AddEdge, InvOf, EdgeInv, Adding, Finding
<1>3. e \in Pairs /\ Added' = Added
  BY <1>1, <1>2, NoEdgeNoPair DEF Added
<1>4. ForestInv(rt)'
  BY <1>2, <1>3 DEF InvOf, ForestInv, Linking
<1>5. EdgeInv'
  BY <1>1, <1>2 DEF EdgeInv, Adding, Finding, CallFind
<1>6. FindInv(rt)'
  BY <1>1, <1>3, EndsAreNodes DEF FindInv, Finding, CallFind
<1>7. BucketInv(rt)' /\ ComponentsExact'
  BY <1>1, <1>2 DEF InvOf, BucketInv, ComponentsExact, CallFind
<1> QED
  BY <1>4, <1>5, <1>6, <1>7 DEF InvOf

(* A step of _find that leaves the parents alone.                          *)
LEMMA ForestKept ==
  ASSUME NEW rt, ForestInv(rt), parents' = parents, Added' = Added
  PROVE  ForestInv(rt)'
BY DEF ForestInv, Linking

LEMMA ClimbStep ==
  ASSUME NEW rt, InvOf(rt), Climb
  PROVE  InvOf(rt)'
<1>1. /\ pc = "climb" /\ edges' = edges /\ todo' = todo /\ edge' = edge /\ parents' = parents
      /\ caller' = caller /\ key' = key /\ node' = node /\ parent_1' = parent_1 /\ buckets' = buckets
      /\ IF root \in DOMAIN parents
           THEN root' = parents[root] /\ pc' = pc
           ELSE pc' = "compress" /\ root' = root
  BY DEF Climb
<1>2. ForestInv(rt)'
  BY <1>1, ForestKept DEF InvOf, Added
<1>3. EdgeInv' /\ BucketInv(rt)' /\ ComponentsExact'
  BY <1>1 DEF InvOf, EdgeInv, BucketInv, ComponentsExact, Adding, Finding
<1>4. Tree(rt, parents)
  BY DEF InvOf, ForestInv
<1>5. root \in DOMAIN parents => parents[root] \in Nodes /\ rt[parents[root]] = rt[root]
  BY <1>4, TreeFacts
<1>6. FindInv(rt)'
  BY <1>1, <1>5 DEF InvOf, FindInv, Finding
<1> QED
  BY <1>2, <1>3, <1>6 DEF InvOf

LEMMA CompressStep ==
  ASSUME NEW rt, InvOf(rt), Compress
  PROVE  InvOf(rt)'
<1>1. /\ pc = "compress" /\ edges' = edges /\ todo' = todo /\ edge' = edge /\ pc' = pc
      /\ caller' = caller /\ key' = key /\ root' = root /\ parent_1' = parent_1 /\ buckets' = buckets
      /\ node \in DOMAIN parents /\ node' = parents[node]
      /\ parents' = [parents EXCEPT ![node] = root]
  BY DEF Compress
<1>2. Tree(rt, parents) /\ Tells(rt, Added) /\ Linking(rt)
  BY DEF InvOf, ForestInv
<1>3. /\ node \in Nodes /\ root \in Nodes /\ rt[node] = rt[root] /\ root \notin DOMAIN parents
      /\ DOMAIN parents' = DOMAIN parents
  BY <1>1 DEF InvOf, FindInv, Finding
<1>4. root = rt[node] /\ parents[node] \in Nodes /\ rt[parents[node]] = rt[node]
  BY <1>1, <1>2, <1>3, TreeFacts
<1>5. Tree(rt, parents')
  BY <1>1, <1>2, <1>4, CompressedTree
<1>6. Added' = Added
  BY <1>1 DEF Added
<1>7. ForestInv(rt)'
  BY <1>2, <1>3, <1>5, <1>6 DEF ForestInv, Linking
<1>8. EdgeInv' /\ BucketInv(rt)' /\ ComponentsExact'
  BY <1>1, <1>3 DEF InvOf, EdgeInv, BucketInv, ComponentsExact, Adding, Finding
<1>9. FindInv(rt)'
  BY <1>1, <1>3, <1>4 DEF InvOf, FindInv, Finding
<1> QED
  BY <1>7, <1>8, <1>9 DEF InvOf

LEMMA FindOtherEndStep ==
  ASSUME NEW rt, InvOf(rt), FindOtherEnd
  PROVE  InvOf(rt)'
<1>1. /\ pc = "compress" /\ caller = "node_1" /\ node \notin DOMAIN parents
      /\ edges' = edges /\ todo' = todo /\ edge' = edge /\ parents' = parents /\ key' = key
      /\ buckets' = buckets /\ parent_1' = root /\ caller' = "node_2"
      /\ node' = Node2(edge) /\ root' = Node2(edge) /\ pc' = "climb"
  BY DEF FindOtherEnd, Found, CallFind
<1>2. ForestInv(rt)'
  BY <1>1, ForestKept DEF InvOf, Added
<1>3. EdgeInv' /\ BucketInv(rt)' /\ ComponentsExact'
  BY <1>1 DEF InvOf, EdgeInv, BucketInv, ComponentsExact, Adding, Finding
<1>4. edge \in Pairs
  BY <1>1 DEF InvOf, EdgeInv, Adding, Finding
<1>5. /\ root \in Nodes /\ rt[node] = rt[root] /\ root \notin DOMAIN parents
      /\ rt[node] = rt[Node1(edge)]
  BY <1>1 DEF InvOf, FindInv, Finding
<1>6. root = rt[Node1(edge)]
  BY <1>5, TreeFacts DEF InvOf, ForestInv
<1>7. FindInv(rt)'
  BY <1>1, <1>4, <1>6, EndsAreNodes DEF FindInv, Finding
<1> QED
  BY <1>2, <1>3, <1>7 DEF InvOf

(* The trees of the two ends are linked, if they are two.                  *)
LEMMA UnionStep ==
  ASSUME NEW rt, InvOf(rt), Union
  PROVE  \E r : InvOf(r)'
<1>1. /\ pc = "compress" /\ caller = "node_2"
      /\ parents' = IF parent_1 # root THEN Set(parents, parent_1, root) ELSE parents
      /\ pc' = "edges" /\ edge' = NoEdge /\ edges' = edges /\ todo' = todo
      /\ caller' = caller /\ buckets' = buckets
  BY DEF Union, Found
<1>2. Tree(rt, parents) /\ Tells(rt, Added) /\ Linking(rt)
  BY DEF InvOf, ForestInv
<1>3. /\ edge \in edges \ todo /\ edges \subseteq Pairs /\ todo \subseteq edges
      /\ DOMAIN buckets = {} /\ edge \in Pairs
  BY <1>1 DEF InvOf, EdgeInv, BucketInv, Adding, Finding
<1>4. Node1(edge) \in Nodes /\ Node2(edge) \in Nodes
  BY <1>3, EndsAreNodes
<1>5. /\ rt \in [Nodes -> Nodes] /\ \A n \in Nodes : rt[n] \notin DOMAIN parents
      /\ \A n \in Nodes \ DOMAIN parents : rt[n] = n
  BY <1>2, TreeFacts
<1>6. /\ node \in Nodes /\ root \in Nodes /\ rt[node] = rt[root] /\ root \notin DOMAIN parents
      /\ rt[node] = rt[Node2(edge)] /\ parent_1 = rt[Node1(edge)]
  BY <1>1 DEF InvOf, FindInv, Finding
<1>7. root = rt[Node2(edge)]
  BY <1>5, <1>6
<1> PICK r : r = Linked(rt, parent_1, root)
  OBVIOUS
<1>8. r \in [Nodes -> Nodes] /\ \A n \in Nodes : r[n] = IF rt[n] = parent_1 THEN root ELSE rt[n]
  BY <1>5, <1>6 DEF Linked
<1>9. Tree(r, parents')
  <2>1. CASE parent_1 # root
    <3>1. parent_1 \in Nodes \ DOMAIN parents /\ root \in Nodes \ DOMAIN parents
      BY <1>4, <1>5, <1>6
    <3> QED
      BY <1>1, <1>2, <2>1, <3>1, LinkedTree
  <2>2. CASE parent_1 = root
    <3>1. r = rt
      BY <1>5, <2>2 DEF Linked
    <3> QED
      BY <1>1, <1>2, <2>2, <3>1
  <2> QED
    BY <2>1, <2>2
<1>10. Added' = Added \cup {edge} /\ Added \subseteq Pairs
  BY <1>1, <1>3, NoEdgeNoPair DEF Added
<1>11. Tells(r, Added')
  BY <1>2, <1>3, <1>5, <1>6, <1>7, <1>10, TellsMore
<1>12. ASSUME NEW n \in DOMAIN parents' PROVE \E e \in Added' : r[Node1(e)] = r[n]
  <2>1. CASE n \in DOMAIN parents
    <3>1. PICK e \in Added : rt[Node1(e)] = rt[n]
      BY <1>2, <2>1 DEF Linking
    <3>2. Node1(e) \in Nodes /\ n \in Nodes
      BY <1>2, <1>10, <2>1, EndsAreNodes, TreeFacts
    <3> QED
      BY <1>8, <1>10, <3>1, <3>2
  <2>2. CASE n \notin DOMAIN parents
    <3>1. n = parent_1
      BY <1>1, <1>12, <2>2 DEF Set
    <3>2. rt[n] = parent_1
      BY <1>4, <1>5, <1>6, <3>1
    <3>3. r[n] = root /\ r[Node1(edge)] = root
      BY <1>4, <1>6, <1>8, <1>5, <3>1, <3>2
    <3> QED
      BY <1>10, <3>3
  <2> QED
    BY <2>1, <2>2
<1>13. ForestInv(r)'
  BY <1>9, <1>11, <1>12 DEF ForestInv, Linking
<1>14. EdgeInv' /\ FindInv(r)' /\ BucketInv(r)' /\ ComponentsExact'
  BY <1>1, <1>3 DEF EdgeInv, FindInv, BucketInv, ComponentsExact, Adding, Finding
<1> QED
  BY <1>13, <1>14 DEF InvOf

LEMMA GroupStep ==
  ASSUME NEW rt, InvOf(rt), Group
  PROVE  InvOf(rt)'
<1>1. /\ pc = "edges" /\ todo = {} /\ pc' = "keys" /\ edges' = edges /\ todo' = todo /\ edge' = edge
      /\ parents' = parents /\ caller' = caller /\ buckets' = buckets
  BY DEF Group
<1>2. ForestInv(rt)'
  BY <1>1, ForestKept DEF InvOf, Added
<1> QED
  BY <1>1, <1>2 DEF InvOf, EdgeInv, FindInv, BucketInv, ComponentsExact, Adding, Finding

LEMMA NextKeyStep ==
  ASSUME NEW rt, InvOf(rt), NextKey
  PROVE  InvOf(rt)'
<1>1. PICK n \in DOMAIN parents \ Grouped : key' = n /\ CallFind("key", n)
  BY DEF NextKey
<1>2. /\ pc = "keys" /\ edges' = edges /\ todo' = todo /\ edge' = edge
      /\ parents' = parents /\ buckets' = buckets
  BY DEF NextKey
<1>3. /\ caller' = "key" /\ node' = n /\ root' = n /\ pc' = "climb"
  BY <1>1 DEF CallFind
<1>4. ForestInv(rt)'
  BY <1>2, ForestKept DEF InvOf, Added
<1>5. n \in Nodes
  BY <1>1, TreeFacts DEF InvOf, ForestInv
<1>6. FindInv(rt)'
  BY <1>1, <1>2, <1>3, <1>5 DEF FindInv, Finding
<1> QED
  BY <1>2, <1>3, <1>4, <1>6 DEF InvOf, EdgeInv, BucketInv, ComponentsExact, Adding, Finding

LEMMA PutInBucketStep ==
  ASSUME NEW rt, InvOf(rt), PutInBucket
  PROVE  InvOf(rt)'
<1> DEFINE old == IF root \in DOMAIN buckets THEN buckets[root] ELSE {}
<1>1. /\ pc = "compress" /\ caller = "key" /\ node \notin DOMAIN parents
      /\ pc' = "keys" /\ edges' = edges /\ todo' = todo /\ edge' = edge
      /\ parents' = parents /\ caller' = caller
      /\ buckets' = Set(buckets, root, old \cup {key})
  BY DEF PutInBucket, Found
<1>2. ForestInv(rt)'
  BY <1>1, ForestKept DEF InvOf, Added
<1>3. /\ root \in Nodes /\ rt[node] = rt[root] /\ root \notin DOMAIN parents
      /\ key \in DOMAIN parents /\ rt[node] = rt[key]
  BY <1>1 DEF InvOf, FindInv, Finding
<1>4. rt[key] = root
  BY <1>3, TreeFacts DEF InvOf, ForestInv
<1>5. /\ DOMAIN buckets' = DOMAIN buckets \cup {root}
      /\ buckets'[root] = old \cup {key}
      /\ \A r \in DOMAIN buckets \ {root} : buckets'[r] = buckets[r]
  BY <1>1 DEF Set
<1>6. \A r \in DOMAIN buckets :
        /\ r \in Nodes /\ buckets[r] # {}
        /\ \A n \in buckets[r] : n \in DOMAIN parents /\ rt[n] = r
  BY DEF InvOf, BucketInv
<1>7. \A n \in old \cup {key} : n \in DOMAIN parents /\ rt[n] = root
  BY <1>3, <1>4, <1>6
<1> HIDE DEF old
<1>8. BucketInv(rt)'
  BY <1>1, <1>3, <1>5, <1>6, <1>7 DEF BucketInv, Adding, Finding
<1> QED
  BY <1>1, <1>2, <1>8 DEF InvOf, EdgeInv, FindInv, ComponentsExact, Adding, Finding

(* What is yielded for each bucket is a component, and each component has  *)
(* a bucket: of the two ends of an edge, one is not the root.              *)
LEMMA YieldStep ==
  ASSUME NEW rt, InvOf(rt), Yield
  PROVE  InvOf(rt)'
<1>1. /\ pc = "keys" /\ DOMAIN parents \subseteq Grouped
      /\ components' = {Split(buckets[r] \cup {r}) : r \in DOMAIN buckets}
      /\ pc' = "done" /\ edges' = edges /\ todo' = todo /\ edge' = edge
      /\ parents' = parents /\ caller' = caller /\ buckets' = buckets
  BY DEF Yield
<1>2. /\ \A n \in Nodes \ DOMAIN parents : rt[n] = n
      /\ \A n \in Nodes : rt[n] \in Nodes /\ rt[n] \notin DOMAIN parents
      /\ DOMAIN parents \subseteq Nodes
  BY TreeFacts DEF InvOf, ForestInv
<1>3. edges \subseteq Pairs /\ todo = {} /\ edge = NoEdge
  BY <1>1 DEF InvOf, EdgeInv, Adding, Finding
<1>4. Added = edges
  BY <1>3, NoEdgeNoPair DEF Added
<1>5. /\ \A x, y \in Nodes : rt[x] = rt[y] <=> y \in Connected(edges, x)
      /\ \A n \in DOMAIN parents : \E e \in edges : rt[Node1(e)] = rt[n]
  BY <1>4 DEF InvOf, ForestInv, Tells, Linking
<1>6. \A r \in DOMAIN buckets :
        /\ r \in Nodes /\ buckets[r] # {}
        /\ \A n \in buckets[r] : n \in DOMAIN parents /\ rt[n] = r
  BY DEF InvOf, BucketInv
<1>7. ASSUME NEW n \in DOMAIN parents PROVE rt[n] \in DOMAIN buckets /\ n \in buckets[rt[n]]
  <2>1. PICK r \in DOMAIN buckets : n \in buckets[r]
    BY <1>1 DEF Grouped
  <2> QED
    BY <1>6, <2>1
<1>8. ASSUME NEW x \in Nodes, rt[x] \in DOMAIN buckets
      PROVE  buckets[rt[x]] \cup {rt[x]} = Connected(edges, x)
  <2> DEFINE r == rt[x]
  <2>1. r \in Nodes /\ rt[r] = r
    BY <1>2
  <2>2. ASSUME NEW m \in buckets[r] \cup {r} PROVE m \in Connected(edges, x)
    <3>1. m \in Nodes /\ rt[m] = r
      BY <1>2, <1>6, <1>8, <2>1, <2>2
    <3> QED
      BY <1>5, <3>1
  <2>3. ASSUME NEW m \in Connected(edges, x) PROVE m \in buckets[r] \cup {r}
    <3>1. m \in Nodes /\ rt[m] = r
      BY <1>5, <2>3 DEF Connected
    <3> QED
      BY <1>2, <1>7, <3>1
  <2> QED
    BY <2>2, <2>3
<1>9. ASSUME NEW r \in DOMAIN buckets
      PROVE  \E e \in edges : Split(buckets[r] \cup {r}) = Split(Connected(edges, Node1(e)))
  <2>1. PICK n \in buckets[r] : n \in DOMAIN parents /\ rt[n] = r
    BY <1>6
  <2>2. PICK e \in edges : rt[Node1(e)] = rt[n]
    BY <1>5, <2>1
  <2>3. Node1(e) \in Nodes /\ rt[Node1(e)] = r
    BY <1>3, <2>1, <2>2, EndsAreNodes
  <2>4. buckets[r] \cup {r} = Connected(edges, Node1(e))
    BY <1>8, <2>3
  <2> QED
    BY <2>4
<1>10. ASSUME NEW e \in edges
       PROVE  \E r \in DOMAIN buckets : Split(buckets[r] \cup {r}) = Split(Connected(edges, Node1(e)))
  <2>1. Node1(e) \in Nodes /\ Node2(e) \in Nodes /\ Node1(e) # Node2(e)
    BY <1>3, EndsAreNodes
  <2>2. rt[Node1(e)] = rt[Node2(e)]
    BY <1>3, <1>5, <2>1, EndsConnected
  <2>3. Node1(e) \in DOMAIN parents \/ Node2(e) \in DOMAIN parents
    BY <1>2, <2>1, <2>2
  <2>4. rt[Node1(e)] \in DOMAIN buckets
    BY <1>7, <2>2, <2>3
  <2>5. buckets[rt[Node1(e)]] \cup {rt[Node1(e)]} = Connected(edges, Node1(e))
    BY <1>8, <2>1, <2>4
  <2> QED
    BY <2>4, <2>5
<1>11. components' = ComponentsOf(edges)
  BY <1>1, <1>9, <1>10 DEF ComponentsOf
<1>12. ForestInv(rt)'
  BY <1>1, ForestKept DEF InvOf, Added
<1>13. ComponentsExact'
  BY <1>1, <1>11 DEF ComponentsExact
<1> QED
  BY <1>1, <1>12, <1>13 DEF InvOf, EdgeInv, FindInv, BucketInv, Adding, Finding

---------------------------------------------------------------------------
LEMMA ComponentsInvariant == Spec => []ComponentsInv
<1>1. ASSUME ComponentsInv, [Next]_vars PROVE ComponentsInv'
  <2>1. PICK rt : InvOf(rt)
    BY <1>1 DEF ComponentsInv
  <2>2. ASSUME GetComponents PROVE \E r : InvOf(r)'
    <3>1. CASE AddEdge
      BY <2>1, <3>1, AddEdgeStep
    <3>2. CASE Climb
      BY <2>1, <3>2, ClimbStep
    <3>3. CASE Compress
      BY <2>1, <3>3, CompressStep
    <3>4. CASE FindOtherEnd
      BY <2>1, <3>4, FindOtherEndStep
    <3>5. CASE Union
      BY <2>1, <3>5, UnionStep
    <3>6. CASE Group
      BY <2>1, <3>6, GroupStep
    <3>7. CASE NextKey
      BY <2>1, <3>7, NextKeyStep
    <3>8. CASE PutInBucket
      BY <2>1, <3>8, PutInBucketStep
    <3>9. CASE Yield
      BY <2>1, <3>9, YieldStep
    <3> QED
      BY <2>2, <3>1, <3>2, <3>3, <3>4, <3>5, <3>6, <3>7, <3>8, <3>9 DEF GetComponents
  <2>3. ASSUME UNCHANGED vars PROVE InvOf(rt)'
    <3>1. /\ edges' = edges /\ todo' = todo /\ edge' = edge /\ parents' = parents /\ pc' = pc
          /\ caller' = caller /\ key' = key /\ node' = node /\ root' = root
          /\ parent_1' = parent_1 /\ buckets' = buckets /\ components' = components
      BY <2>3 DEF vars
    <3>2. ForestInv(rt)'
      BY <2>1, <3>1, ForestKept DEF InvOf, Added
    <3> QED
      BY <2>1, <3>1, <3>2 DEF InvOf, EdgeInv, FindInv, BucketInv, ComponentsExact, Adding, Finding
  <2> QED
    BY <1>1, <2>2, <2>3 DEF ComponentsInv, Next, Yielded
<1> QED
  BY InitComponents, <1>1, PTL DEF Spec

(* At every step of every path compression, two nodes have the same root   *)
(* exactly when the edges added so far connect them, and parents never     *)
(* forms a cycle (_find and _union, for lists of any length).              *)
THEOREM SameRootAlways == Spec => []SameRootIffConnected
<1>1. ComponentsInv => SameRootIffConnected
  <2> SUFFICES ASSUME NEW rt, InvOf(rt) PROVE SameRootIffConnected
    BY DEF ComponentsInv
  <2>1. Tree(rt, parents) /\ \A x, y \in Nodes : rt[x] = rt[y] <=> y \in Connected(Added, x)
    BY DEF InvOf, ForestInv, Tells
  <2>2. ASSUME NEW x \in Nodes
        PROVE  \E r \in Nodes : IsRootOf(r, x) /\
                 \A y \in Nodes : IsRootOf(r, y) <=> y \in Connected(Added, x)
    <3>1. rt[x] \in Nodes
      BY <2>1, TreeFacts
    <3>2. IsRootOf(rt[x], x)
      BY <2>1, <3>1, OneRoot
    <3>3. ASSUME NEW y \in Nodes PROVE IsRootOf(rt[x], y) <=> y \in Connected(Added, x)
      BY <2>1, <3>1, OneRoot
    <3> QED
      BY <3>1, <3>2, <3>3
  <2> QED
    BY <2>2 DEF SameRootIffConnected, Added
<1> QED
  BY <1>1, ComponentsInvariant, PTL

(* What get_connected_components yields are the connected components of    *)
(* the graph of the edges, for lists of any length: each once, none split, *)
(* none with a node of another.                                            *)
THEOREM ComponentsAlwaysExact == Spec => []ComponentsExact
<1>1. ComponentsInv => ComponentsExact
  BY DEF ComponentsInv, InvOf
<1> QED
  BY <1>1, ComponentsInvariant, PTL
=============================================================================
