------------------------ MODULE DistanceMatchProofs ------------------------
(***************************************************************************)
(* Theorems of DistanceMatch, for lists of any length, any normalisation   *)
(* functions and any distance function.                                    *)
(*                                                                         *)
(* Nothing here uses that the assignment of a component is the best one,   *)
(* or that it is one-to-one: what is proved holds of any set of pairs that *)
(* Munkres.compute might return.                                           *)
(***************************************************************************)
EXTENDS DistanceMatch, FiniteSetTheorems, TLAPS

---------------------------------------------------------------------------
(* The nodes that edges connect.                                           *)

LEMMA EndsAreNodes ==
  ASSUME NEW e \in Pairs
  PROVE  Node1(e) \in Nodes /\ Node2(e) \in Nodes /\ Node1(e) # Node2(e)
BY DEF Pairs, Nodes, Node1, Node2

LEMMA ConnectedByClosed ==
  ASSUME NEW E, NEW x \in Nodes, NEW y \in Connected(E, x), NEW S \in SUBSET Nodes, x \in S,
         \A e \in E : Node1(e) \in S <=> Node2(e) \in S
  PROVE  y \in S
BY DEF Connected

LEMMA EndsConnected ==
  ASSUME NEW E \in SUBSET Pairs, NEW e \in E
  PROVE  Node2(e) \in Connected(E, Node1(e))
BY EndsAreNodes DEF Connected

---------------------------------------------------------------------------
(* The elements of a bucket have different ranks.                          *)
LEMMA RankInjective ==
  ASSUME NEW n \in Nat, NEW b \in SUBSET (0 .. n - 1), NEW i \in b, NEW j \in b,
         Rank(b, i) = Rank(b, j)
  PROVE  i = j
<1>1. ASSUME NEW x \in b, NEW y \in b, x < y PROVE Rank(b, x) # Rank(b, y)
  <2> DEFINE S == {k \in b : k < x}
             T == {k \in b : k < y}
  <2>1. IsFiniteSet(0 .. n - 1)
    BY FS_Interval
  <2>2. IsFiniteSet(T)
    BY <2>1, FS_Subset
  <2>3. x \in Int /\ y \in Int /\ \A k \in b : k \in Int
    OBVIOUS
  <2>4. S \in SUBSET T /\ x \in T /\ x \notin S
    <3>1. x \in T /\ x \notin S
      BY <1>1, <2>3
    <3>2. ASSUME NEW k \in b, k < x PROVE k < y
      BY <1>1, <2>3, <3>2
    <3> QED
      BY <3>1, <3>2
  <2>5. Cardinality(S) # Cardinality(T)
    BY <2>2, <2>4, FS_Subset
  <2> QED
    BY <2>5 DEF Rank
<1>2. i \in Int /\ j \in Int
  OBVIOUS
<1> QED
  BY <1>1, <1>2

---------------------------------------------------------------------------
(* The invariant.                                                          *)
ListInv ==
  /\ Indices(l1) \subseteq 0 .. N1 - 1 /\ Indices(l2) \subseteq 0 .. N2 - 1
  /\ \A i \in Indices(l1), j \in Indices(l2) : Dist(i, j) \in Nat
  /\ rest1 \subseteq Indices(l1) /\ rest2 \subseteq Indices(l2)
  /\ common \subseteq Indices(l1) \X Indices(l2)

HintInv ==
  pc \in {"hints", "raised"} =>
    near = {} /\ \A p \in common : p[1] \notin rest1 /\ p[2] \notin rest2

(* Elements that are the same object are in the same component, or in none.*)
AlikeIn(c) ==
  /\ \A i, j \in rest1 : l1[i + 1] = l1[j + 1] /\ i \in c[1] => j \in c[1]
  /\ \A i, j \in rest2 : l2[i + 1] = l2[j + 1] /\ i \in c[2] => j \in c[2]

NearInv == \A c \in near : c[1] \subseteq rest1 /\ c[2] \subseteq rest2 /\ AlikeIn(c)

MatchedAlike(pairs) ==
  /\ \A i, j \in rest1 :
       l1[i + 1] = l1[j + 1] /\ (\E p \in pairs : p[1] = i) => \E p \in pairs : p[1] = j
  /\ \A i, j \in rest2 :
       l2[i + 1] = l2[j + 1] /\ (\E p \in pairs : p[2] = i) => \E p \in pairs : p[2] = j

MatchInv ==
  /\ ListInv /\ HintInv /\ NearInv /\ MatchedAlike(common)
  /\ HintsExclusive /\ WithinTolerance

LEMMA ContentFacts ==
  ASSUME NEW c \in Contents, NEW d \in DistFns(Range(c[1]), Range(c[2]))
  PROVE  /\ Indices(c[1]) \subseteq 0 .. N1 - 1 /\ Indices(c[2]) \subseteq 0 .. N2 - 1
         /\ \A i \in Indices(c[1]), j \in Indices(c[2]) : d[<<c[1][i + 1], c[2][j + 1]>>] \in Nat
<1>1. /\ c[1] \in Seq(Range(c[1])) /\ Len(c[1]) <= N1
      /\ c[2] \in Seq(Range(c[2])) /\ Len(c[2]) <= N2
  BY ContentsAssumption
<1>2. d \in [Range(c[1]) \X Range(c[2]) -> Nat]
  BY DistancesAssumption
<1>3. Len(c[1]) \in Nat /\ Len(c[2]) \in Nat
  BY <1>1
<1>4. Indices(c[1]) \subseteq 0 .. N1 - 1 /\ Indices(c[2]) \subseteq 0 .. N2 - 1
  BY <1>1, <1>3, SizesAssumption DEF Indices
<1>5. ASSUME NEW i \in Indices(c[1]), NEW j \in Indices(c[2])
      PROVE  d[<<c[1][i + 1], c[2][j + 1]>>] \in Nat
  <2>1. i + 1 \in 1 .. Len(c[1]) /\ j + 1 \in 1 .. Len(c[2])
    BY <1>3 DEF Indices
  <2>2. c[1][i + 1] \in Range(c[1]) /\ c[2][j + 1] \in Range(c[2])
    BY <1>1, <2>1
  <2> QED
    BY <1>2, <2>2
<1> QED
  BY <1>4, <1>5

LEMMA InitMatch == Init => MatchInv
<1> SUFFICES ASSUME Init PROVE MatchInv
  OBVIOUS
<1>1. PICK c \in Contents : l1 = c[1] /\ l2 = c[2]
  BY DEF Init
<1>2. dist_fn \in DistFns(Range(c[1]), Range(c[2]))
  BY <1>1 DEF Init
<1>3. /\ Indices(l1) \subseteq 0 .. N1 - 1 /\ Indices(l2) \subseteq 0 .. N2 - 1
      /\ \A i \in Indices(l1), j \in Indices(l2) : Dist(i, j) \in Nat
  BY <1>1, <1>2, ContentFacts DEF Dist
<1>4. common = {} /\ near = {} /\ rest1 = Indices(l1) /\ rest2 = Indices(l2)
  BY DEF Init
<1> QED
  BY <1>3, <1>4 DEF MatchInv, ListInv, HintInv, NearInv, MatchedAlike, HintsExclusive, WithinTolerance

---------------------------------------------------------------------------
(* A hint takes its two elements from their lists, each once.              *)
LEMMA HintedFacts ==
  ASSUME ListInv, NEW fn
  PROVE  /\ \A p \in Hinted(fn) :
              p \in rest1 \X rest2 /\ Dist(p[1], p[2]) <= Thresh
         /\ \A p, q \in Hinted(fn) : p # q => p[1] # q[1] /\ p[2] # q[2]
<1> DEFINE B1(v) == Bucket(l1, rest1, fn, v)
           B2(v) == Bucket(l2, rest2, fn, v)
<1>1. /\ \A v : B1(v) \in SUBSET (0 .. N1 - 1) /\ B2(v) \in SUBSET (0 .. N2 - 1)
      /\ \A v : B1(v) \subseteq rest1 /\ B2(v) \subseteq rest2
      /\ \A v, w : \A i \in B1(v) : i \in B1(w) => v = w
      /\ \A v, w : \A i \in B2(v) : i \in B2(w) => v = w
  BY DEF ListInv, Bucket
<1>2. ASSUME NEW p \in Hinted(fn)
      PROVE  \E v : /\ p \in B1(v) \X B2(v) /\ Rank(B1(v), p[1]) = Rank(B2(v), p[2])
                    /\ Dist(p[1], p[2]) <= Thresh
  BY DEF Hinted
<1> HIDE DEF B1, B2
<1>3. ASSUME NEW p \in Hinted(fn)
      PROVE  p \in rest1 \X rest2 /\ Dist(p[1], p[2]) <= Thresh
  BY <1>1, <1>2
<1>4. ASSUME NEW p \in Hinted(fn), NEW q \in Hinted(fn), p[1] = q[1] \/ p[2] = q[2]
      PROVE  p = q
  <2>1. PICK v : p \in B1(v) \X B2(v) /\ Rank(B1(v), p[1]) = Rank(B2(v), p[2])
    BY <1>2
  <2>2. PICK w : q \in B1(w) \X B2(w) /\ Rank(B1(w), q[1]) = Rank(B2(w), q[2])
    BY <1>2
  <2>3. v = w
    BY <1>1, <1>4, <2>1, <2>2
  <2>4. Rank(B1(v), p[1]) = Rank(B1(v), q[1]) /\ Rank(B2(v), p[2]) = Rank(B2(v), q[2])
    BY <1>4, <2>1, <2>2, <2>3
  <2>5. /\ p[1] \in B1(v) /\ q[1] \in B1(v) /\ p[2] \in B2(v) /\ q[2] \in B2(v)
        /\ B1(v) \in SUBSET (0 .. N1 - 1) /\ B2(v) \in SUBSET (0 .. N2 - 1)
    BY <1>1, <2>1, <2>2, <2>3
  <2>6. p[1] = q[1]
    BY ONLY <2>4, <2>5, RankInjective, SizesAssumption
  <2>7. p[2] = q[2]
    BY ONLY <2>4, <2>5, RankInjective, SizesAssumption
  <2> QED
    BY <2>1, <2>2, <2>6, <2>7
<1> QED
  BY <1>3, <1>4

LEMMA HintStep ==
  ASSUME MatchInv, Hint
  PROVE  MatchInv'
<1> PICK H : H = Hinted(Head(norm_funcs))
  OBVIOUS
<1>1. /\ pc = "hints" /\ common' = common \cup H
      /\ rest1' = rest1 \ {p[1] : p \in H} /\ rest2' = rest2 \ {p[2] : p \in H}
      /\ l1' = l1 /\ l2' = l2 /\ dist_fn' = dist_fn /\ near' = near /\ pc' = pc
  BY DEF Hint
<1>2. /\ \A p \in H : p \in rest1 \X rest2 /\ Dist(p[1], p[2]) <= Thresh
      /\ \A p, q \in H : p # q => p[1] # q[1] /\ p[2] # q[2]
  BY HintedFacts DEF MatchInv
<1>3. /\ near = {} /\ \A p \in common : p[1] \notin rest1 /\ p[2] \notin rest2
  BY <1>1 DEF MatchInv, HintInv
<1>4. ListInv'
  BY <1>1, <1>2 DEF MatchInv, ListInv, Dist, Indices
<1>5. \A p \in common \cup H : p[1] \notin rest1' /\ p[2] \notin rest2'
  BY <1>1, <1>2, <1>3
<1>6. HintInv' /\ NearInv' /\ MatchedAlike(common)'
  BY <1>1, <1>3, <1>5 DEF HintInv, NearInv, MatchedAlike
<1>7. \A p, q \in common \cup H : p # q => p[1] # q[1] /\ p[2] # q[2]
  BY <1>2, <1>3 DEF MatchInv, HintsExclusive
<1>8. HintsExclusive'
  BY <1>1, <1>5, <1>7 DEF HintsExclusive
<1>9. \A p \in common \cup H : Dist(p[1], p[2]) < Thresh + Tolerance
  <2>1. ASSUME NEW p \in H PROVE Dist(p[1], p[2]) < Thresh + Tolerance
    <3>1. Dist(p[1], p[2]) \in Nat /\ Dist(p[1], p[2]) <= Thresh
      BY <1>2 DEF MatchInv, ListInv
    <3> QED
      BY <3>1, DistancesAssumption
  <2> QED
    BY <2>1 DEF MatchInv, WithinTolerance
<1>10. WithinTolerance'
  BY <1>1, <1>9 DEF WithinTolerance, Dist
<1> QED
  BY <1>4, <1>6, <1>8, <1>10 DEF MatchInv

---------------------------------------------------------------------------
(* The component of an end of an edge only has ends of edges: an element   *)
(* that is near none is in no component.                                   *)
Ends1(E) == {e[1] : e \in E}
Ends2(E) == {e[2] : e \in E}

LEMMA ComponentEnds ==
  ASSUME NEW E \in SUBSET Pairs, NEW e \in E, NEW n \in Connected(E, Node1(e))
  PROVE  (n[1] = 1 /\ n[2] \in Ends1(E)) \/ (n[1] = 2 /\ n[2] \in Ends2(E))
<1> DEFINE S == {m \in Nodes : \/ m[1] = 1 /\ m[2] \in Ends1(E)
                               \/ m[1] = 2 /\ m[2] \in Ends2(E)}
<1>1. \A f \in E : Node1(f) \in Nodes /\ Node2(f) \in Nodes
  BY EndsAreNodes
<1>2. \A f \in E : Node1(f) \in S /\ Node2(f) \in S
  BY <1>1 DEF Node1, Node2, Ends1, Ends2
<1>3. S \in SUBSET Nodes /\ Node1(e) \in S /\ Node1(e) \in Nodes
  BY <1>1, <1>2
<1> HIDE DEF S
<1>4. n \in S
  BY ONLY <1>2, <1>3, n \in Connected(E, Node1(e)), ConnectedByClosed
<1> QED
  BY <1>4 DEF S

(* Whoever has the edges of a node has it in its component.                *)
LEMMA Neighbour ==
  ASSUME NEW E \in SUBSET Pairs, NEW x \in Nodes, NEW e \in E
  PROVE  Node1(e) \in Connected(E, x) <=> Node2(e) \in Connected(E, x)
BY EndsAreNodes DEF Connected

LEMMA SplitMembers ==
  ASSUME NEW E \in SUBSET Pairs, NEW x
  PROVE  /\ \A i : i \in Split(Connected(E, x))[1] <=> <<1, i>> \in Connected(E, x)
         /\ \A i : i \in Split(Connected(E, x))[2] <=> <<2, i>> \in Connected(E, x)
<1> DEFINE S == Connected(E, x)
<1>1. \A m \in S : m = <<m[1], m[2]>>
  BY DEF Connected, Nodes
<1> HIDE DEF S
<1>2. \A i : <<1, i>>[1] = 1 /\ <<1, i>>[2] = i /\ <<2, i>>[1] = 2 /\ <<2, i>>[2] = i
  OBVIOUS
<1>3. /\ \A i : i \in Split(S)[1] <=> <<1, i>> \in S
      /\ \A i : i \in Split(S)[2] <=> <<2, i>> \in S
  BY <1>1, <1>2 DEF Split
<1> QED
  BY <1>3 DEF S

LEMMA FindComponentsStep ==
  ASSUME MatchInv, FindComponents
  PROVE  MatchInv'
<1> PICK E : E = {p \in rest1 \X rest2 : Dist(p[1], p[2]) <= Thresh}
  OBVIOUS
<1>1. /\ pc = "hints" /\ pc' = "components" /\ near' = ComponentsOf(E)
      /\ l1' = l1 /\ l2' = l2 /\ dist_fn' = dist_fn /\ common' = common
      /\ rest1' = rest1 /\ rest2' = rest2
  BY DEF FindComponents
<1>2. E \in SUBSET Pairs /\ E \subseteq rest1 \X rest2
  BY DEF MatchInv, ListInv, Pairs
<1>3. Ends1(E) \subseteq rest1 /\ Ends2(E) \subseteq rest2
  BY <1>2 DEF Ends1, Ends2
<1>4. ASSUME NEW e \in E, NEW C, C = Split(Connected(E, Node1(e)))
      PROVE  C[1] \subseteq Ends1(E) /\ C[2] \subseteq Ends2(E)
  <2>1. /\ \A i : i \in C[1] <=> <<1, i>> \in Connected(E, Node1(e))
        /\ \A i : i \in C[2] <=> <<2, i>> \in Connected(E, Node1(e))
    BY ONLY <1>2, <1>4, SplitMembers
  <2>2. ASSUME NEW i \in C[1] PROVE i \in Ends1(E)
    <3>1. <<1, i>> \in Connected(E, Node1(e)) /\ <<1, i>>[1] = 1 /\ <<1, i>>[2] = i
      BY ONLY <2>1, <2>2
    <3> QED
      BY ONLY <1>2, <1>4, <3>1, ComponentEnds
  <2>3. ASSUME NEW i \in C[2] PROVE i \in Ends2(E)
    <3>1. <<2, i>> \in Connected(E, Node1(e)) /\ <<2, i>>[1] = 2 /\ <<2, i>>[2] = i
      BY ONLY <2>1, <2>3
    <3> QED
      BY ONLY <1>2, <1>4, <3>1, ComponentEnds
  <2> QED
    BY <2>2, <2>3
<1>5. ASSUME NEW e \in E, NEW C, C = Split(Connected(E, Node1(e)))
      PROVE  AlikeIn(C)
  <2> DEFINE S == Connected(E, Node1(e))
  <2>1. Node1(e) \in Nodes
    BY <1>2, EndsAreNodes
  <2>2. \A f \in E : <<1, f[1]>> \in S <=> <<2, f[2]>> \in S
    BY <1>2, <2>1, Neighbour DEF Node1, Node2
  <2>3. /\ \A i : i \in C[1] <=> <<1, i>> \in S
        /\ \A i : i \in C[2] <=> <<2, i>> \in S
    BY <1>2, <1>5, SplitMembers
  <2> HIDE DEF S
  <2>4. ASSUME NEW i \in rest1, NEW j \in rest1, l1[i + 1] = l1[j + 1], i \in C[1]
        PROVE  j \in C[1]
    <3>1. PICK f \in E : f[1] = i
      BY <1>4, <1>5, <2>4 DEF Ends1
    <3>2. f[2] \in rest2 /\ Dist(i, f[2]) <= Thresh
      BY <1>2, <3>1
    <3>3. <<j, f[2]>> \in E
      BY <2>4, <3>2 DEF Dist
    <3>4. \A g \in E : g[1] \in C[1] <=> g[2] \in C[2]
      BY <2>2, <2>3
    <3>5. <<j, f[2]>>[1] = j /\ <<j, f[2]>>[2] = f[2]
      OBVIOUS
    <3> QED
      BY ONLY <2>4, <3>1, <3>3, <3>4, <3>5
  <2>5. ASSUME NEW i \in rest2, NEW j \in rest2, l2[i + 1] = l2[j + 1], i \in C[2]
        PROVE  j \in C[2]
    <3>1. PICK f \in E : f[2] = i
      BY <1>4, <1>5, <2>5 DEF Ends2
    <3>2. f[1] \in rest1 /\ Dist(f[1], i) <= Thresh
      BY <1>2, <3>1
    <3>3. <<f[1], j>> \in E
      BY <2>5, <3>2 DEF Dist
    <3>4. \A g \in E : g[1] \in C[1] <=> g[2] \in C[2]
      BY <2>2, <2>3
    <3>5. <<f[1], j>>[1] = f[1] /\ <<f[1], j>>[2] = j
      OBVIOUS
    <3> QED
      BY ONLY <2>5, <3>1, <3>3, <3>4, <3>5
  <2> QED
    BY <2>4, <2>5 DEF AlikeIn
<1>6. NearInv'
  <2>1. \A C \in ComponentsOf(E) : C[1] \subseteq rest1 /\ C[2] \subseteq rest2 /\ AlikeIn(C)
    BY <1>3, <1>4, <1>5 DEF ComponentsOf
  <2> QED
    BY <1>1, <2>1 DEF NearInv, AlikeIn
<1>7. ListInv' /\ WithinTolerance'
  BY <1>1 DEF MatchInv, ListInv, WithinTolerance, Dist
<1>8. HintInv' /\ MatchedAlike(common)' /\ HintsExclusive'
  BY <1>1 DEF MatchInv, HintInv, MatchedAlike, HintsExclusive
<1> QED
  BY <1>6, <1>7, <1>8 DEF MatchInv

---------------------------------------------------------------------------
(* The ties of an assigned pair treat what is the same object alike.       *)
LEMMA TiesFacts ==
  ASSUME ListInv, NEW C, C[1] \subseteq rest1, C[2] \subseteq rest2, AlikeIn(C),
         NEW a \in SUBSET (C[1] \X C[2])
  PROVE  /\ \A q \in Ties(C, a) :
              /\ q \in rest1 \X rest2 /\ Dist(q[1], q[2]) < Thresh + Tolerance
         /\ MatchedAlike(Ties(C, a))
<1>1. \A q \in C[1] \X C[2] : q \in rest1 \X rest2 /\ Dist(q[1], q[2]) \in Nat
  BY DEF ListInv
<1>2. ASSUME NEW q \in Ties(C, a)
      PROVE  q \in rest1 \X rest2 /\ Dist(q[1], q[2]) < Thresh + Tolerance
  <2>1. q \in C[1] \X C[2]
    BY DEF Ties
  <2>2. PICK p \in a : Dist(p[1], p[2]) <= Thresh /\ SameDistance(p, q)
    BY DEF Ties
  <2>3. Dist(p[1], p[2]) \in Nat /\ Dist(q[1], q[2]) \in Nat
    BY <1>1, <2>1
  <2> QED
    BY <1>1, <2>1, <2>2, <2>3, DistancesAssumption DEF SameDistance
<1>3. ASSUME NEW p \in a PROVE SameDistance(p, p)
  BY <1>1, DistancesAssumption DEF SameDistance
<1>4. ASSUME NEW i \in rest1, NEW j \in rest1, l1[i + 1] = l1[j + 1],
             NEW q \in Ties(C, a), q[1] = i
      PROVE  \E p \in Ties(C, a) : p[1] = j
  <2>1. q \in C[1] \X C[2]
    BY DEF Ties
  <2>2. PICK p \in a : Dist(p[1], p[2]) <= Thresh /\ (p[1] = q[1] \/ p[2] = q[2]) /\ SameDistance(p, q)
    BY DEF Ties
  <2>3. \A y : Dist(i, y) = Dist(j, y)
    BY <1>4 DEF Dist
  <2>4. j \in C[1]
    BY <1>4, <2>1 DEF AlikeIn
  <2>5. CASE p[2] = q[2]
    <3> DEFINE r == <<j, q[2]>>
    <3>1. r \in C[1] \X C[2] /\ r[1] = j /\ r[2] = q[2]
      BY <2>1, <2>4
    <3>2. SameDistance(p, r)
      BY <1>4, <2>2, <2>3, <3>1 DEF SameDistance
    <3> QED
      BY <2>2, <2>5, <3>1, <3>2 DEF Ties
  <2>6. CASE p[1] = q[1]
    <3> DEFINE r == <<j, p[2]>>
    <3>1. r \in C[1] \X C[2] /\ r[1] = j /\ r[2] = p[2]
      BY <2>4
    <3>2. SameDistance(p, r)
      BY <1>3, <1>4, <2>3, <2>6, <3>1 DEF SameDistance
    <3> QED
      BY <2>2, <3>1, <3>2 DEF Ties
  <2> QED
    BY <2>2, <2>5, <2>6
<1>5. ASSUME NEW i \in rest2, NEW j \in rest2, l2[i + 1] = l2[j + 1],
             NEW q \in Ties(C, a), q[2] = i
      PROVE  \E p \in Ties(C, a) : p[2] = j
  <2>1. q \in C[1] \X C[2]
    BY DEF Ties
  <2>2. PICK p \in a : Dist(p[1], p[2]) <= Thresh /\ (p[1] = q[1] \/ p[2] = q[2]) /\ SameDistance(p, q)
    BY DEF Ties
  <2>3. \A x : Dist(x, i) = Dist(x, j)
    BY <1>5 DEF Dist
  <2>4. j \in C[2]
    BY <1>5, <2>1 DEF AlikeIn
  <2>5. CASE p[1] = q[1]
    <3> DEFINE r == <<q[1], j>>
    <3>1. r \in C[1] \X C[2] /\ r[1] = q[1] /\ r[2] = j
      BY <2>1, <2>4
    <3>2. SameDistance(p, r)
      BY <1>5, <2>2, <2>3, <3>1 DEF SameDistance
    <3> QED
      BY <2>2, <2>5, <3>1, <3>2 DEF Ties
  <2>6. CASE p[2] = q[2]
    <3> DEFINE r == <<p[1], j>>
    <3>1. r \in C[1] \X C[2] /\ r[1] = p[1] /\ r[2] = j
      BY <2>4
    <3>2. SameDistance(p, r)
      BY <1>3, <1>5, <2>3, <2>6, <3>1 DEF SameDistance
    <3> QED
      BY <2>2, <3>1, <3>2 DEF Ties
  <2> QED
    BY <2>2, <2>5, <2>6
<1>6. MatchedAlike(Ties(C, a))
  BY <1>4, <1>5 DEF MatchedAlike
<1> QED
  BY <1>2, <1>6

LEMMA MatchComponentStep ==
  ASSUME MatchInv, MatchComponent
  PROVE  MatchInv'
<1>1. PICK C \in near : near' = near \ {C} /\ \E a \in Computed(C) : common' = common \cup Ties(C, a)
  BY DEF MatchComponent
<1> PICK a \in Computed(C) : common' = common \cup Ties(C, a)
  BY <1>1
<1>2. /\ pc = "components" /\ pc' = pc /\ l1' = l1 /\ l2' = l2 /\ dist_fn' = dist_fn
      /\ rest1' = rest1 /\ rest2' = rest2
  BY DEF MatchComponent
<1>3. a \in SUBSET (C[1] \X C[2])
  BY DEF Computed, Assignments
<1>4. C[1] \subseteq rest1 /\ C[2] \subseteq rest2 /\ AlikeIn(C) /\ ListInv
  BY DEF MatchInv, NearInv
<1> PICK T : T = Ties(C, a)
  OBVIOUS
<1>5. /\ \A q \in T : q \in rest1 \X rest2 /\ Dist(q[1], q[2]) < Thresh + Tolerance
      /\ MatchedAlike(T)
  BY <1>3, <1>4, TiesFacts
<1>6. common' = common \cup T
  OBVIOUS
<1>7. ListInv' /\ WithinTolerance'
  BY <1>2, <1>5, <1>6 DEF MatchInv, ListInv, WithinTolerance, Dist
<1>8. MatchedAlike(common)'
  BY <1>2, <1>5, <1>6 DEF MatchInv, MatchedAlike
<1>9. HintsExclusive'
  BY <1>2, <1>5, <1>6 DEF MatchInv, HintsExclusive
<1>10. HintInv' /\ NearInv'
  BY <1>1, <1>2 DEF MatchInv, HintInv, NearInv, AlikeIn
<1> QED
  BY <1>7, <1>8, <1>9, <1>10 DEF MatchInv

LEMMA MatchInvariant == Spec => []MatchInv
<1>1. ASSUME MatchInv, [Next]_vars PROVE MatchInv'
  <2>1. ASSUME /\ l1' = l1 /\ l2' = l2 /\ dist_fn' = dist_fn /\ common' = common /\ near' = near
               /\ rest1' = rest1 /\ rest2' = rest2
               /\ pc' = pc \/ (pc = "hints" /\ pc' = "raised") \/ pc' = "done"
        PROVE  MatchInv'
    <3>1. ListInv' /\ WithinTolerance'
      BY <1>1, <2>1 DEF MatchInv, ListInv, WithinTolerance, Dist
    <3>2. HintInv' /\ NearInv' /\ MatchedAlike(common)' /\ HintsExclusive'
      BY <1>1, <2>1 DEF MatchInv, HintInv, NearInv, AlikeIn, MatchedAlike, HintsExclusive
    <3> QED
      BY <3>1, <3>2 DEF MatchInv
  <2>2. CASE Hint
    BY <1>1, <2>2, HintStep
  <2>3. CASE HintRaises
    BY <2>1, <2>3 DEF HintRaises
  <2>4. CASE FindComponents
    BY <1>1, <2>4, FindComponentsStep
  <2>5. CASE MatchComponent
    BY <1>1, <2>5, MatchComponentStep
  <2>6. CASE Return
    BY <2>1, <2>6 DEF Return
  <2>7. CASE UNCHANGED vars
    BY <2>1, <2>7 DEF vars
  <2> QED
    BY <1>1, <2>2, <2>3, <2>4, <2>5, <2>6, <2>7 DEF Next, Match, Returned
<1> QED
  BY InitMatch, <1>1, PTL DEF Spec

---------------------------------------------------------------------------
(* A pair that a normalisation function has hinted shares no element with  *)
(* another pair, not even with one that a tie adds, whatever the functions *)
(* and the distances (_match_by_norm_func).                                *)
THEOREM HintsAlwaysExclusive == Spec => []HintsExclusive
<1>1. MatchInv => HintsExclusive
  BY DEF MatchInv
<1> QED
  BY <1>1, MatchInvariant, PTL

(* No match is further than the threshold by the tolerance of the ties,    *)
(* whatever the assignments (_match_munkres).                              *)
THEOREM AlwaysWithinTolerance == Spec => []WithinTolerance
<1>1. MatchInv => WithinTolerance
  BY DEF MatchInv
<1> QED
  BY <1>1, MatchInvariant, PTL

(* Two elements that are the same object, neither settled by a hint, are   *)
(* both matched or both not: adding the ties makes up for whichever of     *)
(* them the assignment has picked (_match_munkres).                        *)
THEOREM DuplicatesAlwaysAlike == Spec => []DuplicatesAlike
<1>1. MatchInv => DuplicatesAlike
  BY DEF MatchInv, MatchedAlike, DuplicatesAlike
<1> QED
  BY <1>1, MatchInvariant, PTL
=============================================================================
