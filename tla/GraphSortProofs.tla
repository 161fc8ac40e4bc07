-------------------------- MODULE GraphSortProofs --------------------------
(***************************************************************************)
(* Theorems of GraphSort, for match graphs of any size.                    *)
(***************************************************************************)
EXTENDS GraphSort, FiniteSetTheorems, WellFoundedInduction, TLAPS

---------------------------------------------------------------------------
(* Numbers: a set of naturals has a least element.                         *)
LEMMA Least ==
  ASSUME NEW S \in SUBSET Nat, S # {}
  PROVE  \E i \in S : \A j \in S : i <= j
<1>1. PICK i \in S : \A j \in S : ~(<<j, i>> \in OpToRel(<, Nat))
  BY NatLessThanWellFounded, WFMin
<1>2. \A j \in S : ~(j < i)
  BY <1>1 DEF OpToRel
<1> QED
  BY <1>2

---------------------------------------------------------------------------
(* What a match graph is, without the numbering of its nodes: each side is *)
(* a chain c of different nodes, which starts from FIRST and leaves out    *)
(* what is not on that side.                                               *)
Distinct(s) == \A i, j \in 1 .. Len(s) : s[i] = s[j] => i = j

At(c, k) == IF k = 0 THEN FIRST ELSE IF k <= Len(c) THEN c[k] ELSE NONE

Follows(c, l) ==
  /\ c \in Seq(Nodes \ {FIRST}) /\ Distinct(c)
  /\ \A k \in 0 .. Len(c) : graph[At(c, k)][l] = At(c, k + 1)
  /\ \A m \in Nodes \ {FIRST} : (\A k \in 1 .. Len(c) : c[k] # m) => graph[m][l] = NONE

(* The chain of each side.                                                 *)
ChainOf(l) == CHOOSE c : Follows(c, l)

GraphInv ==
  /\ \E n \in Nat : Nodes = 0 .. n
  /\ graph \in [Nodes -> [Sides -> (Nodes \ {FIRST}) \cup {NONE}]]
  /\ \A l \in Sides : Follows(ChainOf(l), l)
  /\ \A m \in Nodes \ {FIRST} : \E l \in Sides : \E k \in Nodes : graph[k][l] = m
  /\ pick_first \in Sides

LEMMA NextInChain ==
  ASSUME NEW n \in Nat, NEW c \in Chains(n)
  PROVE  /\ c \in Seq(1 .. n) /\ Distinct(c)
         /\ \A k \in 0 .. Len(c) : NextIn(c, At(c, k)) = At(c, k + 1)
<1>1. c \in Seq(1 .. n) /\ \A i, j \in DOMAIN c : c[i] = c[j] => i = j
  BY DEF Chains
<1>2. DOMAIN c = 1 .. Len(c) /\ Len(c) \in Nat
  BY <1>1
<1>3. ASSUME NEW k \in 0 .. Len(c)
      PROVE  NextIn(c, At(c, k)) = At(c, k + 1)
  <2>1. CASE k = 0
    BY <1>2, <2>1 DEF NextIn, At, FIRST
  <2>2. CASE k # 0
    <3>1. At(c, k) = c[k] /\ c[k] \in 1 .. n /\ c[k] # FIRST
      BY <1>1, <1>2, <2>2 DEF At, FIRST
    <3>2. (CHOOSE i \in DOMAIN c : c[i] = c[k]) = k
      BY <1>1, <1>2, <2>2
    <3> DEFINE at == IF c[k] = FIRST THEN 0 ELSE CHOOSE i \in DOMAIN c : c[i] = c[k]
    <3>3. NextIn(c, c[k]) = IF at + 1 \in DOMAIN c THEN c[at + 1] ELSE NONE
      BY DEF NextIn
    <3>4. at = k
      BY <3>1, <3>2
    <3> HIDE DEF at
    <3> QED
      BY <1>2, <2>2, <3>1, <3>3, <3>4 DEF At
  <2> QED
    BY <2>1, <2>2
<1> QED
  BY <1>1, <1>2, <1>3 DEF Distinct

LEMMA InitialGraph ==
  ASSUME IsMatchGraph, pick_first \in Sides
  PROVE  GraphInv
<1>1. PICK n \in 0 .. MaxNodes : graph \in MatchGraphs(n)
  BY DEF IsMatchGraph
<1>2. PICK p \in Chains(n) \X Chains(n) :
        /\ \A m \in 1 .. n : Visits(p[1], m) \/ Visits(p[2], m)
        /\ graph = TwoChains(n, p[1], p[2])
  BY <1>1 DEF MatchGraphs
<1> DEFINE c == [l \in Sides |-> IF l = "head" THEN p[1] ELSE p[2]]
<1>3. n \in Nat
  BY <1>1, MaxNodesAssumption
<1>4. Nodes = 0 .. n
  BY <1>2 DEF Nodes, TwoChains
<1>5. \A l \in Sides : c[l] \in Chains(n)
  BY <1>2 DEF Sides
<1>6. \A m \in Nodes, l \in Sides :
        graph[m][l] = IF Visits(c[l], m) THEN NextIn(c[l], m) ELSE NONE
  BY <1>2, <1>4 DEF TwoChains, Sides
<1>7. ASSUME NEW l \in Sides PROVE Follows(c[l], l)
  <2>1. /\ c[l] \in Seq(1 .. n) /\ Distinct(c[l])
        /\ \A k \in 0 .. Len(c[l]) : NextIn(c[l], At(c[l], k)) = At(c[l], k + 1)
    BY <1>3, <1>5, NextInChain
  <2>2. c[l] \in Seq(Nodes \ {FIRST})
    <3>1. Nodes \ {FIRST} = 1 .. n
      BY <1>3, <1>4 DEF FIRST
    <3> QED
      BY <2>1, <3>1
  <2>3. DOMAIN c[l] = 1 .. Len(c[l]) /\ Len(c[l]) \in Nat
    BY <2>1
  <2>4. ASSUME NEW k \in 0 .. Len(c[l])
        PROVE  graph[At(c[l], k)][l] = At(c[l], k + 1)
    <3>1. At(c[l], k) \in Nodes /\ Visits(c[l], At(c[l], k))
      BY <1>3, <1>4, <2>2, <2>3 DEF At, Visits, FIRST
    <3> QED
      BY <1>6, <2>1, <3>1
  <2>5. ASSUME NEW m \in Nodes \ {FIRST}, \A k \in 1 .. Len(c[l]) : c[l][k] # m
        PROVE  graph[m][l] = NONE
    BY <1>6, <2>3, <2>5 DEF Visits
  <2> QED
    BY <2>1, <2>2, <2>4, <2>5 DEF Follows
<1>8. \A l \in Sides : Follows(ChainOf(l), l)
  BY <1>7 DEF ChainOf
<1>9. ASSUME NEW m \in Nodes, NEW l \in Sides
      PROVE  graph[m][l] \in (Nodes \ {FIRST}) \cup {NONE}
  <2>1. CASE ~Visits(c[l], m)
    BY <1>6, <2>1
  <2>2. CASE Visits(c[l], m)
    <3>1. c[l] \in Seq(Nodes \ {FIRST})
      BY <1>7 DEF Follows
    <3>2. PICK k \in 0 .. Len(c[l]) : m = At(c[l], k)
      <4>1. CASE m = FIRST
        <5>1. 0 \in 0 .. Len(c[l]) /\ At(c[l], 0) = m
          BY <3>1, <4>1 DEF At
        <5> QED
          BY <5>1
      <4>2. CASE m # FIRST
        <5>1. PICK i \in DOMAIN c[l] : c[l][i] = m
          BY <2>2, <4>2 DEF Visits
        <5>2. i \in 0 .. Len(c[l]) /\ At(c[l], i) = m
          BY <3>1, <5>1 DEF At
        <5> QED
          BY <5>2
      <4> QED
        BY <4>1, <4>2
    <3>3. graph[m][l] = At(c[l], k + 1)
      BY <1>7, <3>2 DEF Follows
    <3> QED
      BY <3>1, <3>2, <3>3 DEF At
  <2> QED
    BY <2>1, <2>2
<1>10. ASSUME NEW m \in Nodes \ {FIRST}
       PROVE  \E l \in Sides : \E k \in Nodes : graph[k][l] = m
  <2>1. PICK l \in Sides : Visits(c[l], m)
    BY <1>2, <1>3, <1>4 DEF Sides, FIRST
  <2>2. c[l] \in Seq(Nodes \ {FIRST})
    BY <1>7 DEF Follows
  <2>3. PICK k \in 1 .. Len(c[l]) : c[l][k] = m
    BY <2>1, <2>2 DEF Visits
  <2>4. At(c[l], k - 1) \in Nodes /\ k - 1 \in 0 .. Len(c[l]) /\ At(c[l], k) = m
    BY <1>3, <1>4, <2>2, <2>3 DEF At, FIRST
  <2> QED
    BY <1>7, <2>4 DEF Follows
<1> QED
  <2>1. graph \in [Nodes -> [Sides -> (Nodes \ {FIRST}) \cup {NONE}]]
    <3>1. graph = [m \in Nodes |-> [l \in Sides |-> graph[m][l]]]
      BY <1>2, <1>4, Zenon DEF TwoChains, Sides
    <3> QED
      BY <1>9, <3>1
  <2> QED
    BY <1>3, <1>4, <1>8, <1>10, <2>1 DEF GraphInv
---------------------------------------------------------------------------
(* The reference chain of GraphSort is ChainOf.                            *)

LEMMA NodesAreNumbers ==
  ASSUME GraphInv
  PROVE  Nodes \subseteq Nat /\ FIRST \in Nodes /\ NONE \notin Nodes /\ IsFiniteSet(Nodes)
<1>1. PICK n \in Nat : Nodes = 0 .. n
  BY DEF GraphInv
<1>2. IsFiniteSet(0 .. n)
  BY FS_Interval
<1> QED
  BY <1>1, <1>2 DEF FIRST, NONE

LEMMA ChainFacts ==
  ASSUME GraphInv, NEW l \in Sides
  PROVE  LET c == ChainOf(l) IN
         /\ c \in Seq(Nodes \ {FIRST}) /\ Len(c) \in Nat /\ Distinct(c)
         /\ \A k \in 1 .. Len(c) : c[k] \in Nodes /\ c[k] # FIRST /\ c[k] # NONE
         /\ \A k \in 0 .. Len(c) : At(c, k) \in Nodes /\ graph[At(c, k)][l] = At(c, k + 1)
         /\ \A m \in Nodes \ {FIRST} : (\A k \in 1 .. Len(c) : c[k] # m) => graph[m][l] = NONE
<1> DEFINE c == ChainOf(l)
<1>1. /\ c \in Seq(Nodes \ {FIRST}) /\ Distinct(c)
      /\ \A k \in 0 .. Len(c) : graph[At(c, k)][l] = At(c, k + 1)
      /\ \A m \in Nodes \ {FIRST} : (\A k \in 1 .. Len(c) : c[k] # m) => graph[m][l] = NONE
  BY DEF GraphInv, Follows
<1> HIDE DEF c
<1>2. Len(c) \in Nat /\ \A k \in 1 .. Len(c) : c[k] \in Nodes \ {FIRST}
  BY <1>1
<1>3. \A k \in 0 .. Len(c) : At(c, k) \in Nodes
  BY <1>2, NodesAreNumbers DEF At
<1> QED
  BY <1>1, <1>2, <1>3, NodesAreNumbers DEF c

LEMMA StepIsAt ==
  ASSUME GraphInv, NEW l \in Sides, NEW k \in Nat
  PROVE  Step(l)[k] = At(ChainOf(l), k)
<1> DEFINE c == ChainOf(l)
           F == [j \in Nat |-> At(c, j)]
           Rec(at) == [j \in Nat |->
                         IF j = 0 THEN FIRST
                         ELSE IF at[j - 1] = NONE THEN NONE ELSE graph[at[j - 1]][l]]
<1>1. F = Rec(F)
  <2>1. ASSUME NEW j \in Nat
        PROVE  At(c, j) = IF j = 0 THEN FIRST
                          ELSE IF F[j - 1] = NONE THEN NONE ELSE graph[F[j - 1]][l]
    <3>1. CASE j = 0
      BY <3>1 DEF At
    <3>2. CASE j # 0 /\ j - 1 <= Len(c)
      <4>1. j - 1 \in 0 .. Len(c) /\ F[j - 1] = At(c, j - 1) /\ F[j - 1] # NONE
        BY <3>2, ChainFacts, NodesAreNumbers
      <4>2. graph[At(c, j - 1)][l] = At(c, j)
        BY <4>1, ChainFacts
      <4> QED
        BY <3>2, <4>1, <4>2
    <3>3. CASE j # 0 /\ ~(j - 1 <= Len(c))
      <4>1. Len(c) \in Nat /\ j - 1 \in Nat
        BY <3>3, ChainFacts
      <4>2. At(c, j) = NONE /\ At(c, j - 1) = NONE
        BY <3>3, <4>1 DEF At
      <4> QED
        BY <3>3, <4>1, <4>2
    <3> QED
      BY <3>1, <3>2, <3>3
  <2> QED
    BY <2>1
<1>2. Step(l) = CHOOSE at : at = Rec(at)
  BY DEF Step
<1>3. Step(l) = Rec(Step(l))
  BY <1>1, <1>2
<1> HIDE DEF F
<1> DEFINE wrong == {j \in Nat : Step(l)[j] # F[j]}
<1>4. wrong = {}
  <2> SUFFICES ASSUME wrong # {} PROVE FALSE
    OBVIOUS
  <2>1. PICK j \in wrong : \A i \in wrong : j <= i
    BY Least
  <2>2. CASE j = 0
    BY <1>1, <1>3, <2>1, <2>2
  <2>3. CASE j # 0
    <3>1. j - 1 \in Nat /\ Step(l)[j - 1] = F[j - 1]
      BY <2>1, <2>3
    <3>2. Rec(Step(l))[j] = Rec(F)[j]
      BY <2>1, <2>3, <3>1
    <3> QED
      BY <1>1, <1>3, <2>1, <3>2
  <2> QED
    BY <2>2, <2>3
<1> QED
  BY <1>4 DEF F

(* A side has one chain.                                                   *)
LEMMA OneChain ==
  ASSUME GraphInv, NEW l \in Sides, NEW c, Follows(c, l)
  PROVE  c = ChainOf(l)
<1> DEFINE d == ChainOf(l)
<1>1. /\ d \in Seq(Nodes \ {FIRST}) /\ Len(d) \in Nat
      /\ \A k \in 1 .. Len(d) : d[k] # NONE
      /\ \A k \in 0 .. Len(d) : graph[At(d, k)][l] = At(d, k + 1)
  BY ChainFacts
<1> HIDE DEF d
<1>2. /\ c \in Seq(Nodes \ {FIRST}) /\ Len(c) \in Nat
      /\ \A k \in 0 .. Len(c) : graph[At(c, k)][l] = At(c, k + 1)
  BY DEF Follows
<1>3. \A k \in 1 .. Len(c) : c[k] # NONE
  <2>1. NONE \notin Nodes
    BY DEF GraphInv, NONE
  <2> QED
    BY <1>2, <2>1
<1> DEFINE S == {k \in Nat : At(c, k) # At(d, k)}
<1>4. S = {}
  <2> SUFFICES ASSUME S # {} PROVE FALSE
    OBVIOUS
  <2>1. PICK k \in S : \A j \in S : k <= j
    BY Least
  <2>2. k \in Nat /\ At(c, k) # At(d, k)
    OBVIOUS
  <2>3. k # 0
    BY <2>2 DEF At
  <2>4. k - 1 \in Nat /\ ~(k <= k - 1) /\ (k - 1) + 1 = k
    BY <2>2, <2>3
  <2>5. At(c, k - 1) = At(d, k - 1)
    BY <2>1, <2>4
  <2>6. k - 1 <= Len(c) <=> k - 1 <= Len(d)
    <3>1. ASSUME NEW j \in Nat
          PROVE  /\ At(c, j) # NONE <=> j <= Len(c)
                 /\ At(d, j) # NONE <=> j <= Len(d)
      <4>1. CASE j = 0
        BY <1>1, <1>2, <4>1 DEF At, FIRST, NONE
      <4>2. CASE j # 0
        <5>1. /\ j <= Len(c) => j \in 1 .. Len(c)
              /\ j <= Len(d) => j \in 1 .. Len(d)
          BY <1>1, <1>2, <3>1, <4>2
        <5> QED
          BY <1>1, <1>3, <4>2, <5>1 DEF At
      <4> QED
        BY <4>1, <4>2
    <3> QED
      BY <2>4, <2>5, <3>1
  <2>7. CASE k - 1 <= Len(c)
    <3>1. k - 1 \in 0 .. Len(c) /\ k - 1 \in 0 .. Len(d)
      BY <1>1, <1>2, <2>4, <2>6, <2>7
    <3>2. At(c, k) = graph[At(c, k - 1)][l]
      BY <1>2, <2>4, <3>1
    <3>3. At(d, k) = graph[At(d, k - 1)][l]
      BY <1>1, <2>4, <3>1
    <3> QED
      BY <2>2, <2>5, <3>2, <3>3
  <2>8. CASE ~(k - 1 <= Len(c))
    BY <1>1, <1>2, <2>2, <2>3, <2>4, <2>6, <2>8 DEF At
  <2> QED
    BY <2>7, <2>8
<1>5. \A k \in Nat : At(c, k) = At(d, k)
  BY <1>4
<1>6. Len(c) = Len(d)
  <2>1. CASE Len(c) < Len(d)
    <3>1. Len(d) # 0 /\ ~(Len(d) <= Len(c)) /\ Len(d) <= Len(d) /\ Len(d) \in 1 .. Len(d)
      BY <1>1, <1>2, <2>1
    <3> QED
      BY <1>1, <1>5, <3>1 DEF At
  <2>2. CASE Len(d) < Len(c)
    <3>1. Len(c) # 0 /\ ~(Len(c) <= Len(d)) /\ Len(c) <= Len(c) /\ Len(c) \in 1 .. Len(c)
      BY <1>1, <1>2, <2>2
    <3> QED
      BY <1>2, <1>3, <1>5, <3>1 DEF At
  <2> QED
    BY <1>1, <1>2, <2>1, <2>2
<1>7. \A k \in 1 .. Len(c) : c[k] = d[k]
  <2> SUFFICES ASSUME NEW k \in 1 .. Len(c) PROVE c[k] = d[k]
    OBVIOUS
  <2>1. k \in Nat /\ k # 0 /\ k <= Len(c) /\ k <= Len(d)
    BY <1>2, <1>6
  <2> QED
    BY <1>5, <2>1 DEF At
<1> QED
  BY <1>1, <1>2, <1>6, <1>7 DEF d

(* A sequence of different elements of a set is at most as long as the set *)
(* is large, and has all of it when it is as long.                         *)
LEMMA DistinctLength ==
  ASSUME NEW S, IsFiniteSet(S), NEW s \in Seq(S), Distinct(s)
  PROVE  /\ Len(s) \in Nat /\ Cardinality(S) \in Nat /\ Len(s) <= Cardinality(S)
         /\ Len(s) = Cardinality(S) <=> {s[i] : i \in 1 .. Len(s)} = S
<1>1. Len(s) \in Nat /\ s \in [1 .. Len(s) -> S]
  OBVIOUS
<1>2. s \in Injection(1 .. Len(s), S)
  BY <1>1 DEF Injection, IsInjective, Distinct
<1>3. Cardinality(1 .. Len(s)) = Len(s)
  BY <1>1, FS_Interval
<1>4. Len(s) <= Cardinality(S) /\ (Len(s) = Cardinality(S) <=> s \in Surjection(1 .. Len(s), S))
  BY <1>2, <1>3, FS_Injection
<1>5. s \in Surjection(1 .. Len(s), S) <=> {s[i] : i \in 1 .. Len(s)} = S
  BY <1>1 DEF Surjection
<1> QED
  BY <1>1, <1>4, <1>5, FS_CardinalityType

LEMMA ReferenceChain ==
  ASSUME GraphInv, NEW l \in Sides
  PROVE  LET c == ChainOf(l) IN
         /\ \A n \in Nodes : OnChain(l, n) <=> \E k \in 1 .. Len(c) : c[k] = n
         /\ \A m, n \in Nodes :
              Precedes(l, m, n) <=> \E j \in 1 .. Len(c) : \E i \in 1 .. j - 1 : c[i] = m /\ c[j] = n
<1> DEFINE c == ChainOf(l)
           N == Cardinality(Nodes)
<1>1. /\ c \in Seq(Nodes \ {FIRST}) /\ c \in Seq(Nodes) /\ Distinct(c) /\ Len(c) \in Nat
      /\ \A k \in 1 .. Len(c) : c[k] # NONE
  BY ChainFacts
<1>2. N \in Nat /\ Len(c) <= N
  BY <1>1, NodesAreNumbers, DistinctLength
<1>3. \A k \in 1 .. N : Step(l)[k] = IF k <= Len(c) THEN c[k] ELSE NONE
  BY <1>2, StepIsAt DEF At
<1> HIDE DEF c, N
<1>4. \A k \in 1 .. N : \A n \in Nodes : Step(l)[k] = n <=> k \in 1 .. Len(c) /\ c[k] = n
  BY <1>1, <1>2, <1>3, NodesAreNumbers
<1>5. \A n \in Nodes : OnChain(l, n) <=> \E k \in 1 .. Len(c) : c[k] = n
  BY <1>1, <1>2, <1>4 DEF OnChain, N
<1>6. ASSUME NEW m \in Nodes, NEW n \in Nodes
      PROVE  Precedes(l, m, n) <=> \E j \in 1 .. Len(c) : \E i \in 1 .. j - 1 : c[i] = m /\ c[j] = n
  <2>1. ASSUME Precedes(l, m, n)
        PROVE  \E j \in 1 .. Len(c) : \E i \in 1 .. j - 1 : c[i] = m /\ c[j] = n
    <3>1. PICK j \in 1 .. N : \E i \in 1 .. j - 1 : Step(l)[i] = m /\ Step(l)[j] = n
      BY <2>1 DEF Precedes, N
    <3>2. PICK i \in 1 .. j - 1 : Step(l)[i] = m /\ Step(l)[j] = n
      BY <3>1
    <3>3. i \in 1 .. N
      BY <1>2
    <3>4. c[i] = m /\ j \in 1 .. Len(c) /\ c[j] = n
      BY <1>4, <3>2, <3>3
    <3> QED
      BY <3>4
  <2>2. ASSUME NEW j \in 1 .. Len(c), NEW i \in 1 .. j - 1, c[i] = m, c[j] = n
        PROVE  Precedes(l, m, n)
    <3>1. j \in 1 .. N /\ i \in 1 .. N /\ i \in 1 .. Len(c)
      BY <1>1, <1>2
    <3>2. Step(l)[i] = m /\ Step(l)[j] = n
      BY <1>4, <2>2, <3>1
    <3> QED
      BY <3>1, <3>2 DEF Precedes, N
  <2> QED
    BY <2>1, <2>2
<1> QED
  BY <1>5, <1>6 DEF c

(* The node before another one on a side is the one before it in the chain *)
(* of that side.                                                           *)
LEMMA PredecessorInChain ==
  ASSUME GraphInv, NEW l \in Sides, NEW m \in Nodes, graph[m][l] # NONE
  PROVE  \E k \in 1 .. Len(ChainOf(l)) : ChainOf(l)[k] = graph[m][l] /\ m = At(ChainOf(l), k - 1)
<1> DEFINE c == ChainOf(l)
<1>1. c \in Seq(Nodes \ {FIRST}) /\ Len(c) \in Nat
  BY ChainFacts
<1>2. PICK k \in 0 .. Len(c) : m = At(c, k)
  <2>1. CASE m = FIRST
    BY <1>1, <2>1 DEF At
  <2>2. CASE m # FIRST
    <3>1. PICK k \in 1 .. Len(c) : c[k] = m
      BY <2>2, ChainFacts
    <3>2. k # 0 /\ k <= Len(c) /\ k \in 0 .. Len(c)
      BY <1>1
    <3> QED
      BY <3>1, <3>2 DEF At
  <2> QED
    BY <2>1, <2>2
<1>3. graph[m][l] = At(c, k + 1)
  BY <1>2, ChainFacts
<1>4. k + 1 \in 1 .. Len(c) /\ c[k + 1] = graph[m][l]
  BY <1>1, <1>2, <1>3 DEF At
<1>5. (k + 1) - 1 = k
  BY <1>1
<1> QED
  BY <1>2, <1>4, <1>5

(* On each side at most one node comes before another.                     *)
LEMMA OnePredecessor ==
  ASSUME GraphInv, NEW l \in Sides, NEW m \in Nodes, NEW n \in Nodes,
         graph[m][l] # NONE, graph[m][l] = graph[n][l]
  PROVE  m = n
<1> DEFINE c == ChainOf(l)
<1>1. PICK j \in 1 .. Len(c) : c[j] = graph[m][l] /\ m = At(c, j - 1)
  BY PredecessorInChain
<1>2. PICK k \in 1 .. Len(c) : c[k] = graph[n][l] /\ n = At(c, k - 1)
  BY PredecessorInChain
<1>3. j = k
  BY <1>1, <1>2, ChainFacts DEF Distinct
<1> QED
  BY <1>1, <1>2, <1>3
---------------------------------------------------------------------------
(* toposort: what counts as done, and what the count of in-edges says.     *)
Elems(s) == {s[i] : i \in 1 .. Len(s)}

(* The edges into n from nodes that are not in V.                          *)
InEdges(n, V) == {e \in (Nodes \ V) \X Sides : graph[e[1]][e[2]] = n}

Free(n, V) == InEdges(n, V) = {}

SortType ==
  /\ pc \in {"count", "toposort", "first_chain", "second_chain", "sorted"}
  /\ ordered \in Seq(Nodes \ {FIRST})
  /\ stk \in Seq(Nodes)
  /\ visited \subseteq Nodes
  /\ current \in Nodes \cup {NONE}
  /\ cyclic \in BOOLEAN

(* in_deg counts the in-edges that have not been followed, and the stack   *)
(* has the nodes left that have none.                                      *)
StackInv ==
  pc = "toposort" =>
    /\ ~cyclic
    /\ visited = {} => stk = <<FIRST>>
    /\ visited # {} => FIRST \in visited
    /\ in_deg = [n \in Nodes |-> Cardinality(InEdges(n, visited))]
    /\ Distinct(stk)
    /\ \A n \in Nodes : n \in Elems(stk) <=> n \notin visited /\ Free(n, visited)

LEMMA InEdgesFinite ==
  ASSUME GraphInv, NEW n, NEW V
  PROVE  IsFiniteSet(InEdges(n, V)) /\ Cardinality(InEdges(n, V)) \in Nat
         /\ (Cardinality(InEdges(n, V)) = 0 <=> Free(n, V))
<1>1. IsFiniteSet(Sides)
  <2>1. Sides = {"head"} \cup {"update"}
    BY DEF Sides
  <2> QED
    BY <2>1, FS_Singleton, FS_Union
<1>2. IsFiniteSet(Nodes \X Sides)
  BY <1>1, NodesAreNumbers, FS_Product
<1>3. InEdges(n, V) \in SUBSET (Nodes \X Sides)
  BY DEF InEdges
<1> QED
  BY <1>2, <1>3, FS_Subset, FS_CardinalityType, FS_EmptySet DEF Free

LEMMA OtherSide ==
  ASSUME NEW l \in Sides
  PROVE  Other[l] \in Sides /\ Other[l] # l /\ Sides = {l, Other[l]}
BY DEF Other, Sides

(* Following the edges of a node takes them away from those they lead to.  *)
LEMMA EdgesFollowed ==
  ASSUME GraphInv, NEW V \in SUBSET Nodes, NEW m \in Nodes \ V, NEW n \in Nodes,
         NEW l \in Sides
  PROVE  Cardinality(InEdges(n, V \cup {m})) =
           Cardinality(InEdges(n, V)) - (IF graph[m][Other[l]] = n THEN 1 ELSE 0)
                                      - (IF graph[m][l] = n THEN 1 ELSE 0)
<1> DEFINE o == Other[l]
           E0 == InEdges(n, V)
           E1 == E0 \ {<<m, o>>}
           E2 == E1 \ {<<m, l>>}
<1>1. o \in Sides /\ o # l /\ Sides = {l, o}
  BY OtherSide
<1>2. InEdges(n, V \cup {m}) = E2
  BY <1>1 DEF InEdges
<1>3. <<m, o>> \in E0 <=> graph[m][o] = n
  BY <1>1 DEF InEdges
<1>4. <<m, l>> \in E1 <=> graph[m][l] = n
  BY <1>1 DEF InEdges
<1>5. IsFiniteSet(E0) /\ Cardinality(E0) \in Nat
  BY InEdgesFinite
<1>6. /\ IsFiniteSet(E1)
      /\ Cardinality(E1) = IF <<m, o>> \in E0 THEN Cardinality(E0) - 1 ELSE Cardinality(E0)
  BY <1>5, FS_RemoveElement
<1>7. Cardinality(E2) = IF <<m, l>> \in E1 THEN Cardinality(E1) - 1 ELSE Cardinality(E1)
  BY <1>6, FS_RemoveElement
<1> HIDE DEF E0, E1, E2, o
<1>8. Cardinality(E1) \in Int
  BY <1>5, <1>6
<1> QED
  BY <1>2, <1>3, <1>4, <1>5, <1>6, <1>7, <1>8 DEF E0, o

(* The successors of a node that have no other in-edge left, in the order  *)
(* in which they go on the stack.                                          *)
Pushed(m, V) ==
  LET o == graph[m][Other[pick_first]]
      p == graph[m][pick_first]
  IN (IF o \notin {NONE, p} /\ Free(o, V) THEN <<o>> ELSE <<>>)
     \o (IF p # NONE /\ Free(p, V) THEN <<p>> ELSE <<>>)

(* The effect of following one edge.                                       *)
LEMMA RelaxEffect ==
  ASSUME GraphInv, NEW d \in [Nodes -> Int], NEW s \in Seq(Nodes), NEW n \in Nodes \cup {NONE}
  PROVE  Relax([in_deg |-> d, stk |-> s], n) =
           [in_deg |-> [m \in Nodes |-> IF m = n THEN d[m] - 1 ELSE d[m]],
            stk    |-> s \o (IF n # NONE /\ d[n] = 1 THEN <<n>> ELSE <<>>)]
<1>1. NONE \notin Nodes
  BY NodesAreNumbers
<1>2. CASE n = NONE
  <2>1. Relax([in_deg |-> d, stk |-> s], n) = [in_deg |-> d, stk |-> s]
    BY <1>2 DEF Relax
  <2>2. d = [m \in Nodes |-> IF m = n THEN d[m] - 1 ELSE d[m]]
    BY <1>1, <1>2
  <2>3. s = s \o <<>>
    OBVIOUS
  <2> QED
    BY <1>2, <2>1, <2>2, <2>3
<1>3. CASE n # NONE
  <2> DEFINE w == [in_deg |-> d, stk |-> s]
  <2>1. Relax(w, n) = [in_deg |-> [w.in_deg EXCEPT ![n] = @ - 1],
                       stk |-> IF w.in_deg[n] = 1 THEN Append(w.stk, n) ELSE w.stk]
    BY <1>3 DEF Relax
  <2>2. n \in Nodes /\ w.in_deg = d /\ w.stk = s
    BY <1>3
  <2>3. [d EXCEPT ![n] = @ - 1] = [m \in Nodes |-> IF m = n THEN d[m] - 1 ELSE d[m]]
    BY <2>2
  <2>4. Append(s, n) = s \o <<n>> /\ s = s \o <<>>
    BY <2>2
  <2> HIDE DEF w
  <2> QED
    BY <1>3, <2>1, <2>2, <2>3, <2>4 DEF w
<1> QED
  BY <1>2, <1>3

(* The effect of Output: its node leaves the stack, and the nodes that its *)
(* edges make free go on it.                                               *)
LEMMA OutputEffect ==
  ASSUME GraphInv, SortType, StackInv, pc = "toposort", stk # <<>>,
         NEW m, m = stk[Len(stk)], Output(m)
  PROVE  /\ m \in Nodes \ visited
         /\ visited' = visited \cup {m}
         /\ in_deg' = [n \in Nodes |-> Cardinality(InEdges(n, visited'))]
         /\ stk' = SubSeq(stk, 1, Len(stk) - 1) \o Pushed(m, visited')
<1> DEFINE rest == SubSeq(stk, 1, Len(stk) - 1)
           V == visited \cup {m}
           o == graph[m][Other[pick_first]]
           p == graph[m][pick_first]
           w1 == Relax([in_deg |-> in_deg, stk |-> rest], o)
           w2 == Relax(w1, p)
<1>1. /\ stk \in Seq(Nodes) /\ Len(stk) \in 1 .. Len(stk) /\ m \in Nodes
      /\ rest \in Seq(Nodes)
  BY DEF SortType
<1>2. m \notin visited
  BY <1>1 DEF StackInv, Elems
<1>3. visited' = V /\ in_deg' = w2.in_deg /\ stk' = w2.stk
  BY DEF Output, Traversal
<1>4. o \in Nodes \cup {NONE} /\ p \in Nodes \cup {NONE} /\ pick_first \in Sides
  BY <1>1, OtherSide DEF GraphInv
<1>5. in_deg = [n \in Nodes |-> Cardinality(InEdges(n, visited))] /\ in_deg \in [Nodes -> Nat]
  BY InEdgesFinite DEF StackInv
<1>6. \A n \in Nodes : Cardinality(InEdges(n, V)) =
                         in_deg[n] - (IF o = n THEN 1 ELSE 0) - (IF p = n THEN 1 ELSE 0)
  <2>1. ASSUME NEW n \in Nodes
        PROVE  Cardinality(InEdges(n, V)) =
                 in_deg[n] - (IF o = n THEN 1 ELSE 0) - (IF p = n THEN 1 ELSE 0)
    <3>1. visited \in SUBSET Nodes /\ m \in Nodes \ visited /\ pick_first \in Sides
      BY <1>1, <1>2, <1>4 DEF SortType
    <3>2. Cardinality(InEdges(n, visited \cup {m})) =
            Cardinality(InEdges(n, visited)) - (IF graph[m][Other[pick_first]] = n THEN 1 ELSE 0)
                                             - (IF graph[m][pick_first] = n THEN 1 ELSE 0)
      BY ONLY <3>1, n \in Nodes, GraphInv, EdgesFollowed
    <3>3. in_deg[n] = Cardinality(InEdges(n, visited))
      BY <1>5
    <3> QED
      BY <3>2, <3>3
  <2> QED
    BY <2>1
<1>7. \A n \in Nodes : Cardinality(InEdges(n, V)) \in Nat /\ (Free(n, V) <=> Cardinality(InEdges(n, V)) = 0)
  BY InEdgesFinite
<1>8. NONE \notin Nodes
  BY NodesAreNumbers
<1> DEFINE d1 == [n \in Nodes |-> IF n = o THEN in_deg[n] - 1 ELSE in_deg[n]]
           q1 == IF o # NONE /\ in_deg[o] = 1 THEN <<o>> ELSE <<>>
           d2 == [n \in Nodes |-> IF n = p THEN d1[n] - 1 ELSE d1[n]]
           q2 == IF p # NONE /\ d1[p] = 1 THEN <<p>> ELSE <<>>
<1> HIDE DEF rest, V, o, p
<1>9. w1 = [in_deg |-> d1, stk |-> rest \o q1]
  <2>1. in_deg \in [Nodes -> Int]
    BY <1>5
  <2> QED
    BY <1>1, <1>4, <2>1, RelaxEffect
<1>10. w2.in_deg = d2 /\ w2.stk = (rest \o q1) \o q2
  <2>1. d1 \in [Nodes -> Int] /\ rest \o q1 \in Seq(Nodes)
    BY <1>1, <1>4, <1>5, <1>8
  <2> DEFINE s1 == rest \o q1
  <2> HIDE DEF d1, q1, w1, s1
  <2>2. Relax([in_deg |-> d1, stk |-> s1], p) = [in_deg |-> d2, stk |-> s1 \o q2]
    BY <1>4, <2>1, RelaxEffect DEF s1
  <2>3. w1 = [in_deg |-> d1, stk |-> s1]
    BY <1>9 DEF s1
  <2>4. w2 = [in_deg |-> d2, stk |-> s1 \o q2]
    BY <2>2, <2>3
  <2> HIDE DEF w2, d2, q2
  <2> QED
    BY <2>4 DEF s1
<1> HIDE DEF w1, w2
<1>11. d2 = [n \in Nodes |-> Cardinality(InEdges(n, V))]
  BY <1>5, <1>6
<1>12. q1 = IF o \notin {NONE, p} /\ Free(o, V) THEN <<o>> ELSE <<>>
  <2>1. CASE o = NONE
    BY <2>1
  <2>2. CASE o # NONE
    <3>1. o \in Nodes /\ in_deg[o] \in Nat
      BY <1>4, <1>5, <2>2
    <3>2. in_deg[o] = 1 <=> o # p /\ Free(o, V)
      BY <1>6, <1>7, <3>1
    <3> QED
      BY <2>2, <3>2
  <2> QED
    BY <2>1, <2>2
<1>13. q2 = IF p # NONE /\ Free(p, V) THEN <<p>> ELSE <<>>
  <2>1. CASE p = NONE
    BY <2>1
  <2>2. CASE p # NONE
    <3>1. p \in Nodes /\ in_deg[p] \in Nat
      BY <1>4, <1>5, <2>2
    <3>2. d1[p] = 1 <=> Free(p, V)
      BY <1>6, <1>7, <3>1
    <3> QED
      BY <2>2, <3>2
  <2> QED
    BY <2>1, <2>2
<1>14. q1 \o q2 = Pushed(m, V)
  BY <1>12, <1>13 DEF Pushed, o, p
<1>15. (rest \o q1) \o q2 = rest \o (q1 \o q2)
  <2>1. q1 \in Seq(Nodes) /\ q2 \in Seq(Nodes)
    BY <1>4
  <2> HIDE DEF q1, q2
  <2> QED
    BY <1>1, <2>1
<1> QED
  BY <1>1, <1>2, <1>3, <1>10, <1>11, <1>14, <1>15 DEF V, rest
---------------------------------------------------------------------------
(* No action changes the graph, nor what is said of it.                    *)
LEMMA SameGraph ==
  ASSUME inputs' = inputs
  PROVE  /\ graph' = graph /\ pick_first' = pick_first /\ Nodes' = Nodes
         /\ \A l : ChainOf(l)' = ChainOf(l)
         /\ \A l, n : OnChain(l, n)' = OnChain(l, n)
         /\ \A l, m, n : Precedes(l, m, n)' = Precedes(l, m, n)
         /\ \A n, V : InEdges(n, V)' = InEdges(n, V)
         /\ \A n, V : Free(n, V)' = Free(n, V)
         /\ GraphInv => GraphInv'
<1>1. graph' = graph /\ pick_first' = pick_first
  BY DEF inputs
<1>2. Nodes' = Nodes
  BY <1>1 DEF Nodes
<1>3. \A l : ChainOf(l)' = ChainOf(l)
  BY <1>1 DEF ChainOf, Follows, Nodes
<1>4. \A l, n : OnChain(l, n)' = OnChain(l, n)
  BY <1>1 DEF OnChain, Step, Nodes
<1>5. \A l, m, n : Precedes(l, m, n)' = Precedes(l, m, n)
  BY <1>1 DEF Precedes, Step, Nodes
<1>6. \A n, V : InEdges(n, V)' = InEdges(n, V)
  BY <1>1 DEF InEdges, Nodes
<1>7. \A n, V : Free(n, V)' = Free(n, V)
  BY <1>1 DEF Free, InEdges, Nodes
<1>8. GraphInv => GraphInv'
  BY <1>1, <1>3 DEF GraphInv, Follows, Nodes
<1> QED
  BY <1>1, <1>2, <1>3, <1>4, <1>5, <1>6, <1>7, <1>8

(* The ends of an edge of a side are on the chain of that side.            *)
LEMMA EdgeOnChain ==
  ASSUME GraphInv, NEW l \in Sides, NEW m \in Nodes, graph[m][l] # NONE
  PROVE  /\ graph[m][l] \in Nodes /\ graph[m][l] # FIRST /\ OnChain(l, graph[m][l])
         /\ m # FIRST => OnChain(l, m)
<1> DEFINE c == ChainOf(l)
<1>1. PICK k \in 1 .. Len(c) : c[k] = graph[m][l] /\ m = At(c, k - 1)
  BY PredecessorInChain
<1>2. /\ Len(c) \in Nat
      /\ \A i \in 1 .. Len(c) : c[i] \in Nodes /\ c[i] # FIRST
      /\ \A n \in Nodes : OnChain(l, n) <=> \E i \in 1 .. Len(c) : c[i] = n
  BY ChainFacts, ReferenceChain
<1> HIDE DEF c
<1>3. m # FIRST => k - 1 \in 1 .. Len(c) /\ c[k - 1] = m
  BY <1>1, <1>2 DEF At
<1> QED
  BY <1>1, <1>2, <1>3

(* What is free of edges from outside V has the nodes before it in V.      *)
LEMMA FreeMeans ==
  ASSUME GraphInv, NEW n, NEW V
  PROVE  /\ Free(n, V) <=> \A k \in Nodes \ V : \A l \in Sides : graph[k][l] # n
         /\ \A W : Free(n, V) /\ V \subseteq W => Free(n, W)
<1>1. ASSUME Free(n, V), NEW k \in Nodes \ V, NEW l \in Sides
      PROVE  graph[k][l] # n
  <2>1. <<k, l>> \notin InEdges(n, V)
    BY <1>1 DEF Free
  <2> QED
    BY <2>1 DEF InEdges
<1>2. ASSUME \A k \in Nodes \ V : \A l \in Sides : graph[k][l] # n
      PROVE  Free(n, V)
  BY <1>2 DEF Free, InEdges
<1>3. ASSUME NEW W, Free(n, V), V \subseteq W
      PROVE  Free(n, W)
  BY <1>3 DEF Free, InEdges
<1> QED
  BY <1>1, <1>2, <1>3

(* A set of nodes that has the nodes before each of its nodes has a        *)
(* beginning of each chain.                                                *)
LEMMA ClosedPrefix ==
  ASSUME GraphInv, NEW V \in SUBSET Nodes, \A n \in V : Free(n, V),
         NEW l \in Sides, NEW j \in 1 .. Len(ChainOf(l)), ChainOf(l)[j] \in V,
         NEW i \in 1 .. j
  PROVE  ChainOf(l)[i] \in V
<1> DEFINE c == ChainOf(l)
           S == {k \in Nat : k < j /\ c[j - k] \notin V}
<1> SUFFICES ASSUME c[i] \notin V PROVE FALSE
  OBVIOUS
<1>1. /\ Len(c) \in Nat /\ j \in 1 .. Len(c) /\ c[j] \in V
      /\ \A k \in 0 .. Len(c) : At(c, k) \in Nodes /\ graph[At(c, k)][l] = At(c, k + 1)
  BY ChainFacts
<1> HIDE DEF c
<1>2. j - i \in S
  <2>1. j - i \in Nat /\ j - i < j /\ j - (j - i) = i
    BY <1>1
  <2> QED
    BY <2>1
<1>3. PICK k \in S : \A k2 \in S : k <= k2
  BY <1>2, Least
<1>4. k # 0 /\ k - 1 \in Nat /\ k - 1 \notin S
  <2>1. k # 0
    <3>1. j - 0 = j /\ 0 < j
      BY <1>1
    <3> QED
      BY <1>1, <1>3, <3>1
  <2>2. k \in Nat /\ k - 1 \in Nat /\ ~(k <= k - 1)
    BY <1>3, <2>1
  <2> QED
    BY <1>3, <2>1, <2>2
<1>5. c[j - (k - 1)] \in V
  BY <1>1, <1>3, <1>4
<1>6. j - k \in 0 .. Len(c) /\ At(c, j - k) = c[j - k] /\ At(c, (j - k) + 1) = c[j - (k - 1)]
  BY <1>1, <1>3, <1>4 DEF At
<1>7. graph[c[j - k]][l] = c[j - (k - 1)] /\ c[j - k] \in Nodes
  BY <1>1, <1>6
<1> QED
  BY <1>3, <1>5, <1>7, FreeMeans

(* Of each chain at most one node is ready.                                *)
LEMMA OneReady ==
  ASSUME GraphInv, NEW V \in SUBSET Nodes, \A n \in V : Free(n, V), NEW l \in Sides,
         NEW m \in Nodes \ V, NEW n \in Nodes \ V, Free(m, V), Free(n, V),
         OnChain(l, m), OnChain(l, n)
  PROVE  m = n
<1> DEFINE c == ChainOf(l)
<1>1. PICK i \in 1 .. Len(c) : c[i] = m
  BY ReferenceChain
<1>2. PICK j \in 1 .. Len(c) : c[j] = n
  BY ReferenceChain
<1>3. Len(c) \in Nat /\ \A k \in 0 .. Len(c) : At(c, k) \in Nodes /\ graph[At(c, k)][l] = At(c, k + 1)
  BY ChainFacts
<1>4. ASSUME NEW a \in 1 .. Len(c), NEW b \in 1 .. Len(c), a < b, c[a] \notin V, Free(c[b], V)
      PROVE  FALSE
  <2>1. /\ b - 1 \in 0 .. Len(c) /\ b - 1 \in 1 .. Len(c) /\ a \in 1 .. b - 1
        /\ At(c, b - 1) = c[b - 1] /\ At(c, (b - 1) + 1) = c[b]
    BY <1>3, <1>4 DEF At
  <2>2. c[b - 1] \in Nodes /\ graph[c[b - 1]][l] = c[b]
    BY <1>3, <2>1
  <2>3. c[b - 1] \in V
    BY <1>4, <2>2, FreeMeans
  <2> QED
    BY <1>4, <2>1, <2>3, ClosedPrefix
<1>5. ~(i < j) /\ ~(j < i)
  BY <1>1, <1>2, <1>4
<1> QED
  BY <1>1, <1>2, <1>3, <1>5
---------------------------------------------------------------------------
(* What toposort has output is closed under coming before, each node       *)
(* stands behind those that come before it, and while it runs nothing is   *)
(* reordered.                                                              *)
OutputInv ==
  /\ pc = "count" => StartSort
  /\ ~cyclic =>
       /\ pc \in {"count", "toposort", "sorted"}
       /\ Distinct(ordered) /\ Elems(ordered) = visited \ {FIRST}
       /\ \A n \in visited : Free(n, visited)
       /\ \A m \in Nodes \ {FIRST} : \A l \in Sides :
            graph[m][l] \in visited => OutputBefore(m, graph[m][l])
  /\ pc = "sorted" /\ ~cyclic => Len(ordered) = Cardinality(Nodes) - 1

(* Two neighbours that the tie break puts the other way round.             *)
Swapped(m, n) == ~OnChain(pick_first, m) /\ ~OnChain(Other[pick_first], n)

(* The tie break holds in the output, from it to the top of the stack, and *)
(* down the stack, which is the order its nodes leave it in.               *)
TieInv ==
  /\ ~cyclic => \A i \in 1 .. Len(ordered) - 1 : ~Swapped(ordered[i], ordered[i + 1])
  /\ pc = "toposort" =>
       /\ \A k \in 1 .. Len(stk) - 1 : ~Swapped(stk[k + 1], stk[k])
       /\ ordered # <<>> /\ stk # <<>> => ~Swapped(ordered[Len(ordered)], stk[Len(stk)])

(* toposort never meets a node again: what raises ValueError in it is what *)
(* it has not output in the end.                                           *)
LEMMA NeverMetAgain ==
  ASSUME GraphInv, SortType, StackInv, OutputInv, PopNode
  PROVE  Output(stk[Len(stk)])
<1> DEFINE m == stk[Len(stk)]
<1>1. pc = "toposort" /\ stk # <<>> /\ ~cyclic
  BY DEF PopNode, StackInv
<1>2. m \in Nodes /\ Len(stk) \in 1 .. Len(stk)
  BY <1>1 DEF SortType
<1>3. m \notin visited /\ Free(m, visited)
  BY <1>1, <1>2 DEF StackInv, Elems
<1> HIDE DEF m
<1>4. ASSUME NEW l \in Sides PROVE graph[m][l] \notin visited \cup {m}
  <2>1. m \in Nodes \ visited
    BY <1>2, <1>3
  <2>2. CASE graph[m][l] \in visited
    <3>1. Free(graph[m][l], visited)
      BY <1>1, <2>2 DEF OutputInv
    <3> QED
      BY <2>1, <3>1, FreeMeans
  <2>3. CASE graph[m][l] = m
    BY <1>3, <2>1, <2>3, FreeMeans
  <2> QED
    BY <2>2, <2>3
<1> QED
  BY <1>4 DEF PopNode, m

(* Sequences: one after another, and without its last element.             *)
LEMMA Joined ==
  ASSUME NEW S, NEW s \in Seq(S), NEW t \in Seq(S)
  PROVE  /\ s \o t \in Seq(S) /\ Len(s \o t) = Len(s) + Len(t)
         /\ Len(s) \in Nat /\ Len(t) \in Nat
         /\ \A k \in 1 .. Len(s) : k \in 1 .. Len(s \o t) /\ (s \o t)[k] = s[k]
         /\ \A k \in 1 .. Len(t) : Len(s) + k \in 1 .. Len(s \o t) /\ (s \o t)[Len(s) + k] = t[k]
         /\ \A k \in 1 .. Len(s \o t) :
              \/ k \in 1 .. Len(s) /\ (s \o t)[k] = s[k]
              \/ k - Len(s) \in 1 .. Len(t) /\ (s \o t)[k] = t[k - Len(s)]
         /\ \A n : n \in Elems(s \o t) <=> n \in Elems(s) \/ n \in Elems(t)
         /\ Distinct(s) /\ Distinct(t) /\ Elems(s) \cap Elems(t) = {} => Distinct(s \o t)
<1> DEFINE u == s \o t
<1>1. u \in Seq(S) /\ Len(u) = Len(s) + Len(t) /\ Len(s) \in Nat /\ Len(t) \in Nat
  OBVIOUS
<1>2. \A k \in 1 .. Len(u) : u[k] = IF k <= Len(s) THEN s[k] ELSE t[k - Len(s)]
  OBVIOUS
<1> HIDE DEF u
<1>3. \A k \in 1 .. Len(s) : k \in 1 .. Len(u) /\ u[k] = s[k]
  BY <1>1, <1>2
<1>4. ASSUME NEW k \in 1 .. Len(t)
      PROVE  Len(s) + k \in 1 .. Len(u) /\ u[Len(s) + k] = t[k]
  <2>1. Len(s) + k \in 1 .. Len(u) /\ ~(Len(s) + k <= Len(s)) /\ (Len(s) + k) - Len(s) = k
    BY <1>1
  <2> QED
    BY <1>2, <2>1
<1>5. \A k \in 1 .. Len(u) : \/ k \in 1 .. Len(s) /\ u[k] = s[k]
                             \/ k - Len(s) \in 1 .. Len(t) /\ u[k] = t[k - Len(s)]
  BY <1>1, <1>2
<1>6. ASSUME NEW n PROVE n \in Elems(u) <=> n \in Elems(s) \/ n \in Elems(t)
  <2>1. n \in Elems(u) => n \in Elems(s) \/ n \in Elems(t)
    BY <1>5 DEF Elems
  <2>2. n \in Elems(s) => n \in Elems(u)
    BY <1>3 DEF Elems
  <2>3. n \in Elems(t) => n \in Elems(u)
    BY <1>4 DEF Elems
  <2> QED
    BY <2>1, <2>2, <2>3
<1>7. ASSUME Distinct(s), Distinct(t), Elems(s) \cap Elems(t) = {},
             NEW i \in 1 .. Len(u), NEW j \in 1 .. Len(u), u[i] = u[j]
      PROVE  i = j
  <2>1. \A k1 \in 1 .. Len(s) : \A k2 \in 1 .. Len(t) : s[k1] # t[k2]
    BY <1>7 DEF Elems
  <2>2. CASE i \in 1 .. Len(s) /\ u[i] = s[i]
    BY <1>5, <1>7, <2>1, <2>2 DEF Distinct
  <2>3. CASE i - Len(s) \in 1 .. Len(t) /\ u[i] = t[i - Len(s)]
    <3>1. j - Len(s) \in 1 .. Len(t) /\ u[j] = t[j - Len(s)]
      BY <1>5, <1>7, <2>1, <2>3
    <3>2. i - Len(s) = j - Len(s)
      BY <1>7, <2>3, <3>1 DEF Distinct
    <3> QED
      BY <1>1, <3>2
  <2> QED
    BY <1>5, <2>2, <2>3
<1>8. Distinct(s) /\ Distinct(t) /\ Elems(s) \cap Elems(t) = {} => Distinct(u)
  BY <1>7 DEF Distinct
<1> QED
  BY <1>1, <1>3, <1>4, <1>5, <1>6, <1>8 DEF u

LEMMA WithoutLast ==
  ASSUME NEW S, NEW s \in Seq(S), s # <<>>
  PROVE  LET r == SubSeq(s, 1, Len(s) - 1) IN
         /\ r \in Seq(S) /\ Len(r) = Len(s) - 1 /\ Len(r) \in Nat
         /\ \A k \in 1 .. Len(r) : k \in 1 .. Len(s) /\ r[k] = s[k]
         /\ Distinct(s) => /\ Distinct(r)
                           /\ \A n : n \in Elems(r) <=> n \in Elems(s) /\ n # s[Len(s)]
<1> DEFINE r == SubSeq(s, 1, Len(s) - 1)
<1>1. Len(s) \in Nat /\ Len(s) # 0
  OBVIOUS
<1>2. r \in Seq(S) /\ Len(r) = Len(s) - 1 /\ \A k \in 1 .. Len(s) - 1 : r[k] = s[k]
  <2> DEFINE n == Len(s) - 1
  <2>1. n \in 0 .. Len(s)
    BY <1>1
  <2> HIDE DEF n
  <2>2. SubSeq(s, 1, n) \in Seq(S) /\ Len(SubSeq(s, 1, n)) = n
    BY <1>1, <2>1
  <2>3. \A k \in 1 .. n : SubSeq(s, 1, n)[k] = s[k]
    BY <1>1, <2>1
  <2> QED
    BY <2>2, <2>3 DEF n
<1> HIDE DEF r
<1>3. \A k \in 1 .. Len(r) : k \in 1 .. Len(s) /\ r[k] = s[k]
  BY <1>1, <1>2
<1>4. ASSUME Distinct(s) PROVE Distinct(r)
  BY <1>3, <1>4 DEF Distinct
<1>5. ASSUME Distinct(s), NEW n PROVE n \in Elems(r) <=> n \in Elems(s) /\ n # s[Len(s)]
  <2>1. \A k \in 1 .. Len(s) : s[k] # s[Len(s)] <=> k \in 1 .. Len(r)
    BY <1>1, <1>2, <1>5 DEF Distinct
  <2> QED
    BY <1>3, <2>1 DEF Elems
<1> QED
  BY <1>1, <1>2, <1>3, <1>4, <1>5 DEF r

(* A node that Output pushes has become free by it; a free node that it    *)
(* does not push was free before.                                          *)
LEMMA PushedNodes ==
  ASSUME GraphInv, NEW V \in SUBSET Nodes, NEW m \in Nodes \ V, Free(m, V),
         \A n \in V : Free(n, V)
  PROVE  LET W == V \cup {m}  s == Pushed(m, W) IN
         /\ s \in Seq(Nodes) /\ Distinct(s)
         /\ \A n \in Elems(s) : n \notin W /\ Free(n, W) /\ ~Free(n, V)
         /\ \A n \in Nodes : Free(n, W) /\ ~Free(n, V) => n \in Elems(s)
<1> DEFINE W == V \cup {m}
           o == graph[m][Other[pick_first]]
           p == graph[m][pick_first]
           a == IF o \notin {NONE, p} /\ Free(o, W) THEN <<o>> ELSE <<>>
           b == IF p # NONE /\ Free(p, W) THEN <<p>> ELSE <<>>
           s == Pushed(m, W)
<1>1. pick_first \in Sides /\ Other[pick_first] \in Sides /\ Sides = {pick_first, Other[pick_first]}
  BY OtherSide DEF GraphInv
<1>2. o \in Nodes \cup {NONE} /\ p \in Nodes \cup {NONE} /\ NONE \notin Nodes
  <2>1. \A l \in Sides : graph[m][l] \in Nodes \cup {NONE}
    BY DEF GraphInv
  <2> QED
    BY <1>1, <2>1, NodesAreNumbers
<1>3. s = a \o b
  BY DEF Pushed
<1> HIDE DEF W, o, p, s
<1>4. /\ a \in Seq(Nodes) /\ Distinct(a)
      /\ \A n : n \in Elems(a) <=> n = o /\ o \notin {NONE, p} /\ Free(o, W)
  BY <1>2 DEF Distinct, Elems
<1>5. /\ b \in Seq(Nodes) /\ Distinct(b)
      /\ \A n : n \in Elems(b) <=> n = p /\ p # NONE /\ Free(p, W)
  BY <1>2 DEF Distinct, Elems
<1> HIDE DEF a, b
<1>6. /\ s \in Seq(Nodes) /\ Distinct(s)
      /\ \A n : n \in Elems(s) <=> n \in {o, p} \ {NONE} /\ Free(n, W)
  <2>1. Elems(a) \cap Elems(b) = {}
    BY <1>4, <1>5
  <2>2. \A n : n \in Elems(a \o b) <=> n \in Elems(a) \/ n \in Elems(b)
    BY <1>4, <1>5, Joined
  <2>3. a \o b \in Seq(Nodes) /\ Distinct(a \o b)
    BY <1>4, <1>5, <2>1, Joined
  <2> QED
    BY <1>3, <1>4, <1>5, <2>2, <2>3
<1>7. ASSUME NEW l \in Sides, graph[m][l] # NONE
      PROVE  graph[m][l] \notin W /\ ~Free(graph[m][l], V)
  BY FreeMeans DEF W
<1>8. ASSUME NEW n \in Nodes, Free(n, W), ~Free(n, V)
      PROVE  n \in Elems(s)
  <2>1. PICK k \in Nodes \ V : \E l \in Sides : graph[k][l] = n
    BY <1>8, FreeMeans
  <2>2. k = m
    BY <1>8, <2>1, FreeMeans DEF W
  <2>3. n \in {o, p} \ {NONE}
    BY <1>1, <1>2, <2>1, <2>2 DEF o, p
  <2> QED
    BY <1>6, <1>8, <2>3
<1>9. ASSUME NEW n \in Elems(s) PROVE n \notin W /\ Free(n, W) /\ ~Free(n, V)
  <2>1. n # NONE /\ Free(n, W) /\ \E l \in Sides : graph[m][l] = n
    BY <1>1, <1>6 DEF o, p
  <2> QED
    BY <1>7, <2>1
<1> QED
  BY <1>6, <1>8, <1>9 DEF s, W

LEMMA OutputStack ==
  ASSUME GraphInv, SortType, StackInv, OutputInv, pc = "toposort", stk # <<>>,
         NEW m, m = stk[Len(stk)], Output(m)
  PROVE  SortType' /\ StackInv'
<1> DEFINE W == visited \cup {m}
           rest == SubSeq(stk, 1, Len(stk) - 1)
           s == Pushed(m, W)
<1>1. /\ m \in Nodes \ visited /\ visited' = W
      /\ in_deg' = [n \in Nodes |-> Cardinality(InEdges(n, W))]
      /\ stk' = rest \o s
  <2>1. /\ m \in Nodes \ visited /\ visited' = W
        /\ in_deg' = [n \in Nodes |-> Cardinality(InEdges(n, visited'))]
        /\ stk' = rest \o Pushed(m, visited')
    BY OutputEffect
  <2> QED
    BY <2>1
<1>2. /\ inputs' = inputs /\ pc' = pc /\ current' = current /\ cyclic' = cyclic
      /\ ordered' = IF m = FIRST THEN ordered ELSE Append(ordered, m)
  BY DEF Output
<1>3. /\ visited \in SUBSET Nodes /\ \A n \in visited : Free(n, visited)
      /\ ~cyclic /\ stk \in Seq(Nodes) /\ Len(stk) \in Nat /\ Len(stk) # 0 /\ Distinct(stk)
      /\ \A n \in Nodes : n \in Elems(stk) <=> n \notin visited /\ Free(n, visited)
  BY DEF SortType, StackInv, OutputInv
<1>4. Free(m, visited)
  BY <1>1, <1>3 DEF Elems
<1>5. /\ s \in Seq(Nodes) /\ Distinct(s)
      /\ \A n \in Elems(s) : n \notin W /\ Free(n, W) /\ ~Free(n, visited)
      /\ \A n \in Nodes : Free(n, W) /\ ~Free(n, visited) => n \in Elems(s)
  BY ONLY <1>1, <1>3, <1>4, GraphInv, PushedNodes
<1> HIDE DEF s
<1>6. /\ rest \in Seq(Nodes) /\ Distinct(rest)
      /\ \A n : n \in Elems(rest) <=> n \in Elems(stk) /\ n # m
  BY <1>3, WithoutLast
<1> HIDE DEF rest
<1>7. Elems(rest) \cap Elems(s) = {}
  <2>1. \A n \in Elems(rest) : n \in Nodes
    BY <1>6 DEF Elems
  <2> QED
    BY <1>3, <1>5, <1>6, <2>1
<1>8. /\ stk' \in Seq(Nodes) /\ Distinct(stk')
      /\ \A n : n \in Elems(stk') <=> n \in Elems(rest) \/ n \in Elems(s)
  <2>1. \A n : n \in Elems(rest \o s) <=> n \in Elems(rest) \/ n \in Elems(s)
    BY <1>5, <1>6, Joined
  <2>2. rest \o s \in Seq(Nodes) /\ Distinct(rest \o s)
    BY <1>5, <1>6, <1>7, Joined
  <2> QED
    BY <1>1, <2>1, <2>2
<1>9. ASSUME NEW n \in Nodes PROVE n \in Elems(stk') <=> n \notin W /\ Free(n, W)
  <2>1. Free(n, visited) => Free(n, W)
    BY FreeMeans
  <2> QED
    BY <1>3, <1>5, <1>6, <1>8, <2>1
<1>10. SortType'
  <2>1. ordered' \in Seq(Nodes \ {FIRST}) /\ W \subseteq Nodes
    BY <1>1, <1>2 DEF SortType
  <2> QED
    BY <1>1, <1>2, <1>8, <2>1, SameGraph DEF SortType
<1>11. FIRST \in W
  BY <1>3, <1>1 DEF StackInv
<1> QED
  <2>1. (in_deg = [n \in Nodes |-> Cardinality(InEdges(n, visited))])'
    BY <1>1, <1>2 DEF InEdges, Nodes, inputs
  <2>2. (\A n \in Nodes : n \in Elems(stk) <=> n \notin visited /\ Free(n, visited))'
    BY <1>1, <1>2, <1>9 DEF Free, InEdges, Nodes, inputs
  <2>3. Distinct(stk)'
    BY <1>8 DEF Distinct
  <2> QED
    BY <1>1, <1>2, <1>3, <1>10, <1>11, <2>1, <2>2, <2>3 DEF StackInv

LEMMA OutputOrder ==
  ASSUME GraphInv, SortType, StackInv, OutputInv, pc = "toposort", stk # <<>>,
         NEW m, m = stk[Len(stk)], Output(m)
  PROVE  OutputInv'
<1> DEFINE W == visited \cup {m}
           t == ordered \o <<m>>
<1>1. m \in Nodes \ visited /\ visited' = W
  BY OutputEffect
<1>2. /\ inputs' = inputs /\ pc' = "toposort" /\ cyclic' = cyclic
      /\ ordered' = IF m = FIRST THEN ordered ELSE Append(ordered, m)
  BY DEF Output
<1>3. /\ ~cyclic /\ ordered \in Seq(Nodes \ {FIRST}) /\ Distinct(ordered)
      /\ Elems(ordered) = visited \ {FIRST}
      /\ visited \in SUBSET Nodes /\ \A n \in visited : Free(n, visited)
      /\ \A k \in Nodes \ {FIRST} : \A l \in Sides :
           graph[k][l] \in visited => OutputBefore(k, graph[k][l])
  BY DEF SortType, StackInv, OutputInv
<1>4. Free(m, visited)
  <2>1. m \in Elems(stk)
    BY DEF SortType, Elems
  <2> QED
    BY <1>1, <2>1 DEF StackInv
<1>5. \A n \in W : Free(n, W)
  BY <1>3, <1>4, FreeMeans
<1>6. CASE m = FIRST
  <2>1. visited = {} /\ ordered' = ordered
    BY <1>1, <1>2, <1>6 DEF StackInv
  <2>2. \A k \in Nodes \ {FIRST} : \A l \in Sides : graph[k][l] \notin W
    BY <1>6, <2>1 DEF GraphInv, FIRST, NONE
  <2>3. W = {FIRST}
    BY <1>6, <2>1
  <2>4. Elems(ordered)' = W \ {FIRST} /\ Distinct(ordered)'
    <3>1. Elems(ordered)' = Elems(ordered) /\ (Distinct(ordered)' <=> Distinct(ordered))
      BY <2>1, Zenon DEF Elems, Distinct
    <3> QED
      BY <1>3, <2>1, <2>3, <3>1
  <2>5. (\A n \in visited : Free(n, visited))'
    BY <1>1, <1>2, <1>5 DEF Free, InEdges, Nodes, inputs
  <2>6. (\A k \in Nodes \ {FIRST} : \A l \in Sides :
           graph[k][l] \in visited => OutputBefore(k, graph[k][l]))'
    BY <1>1, <1>2, <2>2 DEF Nodes, inputs
  <2> QED
    BY <1>1, <1>2, <1>3, <2>4, <2>5, <2>6 DEF OutputInv
<1>7. CASE m # FIRST
  <2>1. ordered' = t /\ <<m>> \in Seq(Nodes \ {FIRST}) /\ Len(<<m>>) = 1 /\ Elems(<<m>>) = {m} /\ Distinct(<<m>>)
    BY <1>1, <1>2, <1>3, <1>7 DEF Elems, Distinct
  <2>2. /\ Len(t) = Len(ordered) + 1 /\ Len(ordered) \in Nat
        /\ \A k \in 1 .. Len(ordered) : k \in 1 .. Len(t) /\ t[k] = ordered[k]
        /\ t[Len(t)] = m
    BY <1>1, <1>3
  <2>3. \A n : n \in Elems(t) <=> n \in Elems(ordered) \/ n \in Elems(<<m>>)
    BY <1>3, <2>1, Joined
  <2>4. Distinct(t)
    <3>1. Elems(ordered) \cap Elems(<<m>>) = {}
      BY <1>1, <1>3, <2>1
    <3> QED
      BY <1>3, <2>1, <3>1, Joined
  <2> HIDE DEF t
  <2>5. Elems(t) = W \ {FIRST}
    BY <1>3, <1>7, <2>1, <2>3
  <2>6. ASSUME NEW k \in Nodes \ {FIRST}, NEW l \in Sides, graph[k][l] \in W
        PROVE  \E j \in 1 .. Len(t) : \E i \in 1 .. j - 1 : t[i] = k /\ t[j] = graph[k][l]
    <3>1. CASE graph[k][l] \in visited
      <4>1. PICK j \in 1 .. Len(ordered) : \E i \in 1 .. j - 1 :
                   ordered[i] = k /\ ordered[j] = graph[k][l]
        BY <1>3, <3>1 DEF OutputBefore
      <4>2. PICK i \in 1 .. j - 1 : ordered[i] = k /\ ordered[j] = graph[k][l]
        BY <4>1
      <4>3. i \in 1 .. Len(ordered) /\ j \in 1 .. Len(t)
        BY <2>2
      <4> QED
        BY <2>2, <4>2, <4>3
    <3>2. CASE graph[k][l] = m
      <4>1. k \in Elems(ordered)
        BY <1>3, <1>4, <3>2, FreeMeans
      <4>2. PICK i \in 1 .. Len(ordered) : ordered[i] = k
        BY <4>1 DEF Elems
      <4>3. Len(t) \in 1 .. Len(t) /\ i \in 1 .. Len(t) - 1
        BY <2>2
      <4> QED
        BY <2>2, <3>2, <4>2, <4>3
    <3> QED
      BY <2>6, <3>1, <3>2
  <2>7. Elems(ordered)' = W \ {FIRST} /\ Distinct(ordered)'
    <3>1. ordered' = t
      BY <2>1
    <3>2. Elems(ordered)' = Elems(t)
      BY <3>1 DEF Elems
    <3>3. Distinct(ordered)' <=> Distinct(t)
      BY <3>1 DEF Distinct
    <3> QED
      BY <2>4, <2>5, <3>2, <3>3
  <2>8. (\A n \in visited : Free(n, visited))'
    BY <1>1, <1>2, <1>5 DEF Free, InEdges, Nodes, inputs
  <2>9. (\A k \in Nodes \ {FIRST} : \A l \in Sides :
           graph[k][l] \in visited => OutputBefore(k, graph[k][l]))'
    BY <1>1, <1>2, <2>1, <2>6 DEF Nodes, inputs, OutputBefore
  <2> QED
    BY <1>1, <1>2, <1>3, <2>7, <2>8, <2>9 DEF OutputInv
<1> QED
  BY <1>6, <1>7

(* The nodes that Output pushes respect the tie break among themselves and *)
(* after its node.                                                         *)
LEMMA PushedOrder ==
  ASSUME GraphInv, NEW m \in Nodes, NEW W
  PROVE  LET s == Pushed(m, W) IN
         /\ \A k \in 1 .. Len(s) - 1 : ~Swapped(s[k + 1], s[k])
         /\ s # <<>> /\ m # FIRST => ~Swapped(m, s[Len(s)])
         /\ s # <<>> => OnChain(pick_first, s[1]) \/ m = FIRST \/ OnChain(Other[pick_first], m)
<1> DEFINE o == graph[m][Other[pick_first]]
           p == graph[m][pick_first]
           s == Pushed(m, W)
<1>1. pick_first \in Sides /\ Other[pick_first] \in Sides
  BY OtherSide DEF GraphInv
<1>2. o # NONE => OnChain(Other[pick_first], o) /\ (m # FIRST => OnChain(Other[pick_first], m))
  BY <1>1, EdgeOnChain
<1>3. p # NONE => OnChain(pick_first, p) /\ (m # FIRST => OnChain(pick_first, m))
  BY <1>1, EdgeOnChain
<1>4. \/ s = <<>>
      \/ s = <<o>> /\ o # NONE
      \/ s = <<p>> /\ p # NONE
      \/ Len(s) = 2 /\ s[1] = o /\ s[2] = p /\ o # NONE /\ p # NONE
  <2> DEFINE a == IF o \notin {NONE, p} /\ Free(o, W) THEN <<o>> ELSE <<>>
             b == IF p # NONE /\ Free(p, W) THEN <<p>> ELSE <<>>
             so == <<o>>
             sp == <<p>>
  <2>1. s = a \o b
    BY DEF Pushed
  <2>2. a = <<>> \/ (a = so /\ o # NONE)
    OBVIOUS
  <2>3. b = <<>> \/ (b = sp /\ p # NONE)
    OBVIOUS
  <2>4. /\ so \in Seq({o, p}) /\ sp \in Seq({o, p}) /\ <<>> \in Seq({o, p})
        /\ Len(so) = 1 /\ Len(sp) = 1 /\ so[1] = o /\ sp[1] = p
    OBVIOUS
  <2> HIDE DEF a, b, s, so, sp
  <2>5. /\ <<>> \o <<>> = <<>> /\ so \o <<>> = so /\ <<>> \o sp = sp
        /\ Len(so \o sp) = 2 /\ (so \o sp)[1] = o /\ (so \o sp)[2] = p
    <3> HIDE DEF o, p
    <3>1. so \o <<>> = so /\ <<>> \o sp = sp
      BY <2>4
    <3>2. <<>> \o <<>> = <<>>
      OBVIOUS
    <3>3. Len(so \o sp) = 2 /\ (so \o sp)[1] = o /\ (so \o sp)[2] = p
      BY DEF so, sp
    <3> QED
      BY <3>1, <3>2, <3>3
  <2> QED
    BY <2>1, <2>2, <2>3, <2>5 DEF so, sp
<1> HIDE DEF s, o, p
<1>5. CASE s = <<>>
  BY <1>5 DEF s
<1>6. CASE s = <<o>> /\ o # NONE
  <2>1. Len(s) = 1 /\ s[1] = o
    BY <1>6
  <2> QED
    BY <1>2, <1>6, <2>1 DEF Swapped, s
<1>7. CASE s = <<p>> /\ p # NONE
  <2>1. Len(s) = 1 /\ s[1] = p
    BY <1>7
  <2> QED
    BY <1>3, <1>7, <2>1 DEF Swapped, s
<1>8. CASE Len(s) = 2 /\ s[1] = o /\ s[2] = p /\ o # NONE /\ p # NONE
  BY <1>2, <1>3, <1>8 DEF Swapped, s
<1> QED
  BY <1>4, <1>5, <1>6, <1>7, <1>8

LEMMA OutputTies ==
  ASSUME GraphInv, SortType, StackInv, OutputInv, TieInv, pc = "toposort", stk # <<>>,
         NEW m, m = stk[Len(stk)], Output(m)
  PROVE  TieInv'
<1> DEFINE W == visited \cup {m}
           rest == SubSeq(stk, 1, Len(stk) - 1)
           s == Pushed(m, W)
           t == rest \o s
<1>1. m \in Nodes \ visited /\ visited' = W /\ stk' = t
  <2>1. m \in Nodes \ visited /\ visited' = W /\ stk' = rest \o Pushed(m, visited')
    BY OutputEffect
  <2> QED
    BY <2>1
<1>2. /\ inputs' = inputs /\ pc' = "toposort" /\ cyclic' = cyclic
      /\ ordered' = IF m = FIRST THEN ordered ELSE Append(ordered, m)
  BY DEF Output
<1>3. /\ ~cyclic /\ ordered \in Seq(Nodes \ {FIRST}) /\ Len(ordered) \in Nat
      /\ Elems(ordered) = visited \ {FIRST}
      /\ visited \in SUBSET Nodes /\ \A n \in visited : Free(n, visited)
      /\ stk \in Seq(Nodes) /\ Len(stk) \in Nat /\ Len(stk) # 0 /\ Distinct(stk)
      /\ \A n \in Nodes : n \in Elems(stk) <=> n \notin visited /\ Free(n, visited)
      /\ visited = {} => stk = <<FIRST>>
      /\ visited # {} => FIRST \in visited
  BY DEF SortType, StackInv, OutputInv
<1>4. /\ \A i \in 1 .. Len(ordered) - 1 : ~Swapped(ordered[i], ordered[i + 1])
      /\ \A k \in 1 .. Len(stk) - 1 : ~Swapped(stk[k + 1], stk[k])
      /\ ordered # <<>> => ~Swapped(ordered[Len(ordered)], m)
  BY <1>3 DEF TieInv
<1>5. /\ \A k \in 1 .. Len(s) - 1 : ~Swapped(s[k + 1], s[k])
      /\ s # <<>> /\ m # FIRST => ~Swapped(m, s[Len(s)])
      /\ s # <<>> => OnChain(pick_first, s[1]) \/ m = FIRST \/ OnChain(Other[pick_first], m)
  BY ONLY <1>1, GraphInv, PushedOrder
<1>6. s \in Seq(Nodes)
  <2>1. Free(m, visited)
    BY <1>1, <1>3 DEF Elems
  <2> QED
    BY ONLY <1>1, <1>3, <2>1, GraphInv, PushedNodes
<1>7. /\ rest \in Seq(Nodes) /\ Len(rest) = Len(stk) - 1 /\ Len(rest) \in Nat
      /\ \A k \in 1 .. Len(rest) : k \in 1 .. Len(stk) /\ rest[k] = stk[k]
  BY ONLY <1>3, stk # <<>>, WithoutLast
<1> HIDE DEF rest, s
<1>8. /\ t \in Seq(Nodes) /\ Len(t) = Len(rest) + Len(s)
      /\ Len(rest) \in Nat /\ Len(s) \in Nat
      /\ \A k \in 1 .. Len(t) : t[k] = IF k <= Len(rest) THEN rest[k] ELSE s[k - Len(rest)]
  <2>1. rest \in Seq(Nodes) /\ s \in Seq(Nodes)
    BY <1>6, <1>7
  <2>2. t \in Seq(Nodes) /\ Len(t) = Len(rest) + Len(s) /\ Len(rest) \in Nat /\ Len(s) \in Nat
    BY ONLY <2>1, Joined
  <2>3. \A k \in 1 .. Len(t) :
          \/ k \in 1 .. Len(rest) /\ t[k] = rest[k]
          \/ k - Len(rest) \in 1 .. Len(s) /\ t[k] = s[k - Len(rest)]
    BY ONLY <2>1, Joined
  <2> HIDE DEF t
  <2> QED
    BY <2>2, <2>3
<1> HIDE DEF t
<1>9. m = FIRST => ordered = <<>> /\ rest = <<>>
  BY <1>1, <1>3, <1>7 DEF Elems
<1>10. ASSUME NEW n \in Elems(stk), n # m, s # <<>> PROVE ~Swapped(s[1], n) \/ Swapped(m, n)
  <2> SUFFICES ASSUME Swapped(s[1], n), ~Swapped(m, n) PROVE FALSE
    OBVIOUS
  <2>1. n \in Nodes /\ n \notin visited /\ Free(n, visited)
    BY <1>3 DEF Elems
  <2>2. m # FIRST
    BY <1>1, <1>3, <1>10 DEF Elems
  <2>3. n # FIRST
    BY <1>1, <1>3, <1>10, <2>1 DEF Elems
  <2>4. OnChain(Other[pick_first], m) /\ ~OnChain(Other[pick_first], n)
    BY <1>5, <1>10, <2>2 DEF Swapped
  <2>5. OnChain(pick_first, m)
    BY <2>4 DEF Swapped
  <2>6. OnChain(pick_first, n)
    <3>1. PICK l \in Sides : \E k \in Nodes : graph[k][l] = n
      BY <2>1, <2>3 DEF GraphInv
    <3>2. OnChain(l, n)
      BY <2>1, <3>1, EdgeOnChain, NodesAreNumbers
    <3> QED
      BY <2>4, <3>1, <3>2, OtherSide DEF GraphInv
  <2>7. Free(m, visited)
    BY <1>1, <1>3 DEF Elems
  <2>8. m = n
    BY <1>1, <1>3, <2>1, <2>5, <2>6, <2>7, OneReady DEF GraphInv
  <2> QED
    BY <1>10, <2>8
<1>11. ASSUME NEW k \in 1 .. Len(t) - 1 PROVE ~Swapped(t[k + 1], t[k])
  <2>1. k \in 1 .. Len(t) /\ k + 1 \in 1 .. Len(t) /\ k \in Nat
    BY <1>8
  <2>2. CASE k + 1 <= Len(rest)
    <3>1. t[k] = stk[k] /\ t[k + 1] = stk[k + 1] /\ k \in 1 .. Len(stk) - 1
      BY <1>7, <1>8, <2>1, <2>2
    <3> QED
      BY <1>4, <3>1
  <2>3. CASE k = Len(rest)
    <3>1. t[k] = stk[k] /\ t[k + 1] = s[1] /\ k \in 1 .. Len(stk) - 1 /\ k + 1 = Len(stk) /\ s # <<>>
      BY <1>7, <1>8, <2>1, <2>3
    <3>2. stk[k] \in Elems(stk) /\ stk[k] # m
      BY <1>3, <3>1 DEF Elems, Distinct
    <3>3. ~Swapped(m, stk[k])
      BY <1>4, <3>1
    <3> QED
      BY <1>10, <3>1, <3>2, <3>3
  <2>4. CASE k > Len(rest)
    <3>1. /\ t[k] = s[k - Len(rest)] /\ t[k + 1] = s[(k - Len(rest)) + 1]
          /\ k - Len(rest) \in 1 .. Len(s) - 1
      <4>1. (k + 1) - Len(rest) = (k - Len(rest)) + 1
        BY <1>8, <2>1
      <4> QED
        BY <1>8, <2>1, <2>4, <4>1
    <3> QED
      BY <1>5, <3>1
  <2> QED
    BY <1>8, <2>1, <2>2, <2>3, <2>4
<1>12. CASE m = FIRST
  <2>1. ordered' = <<>>
    BY <1>2, <1>9, <1>12
  <2>2. (\A i \in 1 .. Len(ordered) - 1 : ~Swapped(ordered[i], ordered[i + 1]))'
    BY <2>1
  <2>3. (\A k \in 1 .. Len(stk) - 1 : ~Swapped(stk[k + 1], stk[k]))'
    BY <1>1, <1>2, <1>11, SameGraph DEF Swapped
  <2> QED
    BY <2>1, <2>2, <2>3 DEF TieInv
<1>13. CASE m # FIRST
  <2> DEFINE q == Append(ordered, m)
  <2>1. /\ Len(q) = Len(ordered) + 1 /\ q[Len(q)] = m
        /\ \A i \in 1 .. Len(ordered) : q[i] = ordered[i]
    BY <1>1, <1>3
  <2> HIDE DEF q
  <2>2. /\ Len(ordered') = Len(ordered) + 1 /\ ordered'[Len(ordered')] = m /\ ordered' # <<>>
        /\ \A i \in 1 .. Len(ordered) : ordered'[i] = ordered[i]
    <3>1. ordered' = q
      BY <1>2, <1>13 DEF q
    <3>2. q # <<>>
      BY <1>3, <2>1
    <3> QED
      BY <2>1, <3>1, <3>2
  <2>3. ASSUME NEW i \in 1 .. Len(ordered') - 1
        PROVE  ~Swapped(ordered'[i], ordered'[i + 1])
    <3>1. CASE i < Len(ordered)
      <4>1. i \in 1 .. Len(ordered) - 1 /\ i \in 1 .. Len(ordered) /\ i + 1 \in 1 .. Len(ordered)
        BY <1>3, <2>2, <3>1
      <4> QED
        BY <1>4, <2>2, <4>1
    <3>2. CASE i = Len(ordered)
      <4>1. ordered # <<>> /\ ordered'[i] = ordered[Len(ordered)] /\ ordered'[i + 1] = m
        BY <1>3, <2>2, <3>2
      <4> QED
        BY <1>4, <4>1
    <3> QED
      BY <1>3, <2>2, <3>1, <3>2
  <2>4. t # <<>> => ~Swapped(m, t[Len(t)])
    <3>1. CASE s # <<>>
      <4>1. t[Len(t)] = s[Len(s)]
        <5>1. Len(s) # 0 /\ Len(t) \in 1 .. Len(t) /\ ~(Len(t) <= Len(rest)) /\ Len(t) - Len(rest) = Len(s)
          BY <1>6, <1>8, <3>1
        <5> QED
          BY <1>8, <5>1
      <4> QED
        BY <1>5, <1>13, <3>1, <4>1
    <3>2. CASE s = <<>> /\ t # <<>>
      <4>1. Len(s) = 0 /\ Len(t) # 0 /\ Len(t) = Len(rest)
        BY <1>8, <3>2
      <4>2. t[Len(t)] = stk[Len(stk) - 1] /\ Len(stk) - 1 \in 1 .. Len(stk) - 1
        BY <1>7, <1>8, <4>1
      <4>3. ~Swapped(stk[(Len(stk) - 1) + 1], stk[Len(stk) - 1])
        BY <1>4, <4>2
      <4>4. (Len(stk) - 1) + 1 = Len(stk)
        BY <1>3
      <4> QED
        BY <4>2, <4>3, <4>4
    <3> QED
      BY <3>1, <3>2
  <2>5. (\A i \in 1 .. Len(ordered) - 1 : ~Swapped(ordered[i], ordered[i + 1]))'
    BY <1>2, <2>3, SameGraph DEF Swapped
  <2>6. (\A k \in 1 .. Len(stk) - 1 : ~Swapped(stk[k + 1], stk[k]))'
    BY <1>1, <1>2, <1>11, SameGraph DEF Swapped
  <2>7. (stk # <<>> => ~Swapped(ordered[Len(ordered)], stk[Len(stk)]))'
    BY <1>1, <1>2, <2>2, <2>4, SameGraph DEF Swapped
  <2> QED
    BY <2>5, <2>6, <2>7 DEF TieInv
<1> QED
  BY <1>12, <1>13
---------------------------------------------------------------------------
(* toposort leaves nodes over only when head and update disagree.          *)
Reordered == \E m, n \in Nodes : Precedes("head", m, n) /\ Precedes("update", n, m)

LEMMA PrecedesNext ==
  ASSUME GraphInv, NEW l \in Sides, NEW h \in Nodes, NEW q \in Nodes \ {FIRST},
         h = q \/ Precedes(l, h, q), graph[q][l] # NONE
  PROVE  Precedes(l, h, graph[q][l])
<1> DEFINE c == ChainOf(l)
           u == graph[q][l]
<1>1. PICK k \in 1 .. Len(c) : c[k] = u /\ q = At(c, k - 1)
  BY PredecessorInChain
<1>2. /\ Len(c) \in Nat /\ Distinct(c)
      /\ \A m, n \in Nodes :
           Precedes(l, m, n) <=> \E j \in 1 .. Len(c) : \E i \in 1 .. j - 1 : c[i] = m /\ c[j] = n
  BY ChainFacts, ReferenceChain
<1>3. u \in Nodes
  BY EdgeOnChain
<1> HIDE DEF c, u
<1>4. k - 1 \in 1 .. Len(c) /\ c[k - 1] = q
  BY <1>1, <1>2 DEF At
<1>5. \E i \in 1 .. k - 1 : c[i] = h
  <2>1. CASE h = q
    BY <1>4, <2>1
  <2>2. CASE Precedes(l, h, q)
    <3>1. PICK j \in 1 .. Len(c) : \E i \in 1 .. j - 1 : c[i] = h /\ c[j] = q
      BY <1>2, <2>2
    <3>2. PICK i \in 1 .. j - 1 : c[i] = h /\ c[j] = q
      BY <3>1
    <3>3. j = k - 1
      BY <1>2, <1>4, <3>2 DEF Distinct
    <3>4. i \in 1 .. k - 1
      BY <1>2, <3>3
    <3> QED
      BY <3>2, <3>4
  <2> QED
    BY <2>1, <2>2
<1> QED
  BY <1>1, <1>2, <1>3, <1>5 DEF u

(* The first node of a chain that is left over waits for one of the other  *)
(* chain.                                                                  *)
LEMMA FirstLeft ==
  ASSUME GraphInv, NEW V \in SUBSET Nodes, FIRST \in V, \A n \in Nodes \ V : ~Free(n, V),
         NEW l \in Sides, NEW r \in Nodes \ V, OnChain(l, r)
  PROVE  \E h \in Nodes \ V : \E q \in Nodes \ V :
           /\ graph[q][Other[l]] = h
           /\ \A n \in Nodes \ V : OnChain(l, n) => h = n \/ Precedes(l, h, n)
<1> DEFINE c == ChainOf(l)
           S == {k \in 1 .. Len(c) : c[k] \notin V}
<1>1. /\ Len(c) \in Nat /\ Distinct(c) /\ \A k \in 1 .. Len(c) : c[k] \in Nodes
      /\ \A n \in Nodes : OnChain(l, n) <=> \E k \in 1 .. Len(c) : c[k] = n
      /\ \A m, n \in Nodes :
           Precedes(l, m, n) <=> \E j \in 1 .. Len(c) : \E i \in 1 .. j - 1 : c[i] = m /\ c[j] = n
  BY ChainFacts, ReferenceChain
<1>2. PICK k \in S : \A j \in S : k <= j
  <2>1. S # {} /\ S \in SUBSET Nat
    BY <1>1
  <2> QED
    BY <2>1, Least
<1>3. PICK q \in Nodes \ V : \E l2 \in Sides : graph[q][l2] = c[k]
  <2>1. c[k] \in Nodes \ V
    BY <1>1, <1>2
  <2>2. ~Free(c[k], V)
    BY <2>1
  <2> QED
    BY ONLY <2>2, GraphInv, FreeMeans
<1>4. graph[q][l] # c[k]
  <2> SUFFICES ASSUME graph[q][l] = c[k] PROVE FALSE
    OBVIOUS
  <2>1. PICK j \in 1 .. Len(c) : c[j] = c[k] /\ q = At(c, j - 1)
    BY <1>1, <1>2, PredecessorInChain, NodesAreNumbers
  <2>2. j = k
    BY <1>1, <1>2, <2>1 DEF Distinct
  <2>3. k # 1
    BY <2>1, <2>2 DEF At
  <2>4. k - 1 \in 1 .. Len(c) /\ q = c[k - 1] /\ ~(k <= k - 1)
    BY <1>1, <1>2, <2>1, <2>2, <2>3 DEF At
  <2> QED
    BY <1>2, <2>4
<1>5. graph[q][Other[l]] = c[k]
  BY <1>3, <1>4, OtherSide
<1>6. ASSUME NEW n \in Nodes \ V, OnChain(l, n) PROVE c[k] = n \/ Precedes(l, c[k], n)
  <2>1. PICK j \in S : c[j] = n
    BY <1>1, <1>6
  <2>2. CASE j = k
    BY <2>1, <2>2
  <2>3. CASE j # k
    <3>1. k <= j /\ j \in 1 .. Len(c) /\ k \in 1 .. Len(c)
      BY <1>2, <2>1
    <3>2. k \in 1 .. j - 1
      BY <1>1, <2>3, <3>1
    <3> QED
      BY <1>1, <1>2, <2>1, <3>1, <3>2
  <2> QED
    BY <2>2, <2>3
<1> QED
  BY <1>1, <1>2, <1>5, <1>6

LEMMA LeftReordered ==
  ASSUME GraphInv, NEW V \in SUBSET Nodes, FIRST \in V, \A n \in Nodes \ V : ~Free(n, V),
         Nodes \ V # {}
  PROVE  Reordered
<1>1. PICK r \in Nodes \ V : TRUE
  OBVIOUS
<1>2. PICK q0 \in Nodes \ V : \E l \in Sides : graph[q0][l] = r
  BY FreeMeans
<1>3. PICK l \in Sides : graph[q0][l] = r
  BY <1>2
<1>4. OnChain(l, r)
  BY <1>3, EdgeOnChain, NodesAreNumbers
<1>5. PICK h \in Nodes \ V : \E q \in Nodes \ V :
        /\ graph[q][Other[l]] = h
        /\ \A n \in Nodes \ V : OnChain(l, n) => h = n \/ Precedes(l, h, n)
  BY <1>4, FirstLeft
<1>6. PICK q \in Nodes \ V :
        /\ graph[q][Other[l]] = h
        /\ \A n \in Nodes \ V : OnChain(l, n) => h = n \/ Precedes(l, h, n)
  BY <1>5
<1>7. Other[l] \in Sides /\ Other[Other[l]] = l
  BY DEF Other, Sides
<1> DEFINE o == Other[l]
<1>8. OnChain(o, q)
  BY <1>6, <1>7, EdgeOnChain, NodesAreNumbers
<1> HIDE DEF o
<1>9. o \in Sides /\ Other[o] = l
  BY <1>7 DEF o
<1>10. PICK u \in Nodes \ V : \E p \in Nodes \ V :
        /\ graph[p][Other[o]] = u
        /\ \A n \in Nodes \ V : OnChain(o, n) => u = n \/ Precedes(o, u, n)
  BY <1>8, <1>9, FirstLeft
<1>11. PICK p \in Nodes \ V :
        /\ graph[p][l] = u
        /\ \A n \in Nodes \ V : OnChain(o, n) => u = n \/ Precedes(o, u, n)
  BY <1>9, <1>10
<1>12. OnChain(l, p) /\ p # FIRST /\ q # FIRST /\ u # NONE /\ h # NONE
  BY <1>11, EdgeOnChain, NodesAreNumbers
<1>13. Precedes(l, h, u)
  BY <1>6, <1>11, <1>12, PrecedesNext
<1>14. Precedes(o, u, h)
  BY <1>6, <1>8, <1>9, <1>11, <1>12, PrecedesNext DEF o
<1> QED
  BY <1>13, <1>14 DEF Reordered, Sides, Other, o
---------------------------------------------------------------------------
(* The fallback: where the walks are.                                      *)
Walked(c, k) == {At(c, i) : i \in 0 .. k - 1}

FirstWalk(k) ==
  LET c == ChainOf(pick_first) IN
  /\ current = At(c, k) /\ visited = Walked(c, k)
  /\ Len(ordered) = IF k <= Len(c) THEN k ELSE Len(c)
  /\ \A i \in 1 .. Len(ordered) : ordered[i] = c[i]

(* The second walk starts behind the whole first chain, and the part of    *)
(* its own chain that is not on that keeps its order.                      *)
SecondWalk(k) ==
  LET c == ChainOf(pick_first)
      d == ChainOf(Other[pick_first])
  IN
  /\ current = At(d, k) /\ visited = {FIRST} \cup Elems(c) \cup Walked(d, k)
  /\ Distinct(ordered) /\ Len(c) <= Len(ordered)
  /\ \A i \in 1 .. Len(c) : ordered[i] = c[i]
  /\ \A n : n \in Elems(ordered) <=> n \in Elems(c) \/ \E i \in 1 .. Len(d) : i <= k /\ d[i] = n
  /\ \A i, j \in 1 .. Len(d) :
       i < j /\ j <= k /\ d[i] \notin Elems(c) /\ d[j] \notin Elems(c) => OutputBefore(d[i], d[j])

(* What the walks along the two chains have done.                          *)
WalkInv ==
  cyclic =>
    /\ Reordered
    /\ pc \in {"first_chain", "second_chain", "sorted"}
    /\ pc = "first_chain" => \E k \in 0 .. Len(ChainOf(pick_first)) + 1 : FirstWalk(k)
    /\ pc = "second_chain" => \E k \in 0 .. Len(ChainOf(Other[pick_first])) + 1 : SecondWalk(k)
    /\ pc = "sorted" => SecondWalk(Len(ChainOf(Other[pick_first])) + 1)

SortInv == GraphInv /\ SortType /\ StackInv /\ OutputInv /\ TieInv /\ WalkInv

(* The sort may start from a match graph of any size.                      *)
LEMMA StartStep ==
  ASSUME GraphInv, StartSort
  PROVE  SortInv
<1>1. GraphInv
  OBVIOUS
<1>2. /\ pc = "count" /\ in_deg = <<>> /\ stk = <<>> /\ visited = {} /\ ordered = <<>>
      /\ current = FIRST /\ cyclic = FALSE
  BY DEF StartSort
<1>3. SortType
  <2>1. <<>> \in Seq(Nodes) /\ <<>> \in Seq(Nodes \ {FIRST}) /\ FIRST \in Nodes
    BY <1>1, NodesAreNumbers
  <2> QED
    BY <1>2, <2>1 DEF SortType
<1>4. OutputInv
  <2>1. Distinct(ordered) /\ Elems(ordered) = visited \ {FIRST}
    BY <1>2 DEF Distinct, Elems
  <2> QED
    BY <1>2, <2>1 DEF OutputInv, StartSort
<1> QED
  BY <1>1, <1>2, <1>3, <1>4 DEF SortInv, StackInv, TieInv, WalkInv

LEMMA CountStep ==
  ASSUME SortInv, CountInDegrees
  PROVE  SortInv'
<1>1. /\ pc = "count" /\ pc' = "toposort" /\ inputs' = inputs /\ stk' = <<FIRST>>
      /\ in_deg' = [n \in Nodes |-> Cardinality({e \in Nodes \X Sides : graph[e[1]][e[2]] = n})]
      /\ visited' = visited /\ ordered' = ordered /\ current' = current /\ cyclic' = cyclic
  BY DEF CountInDegrees
<1>2. GraphInv /\ SortType /\ visited = {} /\ ordered = <<>> /\ cyclic = FALSE
  BY <1>1 DEF SortInv, OutputInv, StartSort
<1>3. GraphInv' /\ Nodes' = Nodes
  BY <1>1, <1>2, SameGraph
<1>4. \A n \in Nodes : InEdges(n, {}) = {e \in Nodes \X Sides : graph[e[1]][e[2]] = n}
  BY DEF InEdges
<1>5. \A n \in Nodes : Free(n, {}) <=> n = FIRST
  <2>1. \A k \in Nodes : \A l \in Sides : graph[k][l] # FIRST
    BY <1>2 DEF GraphInv, FIRST, NONE
  <2>2. Free(FIRST, {})
    BY <1>2, <2>1, FreeMeans
  <2>3. ASSUME NEW n \in Nodes \ {FIRST} PROVE ~Free(n, {})
    <3>1. \E k \in Nodes \ {} : \E l \in Sides : graph[k][l] = n
      BY <1>2 DEF GraphInv
    <3> QED
      BY ONLY <1>2, <3>1, FreeMeans
  <2> QED
    BY <2>2, <2>3
<1>6. SortType'
  BY <1>1, <1>2, <1>3, NodesAreNumbers DEF SortType
<1>7. StackInv'
  <2>1. (in_deg = [n \in Nodes |-> Cardinality(InEdges(n, visited))])'
    <3>1. in_deg' = [n \in Nodes |-> Cardinality(InEdges(n, {}))]
      BY <1>1, <1>4
    <3>2. (\A n : InEdges(n, visited)' = InEdges(n, {}))
      BY <1>1, <1>2 DEF InEdges, Nodes, inputs
    <3> QED
      BY <1>3, <3>1, <3>2
  <2>2. Distinct(stk)'
    BY <1>1 DEF Distinct
  <2>3. (\A n \in Nodes : n \in Elems(stk) <=> n \notin visited /\ Free(n, visited))'
    <3>1. \A n : n \in Elems(stk)' <=> n = FIRST
      BY <1>1 DEF Elems
    <3>2. \A n : Free(n, visited)' <=> Free(n, {})
      BY <1>1, <1>2 DEF Free, InEdges, Nodes, inputs
    <3> QED
      BY <1>1, <1>2, <1>3, <1>5, <3>1, <3>2
  <2> QED
    BY <1>1, <1>2, <2>1, <2>2, <2>3 DEF StackInv
<1>8. OutputInv'
  <2>1. Distinct(ordered)' /\ Elems(ordered)' = {}
    BY <1>1, <1>2 DEF Distinct, Elems
  <2> QED
    BY <1>1, <1>2, <2>1 DEF OutputInv
<1>9. TieInv'
  BY <1>1, <1>2 DEF TieInv
<1> QED
  BY <1>1, <1>2, <1>3, <1>6, <1>7, <1>8, <1>9 DEF SortInv, WalkInv

LEMMA PopStep ==
  ASSUME SortInv, PopNode
  PROVE  SortInv'
<1>1. GraphInv /\ SortType /\ StackInv /\ OutputInv /\ TieInv /\ pc = "toposort" /\ stk # <<>>
  BY DEF SortInv, PopNode
<1> DEFINE m == stk[Len(stk)]
<1>2. Output(m)
  BY <1>1, NeverMetAgain
<1>3. SortType' /\ StackInv' /\ OutputInv' /\ TieInv'
  BY <1>1, <1>2, OutputStack, OutputOrder, OutputTies
<1>4. inputs' = inputs /\ cyclic' = cyclic /\ ~cyclic
  BY <1>1, <1>2 DEF Output, StackInv
<1>5. GraphInv'
  BY <1>1, <1>4, SameGraph
<1> QED
  BY <1>3, <1>4, <1>5 DEF SortInv, WalkInv

LEMMA FinishStep ==
  ASSUME SortInv, FinishToposort
  PROVE  SortInv'
<1>1. /\ GraphInv /\ SortType /\ StackInv /\ OutputInv /\ TieInv
      /\ pc = "toposort" /\ stk = <<>> /\ ~cyclic
  BY DEF SortInv, FinishToposort, StackInv
<1>2. /\ visited \in SUBSET Nodes /\ ordered \in Seq(Nodes \ {FIRST}) /\ FIRST \in visited
      /\ Distinct(ordered) /\ Elems(ordered) = visited \ {FIRST}
      /\ \A n \in Nodes : n \in Elems(stk) <=> n \notin visited /\ Free(n, visited)
  BY <1>1 DEF SortType, StackInv, OutputInv
<1>3. CASE Len(ordered) = Cardinality(Nodes) - 1
  <2>1. /\ pc' = "sorted" /\ inputs' = inputs /\ in_deg' = in_deg /\ stk' = stk /\ visited' = visited
        /\ ordered' = ordered /\ current' = current /\ cyclic' = cyclic
    BY <1>3 DEF FinishToposort
  <2>2. graph' = graph /\ pick_first' = pick_first
    BY <2>1 DEF inputs
  <2>3. GraphInv'
    BY <1>1, <2>1, SameGraph
  <2>4. SortType'
    BY <1>1, <2>1, <2>2 DEF SortType, Nodes
  <2>5. OutputInv'
    BY <1>1, <1>3, <2>1, <2>2 DEF OutputInv, Distinct, Elems, Free, InEdges, Nodes, OutputBefore
  <2>6. TieInv'
    BY <1>1, <2>1, SameGraph DEF TieInv, Swapped
  <2> QED
    BY <1>1, <2>1, <2>3, <2>4, <2>5, <2>6 DEF SortInv, StackInv, WalkInv
<1>4. CASE Len(ordered) # Cardinality(Nodes) - 1
  <2>1. /\ pc' = "first_chain" /\ inputs' = inputs /\ in_deg' = in_deg /\ stk' = stk /\ visited' = {}
        /\ ordered' = <<>> /\ current' = FIRST /\ cyclic' = TRUE
    BY <1>4 DEF FinishToposort, GiveUp
  <2>2. Nodes \ visited # {}
    <3> SUFFICES ASSUME Nodes \ visited = {} PROVE FALSE
      OBVIOUS
    <3>1. {ordered[i] : i \in 1 .. Len(ordered)} = Nodes \ {FIRST}
      BY <1>2 DEF Elems
    <3>2. /\ IsFiniteSet(Nodes \ {FIRST})
          /\ Cardinality(Nodes \ {FIRST}) = Cardinality(Nodes) - 1
      BY <1>1, NodesAreNumbers, FS_RemoveElement
    <3>3. Len(ordered) = Cardinality(Nodes \ {FIRST})
      BY ONLY <1>2, <3>1, <3>2, DistinctLength
    <3> QED
      BY <1>4, <3>2, <3>3
  <2>3. \A n \in Nodes \ visited : ~Free(n, visited)
    BY <1>1, <1>2 DEF Elems
  <2>4. Reordered
    BY ONLY <1>1, <1>2, <2>2, <2>3, LeftReordered
  <2>5. GraphInv' /\ Nodes' = Nodes /\ pick_first' = pick_first
    BY <1>1, <2>1, SameGraph
  <2>6. Reordered'
    BY <2>1, <2>4, <2>5, SameGraph DEF Reordered
  <2>7. SortType'
    <3>1. <<>> \in Seq(Nodes \ {FIRST}) /\ FIRST \in Nodes /\ stk \in Seq(Nodes)
      BY <1>1, NodesAreNumbers DEF SortType
    <3> QED
      BY <2>1, <2>5, <3>1 DEF SortType
  <2>8. FirstWalk(0)'
    <3> DEFINE c == ChainOf(pick_first)
    <3>1. Len(c) \in Nat /\ c' = c
      BY <1>1, <2>1, <2>5, ChainFacts, SameGraph DEF GraphInv
    <3> HIDE DEF c
    <3>2. Walked(c, 0) = {} /\ At(c, 0) = FIRST
      BY DEF Walked, At
    <3>3. Len(ordered') = IF 0 <= Len(c) THEN 0 ELSE Len(c)
      BY <2>1, <3>1
    <3>4. \A i \in 1 .. Len(ordered') : ordered'[i] = c[i]
      BY <2>1
    <3>5. c = ChainOf(pick_first)'
      BY <3>1 DEF c
    <3> QED
      BY <2>1, <3>2, <3>3, <3>4, <3>5 DEF FirstWalk
  <2>9. 0 \in 0 .. Len(ChainOf(pick_first)') + 1
    BY <2>1, <2>5, ChainFacts, <1>1, SameGraph DEF GraphInv
  <2> QED
    BY <2>1, <2>5, <2>6, <2>7, <2>8, <2>9 DEF SortInv, StackInv, OutputInv, TieInv, WalkInv
<1> QED
  BY <1>3, <1>4

(* The first k nodes of the chain c of list l, and what a step adds.       *)
WalkedSoFar(c, l, k) ==
  /\ Len(c) \in Nat /\ k \in Nat
  /\ At(c, k) = NONE <=> k = Len(c) + 1
  /\ k <= Len(c) =>
       /\ k + 1 \in 0 .. Len(c) + 1
       /\ graph[At(c, k)][l] = At(c, k + 1)
       /\ Walked(c, k + 1) = Walked(c, k) \cup {At(c, k)}
       /\ At(c, k + 1) \notin Walked(c, k + 1)
  /\ \A n : n \in Walked(c, k) <=> (n = FIRST /\ k # 0) \/ \E i \in 1 .. Len(c) : i < k /\ c[i] = n

LEMMA WalkedFacts ==
  ASSUME GraphInv, NEW l \in Sides, NEW k \in 0 .. Len(ChainOf(l)) + 1
  PROVE  WalkedSoFar(ChainOf(l), l, k)
<1> DEFINE c == ChainOf(l)
<1>1. /\ Len(c) \in Nat /\ Distinct(c)
      /\ \A i \in 1 .. Len(c) : c[i] # FIRST /\ c[i] # NONE
      /\ \A i \in 0 .. Len(c) : graph[At(c, i)][l] = At(c, i + 1)
  BY ChainFacts
<1>2. k \in Nat /\ k <= Len(c) + 1
  BY <1>1
<1> HIDE DEF c
<1>3. At(c, k) = NONE <=> k = Len(c) + 1
  BY <1>1, <1>2 DEF At, FIRST, NONE
<1>4. ASSUME NEW n
      PROVE  n \in Walked(c, k) <=> (n = FIRST /\ k # 0) \/ \E i \in 1 .. Len(c) : i < k /\ c[i] = n
  <2>1. ASSUME n \in Walked(c, k)
        PROVE  (n = FIRST /\ k # 0) \/ \E i \in 1 .. Len(c) : i < k /\ c[i] = n
    BY <1>1, <1>2, <2>1 DEF Walked, At
  <2>2. ASSUME n = FIRST, k # 0 PROVE n \in Walked(c, k)
    <3>1. 0 \in 0 .. k - 1 /\ At(c, 0) = FIRST
      BY <1>2, <2>2 DEF At
    <3> QED
      BY <2>2, <3>1 DEF Walked
  <2>3. ASSUME NEW i \in 1 .. Len(c), i < k, c[i] = n PROVE n \in Walked(c, k)
    <3>1. i \in 0 .. k - 1 /\ At(c, i) = n
      BY <1>1, <1>2, <2>3 DEF At
    <3> QED
      BY <3>1 DEF Walked
  <2> QED
    BY <2>1, <2>2, <2>3
<1>5. ASSUME k <= Len(c)
      PROVE  /\ k + 1 \in 0 .. Len(c) + 1 /\ graph[At(c, k)][l] = At(c, k + 1)
             /\ Walked(c, k + 1) = Walked(c, k) \cup {At(c, k)}
             /\ At(c, k + 1) \notin Walked(c, k + 1)
  <2>1. k + 1 \in 0 .. Len(c) + 1 /\ graph[At(c, k)][l] = At(c, k + 1)
    BY <1>1, <1>2, <1>5
  <2>2. 0 .. (k + 1) - 1 = (0 .. k - 1) \cup {k}
    BY <1>2
  <2>3. Walked(c, k + 1) = Walked(c, k) \cup {At(c, k)}
    BY <2>2 DEF Walked
  <2>4. ASSUME NEW i \in 0 .. (k + 1) - 1 PROVE At(c, i) # At(c, k + 1)
    <3>1. i \in Nat /\ i <= k /\ i <= Len(c)
      BY <1>2, <1>5
    <3> QED
      BY <1>1, <1>2, <3>1 DEF At, Distinct, FIRST, NONE
  <2>5. At(c, k + 1) \notin Walked(c, k + 1)
    BY <2>4 DEF Walked
  <2> QED
    BY <2>1, <2>3, <2>5
<1>6. WalkedSoFar(c, l, k)
  BY <1>1, <1>2, <1>3, <1>4, <1>5 DEF WalkedSoFar
<1> QED
  BY <1>6 DEF c

LEMMA WalkType ==
  ASSUME GraphInv, SortType, NEW l \in Sides, Walk(l)
  PROVE  SortType'
<1>1. /\ current \in Nodes /\ visited' = visited \cup {current} /\ current' = graph[current][l]
      /\ ordered' = IF current' \in visited' \cup {NONE} THEN ordered ELSE Append(ordered, current')
      /\ inputs' = inputs /\ pc' = pc /\ stk' = stk /\ cyclic' = cyclic
  BY DEF Walk, SortType
<1>2. graph[current][l] \in (Nodes \ {FIRST}) \cup {NONE}
  BY <1>1 DEF GraphInv
<1>3. ordered' \in Seq(Nodes \ {FIRST})
  BY <1>1, <1>2 DEF SortType
<1>4. Nodes' = Nodes
  BY <1>1, SameGraph
<1> QED
  BY <1>1, <1>2, <1>3, <1>4 DEF SortType

LEMMA WalkFirstStep ==
  ASSUME SortInv, WalkFirst
  PROVE  SortInv'
<1>1. GraphInv /\ SortType /\ pc = "first_chain" /\ pick_first \in Sides /\ Walk(pick_first)
  BY DEF SortInv, WalkFirst, GraphInv
<1>2. /\ current # NONE /\ visited' = visited \cup {current} /\ current' = graph[current][pick_first]
      /\ ordered' = IF current' \in visited' \cup {NONE} THEN ordered ELSE Append(ordered, current')
      /\ inputs' = inputs /\ pc' = pc /\ stk' = stk /\ cyclic' = cyclic
  BY <1>1 DEF Walk
<1>3. cyclic /\ Reordered /\ \E k \in 0 .. Len(ChainOf(pick_first)) + 1 : FirstWalk(k)
  BY <1>1 DEF SortInv, OutputInv, WalkInv, SortType
<1> DEFINE c == ChainOf(pick_first)
<1>4. PICK k \in 0 .. Len(c) + 1 : FirstWalk(k)
  BY <1>3
<1>5. /\ Len(c) \in Nat /\ k \in Nat
      /\ At(c, k) = NONE <=> k = Len(c) + 1
      /\ k <= Len(c) =>
           /\ k + 1 \in 0 .. Len(c) + 1
           /\ graph[At(c, k)][pick_first] = At(c, k + 1)
           /\ Walked(c, k + 1) = Walked(c, k) \cup {At(c, k)}
           /\ At(c, k + 1) \notin Walked(c, k + 1)
  <2>1. WalkedSoFar(c, pick_first, k)
    BY <1>1, WalkedFacts
  <2> HIDE DEF c
  <2> QED
    BY ONLY <2>1 DEF WalkedSoFar
<1>6. /\ current = At(c, k) /\ visited = Walked(c, k)
      /\ Len(ordered) = IF k <= Len(c) THEN k ELSE Len(c)
      /\ \A i \in 1 .. Len(ordered) : ordered[i] = c[i]
  BY <1>4 DEF FirstWalk
<1> HIDE DEF c
<1>7. k <= Len(c) /\ current' = At(c, k + 1) /\ visited' = Walked(c, k + 1) /\ Len(ordered) = k
  BY <1>2, <1>5, <1>6
<1>8. /\ Len(ordered') = IF k + 1 <= Len(c) THEN k + 1 ELSE Len(c)
      /\ \A i \in 1 .. Len(ordered') : ordered'[i] = c[i]
  <2>1. CASE k + 1 <= Len(c)
    <3>1. At(c, k + 1) = c[k + 1] /\ c[k + 1] # NONE
      <4>1. k + 1 \in 1 .. Len(c)
        BY <1>5, <2>1
      <4> QED
        BY <1>1, <2>1, <4>1, ChainFacts DEF At, c
    <3>2. ordered' = Append(ordered, c[k + 1])
      BY <1>2, <1>5, <1>7, <3>1
    <3>3. ordered \in Seq(Nodes \ {FIRST})
      BY <1>1 DEF SortType
    <3>4. Len(Append(ordered, c[k + 1])) = k + 1
      BY <1>7, <3>3
    <3>5. \A i \in 1 .. k + 1 : Append(ordered, c[k + 1])[i] = IF i <= k THEN ordered[i] ELSE c[k + 1]
      BY <1>7, <3>3
    <3> QED
      BY <1>5, <1>6, <1>7, <2>1, <3>2, <3>4, <3>5
  <2>2. CASE ~(k + 1 <= Len(c))
    <3>1. k = Len(c) /\ At(c, k + 1) = NONE
      BY <1>5, <1>7, <2>2 DEF At
    <3>2. ordered' = ordered
      BY <1>2, <1>7, <3>1
    <3> QED
      BY <1>6, <1>7, <2>2, <3>1, <3>2
  <2> QED
    BY <2>1, <2>2
<1>9. /\ GraphInv' /\ Nodes' = Nodes /\ pick_first' = pick_first /\ ChainOf(pick_first)' = c
  BY <1>1, <1>2, SameGraph DEF c
<1>10. FirstWalk(k + 1)'
  BY <1>7, <1>8, <1>9 DEF FirstWalk
<1>11. (\E j \in 0 .. Len(ChainOf(pick_first)) + 1 : FirstWalk(j))'
  BY <1>5, <1>7, <1>9, <1>10
<1>12. Reordered'
  BY <1>2, <1>3, <1>9, SameGraph DEF Reordered
<1>13. SortType'
  BY <1>1, WalkType
<1> QED
  BY <1>1, <1>2, <1>3, <1>9, <1>11, <1>12, <1>13
     DEF SortInv, StackInv, OutputInv, TieInv, WalkInv

LEMMA WalkSecondStep ==
  ASSUME SortInv, WalkSecond
  PROVE  SortInv'
<1> DEFINE o == Other[pick_first]
           c == ChainOf(pick_first)
           d == ChainOf(o)
<1>1. GraphInv /\ SortType /\ pc = "second_chain" /\ pick_first \in Sides /\ o \in Sides /\ Walk(o)
  BY OtherSide DEF SortInv, WalkSecond, GraphInv
<1>2. /\ current # NONE /\ visited' = visited \cup {current} /\ current' = graph[current][o]
      /\ ordered' = IF current' \in visited' \cup {NONE} THEN ordered ELSE Append(ordered, current')
      /\ inputs' = inputs /\ pc' = pc /\ stk' = stk /\ cyclic' = cyclic
  BY <1>1 DEF Walk
<1>3. cyclic /\ Reordered /\ \E k \in 0 .. Len(d) + 1 : SecondWalk(k)
  BY <1>1 DEF SortInv, OutputInv, WalkInv, SortType
<1>4. PICK k \in 0 .. Len(d) + 1 : SecondWalk(k)
  BY <1>3
<1> HIDE DEF o
<1>5. /\ Len(d) \in Nat /\ k \in Nat
      /\ At(d, k) = NONE <=> k = Len(d) + 1
      /\ k <= Len(d) =>
           /\ k + 1 \in 0 .. Len(d) + 1
           /\ graph[At(d, k)][o] = At(d, k + 1)
           /\ Walked(d, k + 1) = Walked(d, k) \cup {At(d, k)}
           /\ At(d, k + 1) \notin Walked(d, k + 1)
      /\ \A n : n \in Walked(d, k) <=> (n = FIRST /\ k # 0) \/ \E i \in 1 .. Len(d) : i < k /\ d[i] = n
  <2>1. WalkedSoFar(d, o, k)
    BY <1>1, WalkedFacts
  <2> HIDE DEF c, d
  <2> QED
    BY ONLY <2>1 DEF WalkedSoFar
<1>6. /\ current = At(d, k) /\ visited = {FIRST} \cup Elems(c) \cup Walked(d, k)
      /\ Distinct(ordered) /\ Len(c) <= Len(ordered)
      /\ \A i \in 1 .. Len(c) : ordered[i] = c[i]
      /\ \A n : n \in Elems(ordered) <=> n \in Elems(c) \/ \E i \in 1 .. Len(d) : i <= k /\ d[i] = n
      /\ \A i, j \in 1 .. Len(d) :
           i < j /\ j <= k /\ d[i] \notin Elems(c) /\ d[j] \notin Elems(c) => OutputBefore(d[i], d[j])
  BY <1>4 DEF SecondWalk, o
<1>7. /\ Len(c) \in Nat /\ Distinct(d)
      /\ \A i \in 1 .. Len(d) : d[i] # FIRST /\ d[i] # NONE /\ d[i] \in Nodes
  BY <1>1, ChainFacts
<1>8. ordered \in Seq(Nodes \ {FIRST}) /\ Len(ordered) \in Nat
  BY <1>1 DEF SortType
<1> HIDE DEF c, d
<1>9. /\ k <= Len(d) /\ current' = At(d, k + 1)
      /\ visited' = {FIRST} \cup Elems(c) \cup Walked(d, k + 1)
  BY <1>2, <1>5, <1>6
<1> DEFINE x == At(d, k + 1)
           Done(s) ==
             /\ Distinct(s) /\ Len(c) <= Len(s)
             /\ \A i \in 1 .. Len(c) : s[i] = c[i]
             /\ \A n : n \in Elems(s) <=> n \in Elems(c) \/ \E i \in 1 .. Len(d) : i <= k + 1 /\ d[i] = n
             /\ \A i, j \in 1 .. Len(d) :
                  i < j /\ j <= k + 1 /\ d[i] \notin Elems(c) /\ d[j] \notin Elems(c) =>
                    \E b \in 1 .. Len(s) : \E a \in 1 .. b - 1 : s[a] = d[i] /\ s[b] = d[j]
<1>10. Done(ordered')
  <2>1. CASE k + 1 > Len(d)
    <3>1. x = NONE /\ ordered' = ordered
      BY <1>2, <1>5, <1>9, <2>1 DEF At
    <3>2. \A i \in 1 .. Len(d) : i <= k + 1 <=> i <= k
      BY <1>5, <1>9, <2>1
    <3>3. Done(ordered)
      BY <1>6, <3>2 DEF OutputBefore
    <3> HIDE DEF Done
    <3> QED
      BY <3>1, <3>3
  <2>2. CASE k + 1 <= Len(d)
    <3>1. k + 1 \in 1 .. Len(d) /\ x = d[k + 1]
      BY <1>5, <2>2 DEF At
    <3>2. x \in visited' <=> x \in Elems(c)
      BY <1>5, <1>7, <1>9, <3>1
    <3>3. \A i \in 1 .. Len(d) : i <= k + 1 <=> i <= k \/ i = k + 1
      BY <1>5, <3>1
    <3>4. CASE x \in Elems(c)
      <4>1. ordered' = ordered
        BY <1>2, <1>9, <3>2, <3>4
      <4>2. Done(ordered)
        BY <1>6, <3>1, <3>3, <3>4 DEF OutputBefore
      <4> HIDE DEF Done
      <4> QED
        BY <4>1, <4>2
    <3>5. CASE x \notin Elems(c)
      <4> DEFINE t == Append(ordered, x)
      <4>1. ordered' = t
        BY <1>2, <1>7, <1>9, <3>1, <3>2, <3>5
      <4>2. x \in Nodes \ {FIRST} /\ x \notin Elems(ordered)
        <5>1. \A i \in 1 .. Len(d) : i <= k => d[i] # x
          BY <1>5, <1>7, <3>1 DEF Distinct
        <5> QED
          BY <1>6, <1>7, <3>1, <3>5, <5>1
      <4> HIDE DEF x
      <4>3. /\ Len(t) = Len(ordered) + 1 /\ t[Len(t)] = x
            /\ \A i \in 1 .. Len(ordered) : i \in 1 .. Len(t) /\ t[i] = ordered[i]
        BY <1>8, <4>2
      <4> HIDE DEF t
      <4>4. \A n : n \in Elems(t) <=> n \in Elems(ordered) \/ n = x
        <5>1. \A i \in 1 .. Len(t) : i \in 1 .. Len(ordered) \/ i = Len(t)
          BY <1>8, <4>3
        <5>2. Len(t) \in 1 .. Len(t)
          BY <1>8, <4>3
        <5> QED
          BY <4>3, <5>1, <5>2 DEF Elems
      <4>5. Distinct(t)
        <5> SUFFICES ASSUME NEW i \in 1 .. Len(t), NEW j \in 1 .. Len(t), t[i] = t[j]
                     PROVE  i = j
          BY DEF Distinct
        <5>1. \A a \in 1 .. Len(ordered) : ordered[a] # x
          BY <4>2 DEF Elems
        <5>2. \A a \in 1 .. Len(t) : a \in 1 .. Len(ordered) \/ a = Len(t)
          BY <1>8, <4>3
        <5> QED
          BY <1>6, <4>3, <5>1, <5>2 DEF Distinct
      <4>6. ASSUME NEW i \in 1 .. Len(d), NEW j \in 1 .. Len(d),
                   i < j, j <= k + 1, d[i] \notin Elems(c), d[j] \notin Elems(c)
            PROVE  \E b \in 1 .. Len(t) : \E a \in 1 .. b - 1 : t[a] = d[i] /\ t[b] = d[j]
        <5>1. CASE j <= k
          <6>1. PICK b \in 1 .. Len(ordered) : \E a \in 1 .. b - 1 : ordered[a] = d[i] /\ ordered[b] = d[j]
            BY <1>6, <4>6, <5>1 DEF OutputBefore
          <6>2. PICK a \in 1 .. b - 1 : ordered[a] = d[i] /\ ordered[b] = d[j]
            BY <6>1
          <6>3. a \in 1 .. Len(ordered)
            BY <1>8
          <6> QED
            BY <4>3, <6>2, <6>3
        <5>2. CASE j = k + 1
          <6>1. i <= k
            BY <1>5, <4>6, <5>2
          <6>2. d[i] \in Elems(ordered)
            BY <1>6, <6>1
          <6>3. PICK a \in 1 .. Len(ordered) : ordered[a] = d[i]
            BY <6>2 DEF Elems
          <6>4. Len(t) \in 1 .. Len(t) /\ a \in 1 .. Len(t) - 1
            BY <1>8, <4>3
          <6> QED
            BY <3>1, <4>3, <5>2, <6>3, <6>4
        <5> QED
          BY <3>3, <4>6, <5>1, <5>2
      <4>7. Len(c) <= Len(t) /\ \A i \in 1 .. Len(c) : t[i] = c[i]
        <5>1. \A i \in 1 .. Len(c) : i \in 1 .. Len(ordered)
          BY <1>6, <1>7, <1>8
        <5> QED
          BY <1>6, <1>7, <1>8, <4>3, <5>1
      <4>8. \A n : n \in Elems(t) <=> n \in Elems(c) \/ \E i \in 1 .. Len(d) : i <= k + 1 /\ d[i] = n
        BY <1>6, <3>1, <3>3, <4>4
      <4>9. Done(t)
        BY <4>5, <4>6, <4>7, <4>8
      <4> HIDE DEF Done
      <4> QED
        BY <4>1, <4>9
    <3> QED
      BY <3>4, <3>5
  <2> HIDE DEF Done
  <2> QED
    BY <1>5, <2>1, <2>2
<1>11. /\ GraphInv' /\ Nodes' = Nodes /\ pick_first' = pick_first
       /\ ChainOf(pick_first)' = c /\ ChainOf(Other[pick_first])' = d
  BY <1>1, <1>2, SameGraph DEF c, d, o
<1>12. SecondWalk(k + 1)'
  <2>1. current' = At(d, k + 1) /\ visited' = {FIRST} \cup Elems(c) \cup Walked(d, k + 1)
    BY <1>9
  <2>2. /\ Distinct(ordered') /\ Len(c) <= Len(ordered')
        /\ \A i \in 1 .. Len(c) : ordered'[i] = c[i]
    BY <1>10
  <2>3. \A n : n \in Elems(ordered') <=> n \in Elems(c) \/ \E i \in 1 .. Len(d) : i <= k + 1 /\ d[i] = n
    BY <1>10
  <2>4. \A i, j \in 1 .. Len(d) :
          i < j /\ j <= k + 1 /\ d[i] \notin Elems(c) /\ d[j] \notin Elems(c) =>
            \E b \in 1 .. Len(ordered') : \E a \in 1 .. b - 1 : ordered'[a] = d[i] /\ ordered'[b] = d[j]
    BY <1>10
  <2> HIDE DEF Done, x
  <2>5. (\A i, j \in 1 .. Len(ChainOf(Other[pick_first])) :
           /\ i < j /\ j <= k + 1
           /\ ChainOf(Other[pick_first])[i] \notin Elems(ChainOf(pick_first))
           /\ ChainOf(Other[pick_first])[j] \notin Elems(ChainOf(pick_first))
           => OutputBefore(ChainOf(Other[pick_first])[i], ChainOf(Other[pick_first])[j]))'
    BY <1>11, <2>4 DEF OutputBefore
  <2>6. (\A n : n \in Elems(ordered) <=>
                  \/ n \in Elems(ChainOf(pick_first))
                  \/ \E i \in 1 .. Len(ChainOf(Other[pick_first])) :
                       i <= k + 1 /\ ChainOf(Other[pick_first])[i] = n)'
    BY <1>11, <2>3
  <2> QED
    BY <1>11, <2>1, <2>2, <2>5, <2>6 DEF SecondWalk
<1>13. (\E j \in 0 .. Len(ChainOf(Other[pick_first])) + 1 : SecondWalk(j))'
  BY <1>5, <1>9, <1>11, <1>12
<1>14. Reordered'
  BY <1>2, <1>3, <1>11, SameGraph DEF Reordered
<1>15. SortType'
  BY <1>1, WalkType
<1> QED
  BY <1>1, <1>2, <1>3, <1>11, <1>13, <1>14, <1>15
     DEF SortInv, StackInv, OutputInv, TieInv, WalkInv

LEMMA EndStep ==
  ASSUME SortInv, EndOfChain
  PROVE  SortInv'
<1> DEFINE c == ChainOf(pick_first)
           d == ChainOf(Other[pick_first])
<1>1. /\ GraphInv /\ SortType /\ pick_first \in Sides /\ Other[pick_first] \in Sides
      /\ pc \in {"first_chain", "second_chain"} /\ current = NONE
      /\ cyclic /\ Reordered
  BY OtherSide DEF SortInv, EndOfChain, GraphInv, OutputInv, WalkInv, SortType
<1>2. /\ inputs' = inputs /\ stk' = stk /\ visited' = visited /\ ordered' = ordered /\ cyclic' = cyclic
  BY DEF EndOfChain
<1>3. /\ GraphInv' /\ Nodes' = Nodes /\ pick_first' = pick_first
      /\ ChainOf(pick_first)' = c /\ ChainOf(Other[pick_first])' = d
  BY <1>1, <1>2, SameGraph
<1>4. Reordered'
  BY <1>1, <1>2, <1>3, SameGraph DEF Reordered
<1>5. Len(c) \in Nat /\ Distinct(c) /\ Len(d) \in Nat
  BY <1>1, ChainFacts
<1>6. CASE pc = "first_chain"
  <2>1. pc' = "second_chain" /\ current' = FIRST
    BY <1>6 DEF EndOfChain
  <2>2. PICK k \in 0 .. Len(c) + 1 : FirstWalk(k)
    BY <1>1, <1>6 DEF SortInv, WalkInv
  <2>3. /\ At(c, k) = NONE <=> k = Len(c) + 1
        /\ \A n : n \in Walked(c, k) <=> (n = FIRST /\ k # 0) \/ \E i \in 1 .. Len(c) : i < k /\ c[i] = n
    <3>1. WalkedSoFar(c, pick_first, k)
      BY <1>1, WalkedFacts
    <3> HIDE DEF c, d
    <3> QED
      BY ONLY <3>1 DEF WalkedSoFar
  <2>4. /\ current = At(c, k) /\ visited = Walked(c, k)
        /\ Len(ordered) = IF k <= Len(c) THEN k ELSE Len(c)
        /\ \A i \in 1 .. Len(ordered) : ordered[i] = c[i]
    BY <2>2 DEF FirstWalk
  <2> HIDE DEF c, d
  <2>5. k = Len(c) + 1 /\ Len(ordered) = Len(c)
    BY <1>1, <1>5, <2>3, <2>4
  <2>6. visited = {FIRST} \cup Elems(c)
    <3>1. \A i \in 1 .. Len(c) : i < k
      BY <1>5, <2>5
    <3>2. \A n : n \in visited <=> n = FIRST \/ n \in Elems(c)
      BY <1>5, <2>3, <2>4, <2>5, <3>1 DEF Elems
    <3> QED
      BY <3>2
  <2>7. Walked(d, 0) = {} /\ At(d, 0) = FIRST
    BY DEF Walked, At
  <2>8. Distinct(ordered) /\ \A n : n \in Elems(ordered) <=> n \in Elems(c)
    BY <1>5, <2>4, <2>5 DEF Distinct, Elems
  <2>9. /\ current' = At(d, 0) /\ visited' = {FIRST} \cup Elems(c) \cup Walked(d, 0)
        /\ Distinct(ordered') /\ Len(c) <= Len(ordered')
        /\ \A i \in 1 .. Len(c) : ordered'[i] = c[i]
        /\ \A n : n \in Elems(ordered') <=> n \in Elems(c)
    BY <1>2, <1>5, <2>1, <2>4, <2>5, <2>6, <2>7, <2>8
  <2>10. \A i \in 1 .. Len(d) : ~(i <= 0)
    BY <1>5
  <2>11. SecondWalk(0)'
    <3>1. (\A i, j \in 1 .. Len(ChainOf(Other[pick_first])) :
             /\ i < j /\ j <= 0
             /\ ChainOf(Other[pick_first])[i] \notin Elems(ChainOf(pick_first))
             /\ ChainOf(Other[pick_first])[j] \notin Elems(ChainOf(pick_first))
             => OutputBefore(ChainOf(Other[pick_first])[i], ChainOf(Other[pick_first])[j]))'
      BY <1>3, <2>10
    <3>2. (\A n : n \in Elems(ordered) <=>
                    \/ n \in Elems(ChainOf(pick_first))
                    \/ \E i \in 1 .. Len(ChainOf(Other[pick_first])) :
                         i <= 0 /\ ChainOf(Other[pick_first])[i] = n)'
      BY <1>3, <2>9, <2>10
    <3> QED
      BY <1>3, <2>9, <3>1, <3>2 DEF SecondWalk
  <2>12. (\E j \in 0 .. Len(ChainOf(Other[pick_first])) + 1 : SecondWalk(j))'
    BY <1>3, <1>5, <2>11
  <2>13. SortType'
    BY <1>1, <1>2, <1>3, <2>1, NodesAreNumbers DEF SortType
  <2> QED
    BY <1>1, <1>2, <1>3, <1>4, <2>1, <2>12, <2>13
       DEF SortInv, StackInv, OutputInv, TieInv, WalkInv
<1>7. CASE pc = "second_chain"
  <2>1. pc' = "sorted" /\ current' = current
    BY <1>7 DEF EndOfChain
  <2>2. PICK k \in 0 .. Len(d) + 1 : SecondWalk(k)
    BY <1>1, <1>7 DEF SortInv, WalkInv
  <2>3. At(d, k) = NONE <=> k = Len(d) + 1
    <3>1. WalkedSoFar(d, Other[pick_first], k)
      BY <1>1, WalkedFacts
    <3> HIDE DEF c, d
    <3> QED
      BY ONLY <3>1 DEF WalkedSoFar
  <2>4. current = At(d, k)
    BY <2>2 DEF SecondWalk
  <2>5. SecondWalk(Len(d) + 1)
    BY <1>1, <2>2, <2>3, <2>4
  <2>6. SecondWalk(Len(ChainOf(Other[pick_first])) + 1)'
    BY <1>2, <1>3, <2>1, <2>5 DEF SecondWalk, OutputBefore
  <2>7. SortType'
    BY <1>1, <1>2, <1>3, <2>1 DEF SortType
  <2> QED
    BY <1>1, <1>2, <1>3, <1>4, <2>1, <2>6, <2>7
       DEF SortInv, StackInv, OutputInv, TieInv, WalkInv
<1> QED
  BY <1>1, <1>6, <1>7

LEMMA StutterStep ==
  ASSUME SortInv, UNCHANGED vars
  PROVE  SortInv'
<1>1. /\ inputs' = inputs /\ graph' = graph /\ pick_first' = pick_first /\ pc' = pc /\ in_deg' = in_deg
      /\ stk' = stk /\ visited' = visited /\ ordered' = ordered /\ current' = current /\ cyclic' = cyclic
  BY DEF vars, inputs
<1>2. GraphInv'
  BY <1>1, SameGraph DEF SortInv
<1>3. SortType' /\ StackInv'
  BY <1>1 DEF SortInv, SortType, StackInv, Distinct, Elems, Free, InEdges, Nodes
<1>4. OutputInv'
  BY <1>1 DEF SortInv, OutputInv, StartSort, Distinct, Elems, Free, InEdges, Nodes, OutputBefore
<1>5. TieInv'
  BY <1>1, SameGraph DEF SortInv, TieInv, Swapped
<1>6. WalkInv'
  <2>1. Reordered' <=> Reordered
    BY <1>1, SameGraph DEF Reordered
  <2>2. \A k : FirstWalk(k)' <=> FirstWalk(k)
    BY <1>1, SameGraph DEF FirstWalk
  <2>3. ASSUME NEW k, SecondWalk(k) PROVE SecondWalk(k)'
    <3>1. /\ ChainOf(pick_first)' = ChainOf(pick_first)
          /\ ChainOf(Other[pick_first])' = ChainOf(Other[pick_first])
      BY <1>1, SameGraph
    <3> QED
      BY <1>1, <2>3, <3>1 DEF SecondWalk, OutputBefore
  <2> QED
    BY <1>1, <2>1, <2>2, <2>3, SameGraph DEF SortInv, WalkInv
<1> QED
  BY <1>2, <1>3, <1>4, <1>5, <1>6 DEF SortInv

(* The invariant from which the theorems follow.                           *)
LEMMA SortStep ==
  ASSUME SortInv, SortGraph
  PROVE  SortInv'
BY CountStep, PopStep, FinishStep, WalkFirstStep, WalkSecondStep, EndStep DEF SortGraph

LEMMA SortInvariant == Spec => []SortInv
<1>1. Init => SortInv
  BY InitialGraph, StartStep DEF Init
<1>2. SortInv /\ [Next]_vars => SortInv'
  BY SortStep, StutterStep DEF Next, Sorted
<1> QED
  BY <1>1, <1>2, PTL DEF Spec
---------------------------------------------------------------------------
(* The chains together have every node.                                    *)
LEMMA EveryNodeOnAChain ==
  ASSUME GraphInv, NEW n \in Nodes \ {FIRST}
  PROVE  OnChain(pick_first, n) \/ OnChain(Other[pick_first], n)
<1>1. PICK l \in Sides : \E k \in Nodes : graph[k][l] = n
  BY DEF GraphInv
<1>2. OnChain(l, n)
  BY <1>1, EdgeOnChain, NodesAreNumbers
<1>3. l \in {pick_first, Other[pick_first]}
  BY OtherSide DEF GraphInv
<1> QED
  BY <1>2, <1>3

(* Each variable of the sort keeps to its values; the stack and the output *)
(* have nodes of the graph only (graph_builder.py:221 toposort,            *)
(* graph_builder.py:271 sort_cyclic_graph_best_effort).                    *)
THEOREM SortTypeCorrect == Spec => []SortType
<1>1. SortInv => SortType
  BY DEF SortInv
<1> QED
  BY <1>1, SortInvariant, PTL

(* What the sort has output when it is over: every node, once.             *)
LEMMA SortedComplete ==
  ASSUME SortInv, pc = "sorted"
  PROVE  /\ {ordered[i] : i \in 1 .. Len(ordered)} = Nodes \ {FIRST}
         /\ Len(ordered) = Cardinality(Nodes) - 1
         /\ Distinct(ordered)
<1>1. GraphInv /\ ordered \in Seq(Nodes \ {FIRST}) /\ cyclic \in BOOLEAN
  BY DEF SortInv, SortType
<1>2. /\ IsFiniteSet(Nodes \ {FIRST})
      /\ Cardinality(Nodes \ {FIRST}) = Cardinality(Nodes) - 1
  BY <1>1, NodesAreNumbers, FS_RemoveElement
<1>3. CASE ~cyclic
  <2>1. Distinct(ordered) /\ Len(ordered) = Cardinality(Nodes) - 1
    BY <1>3 DEF SortInv, OutputInv
  <2>2. {ordered[i] : i \in 1 .. Len(ordered)} = Nodes \ {FIRST}
    BY ONLY <1>1, <1>2, <2>1, DistinctLength
  <2> QED
    BY <2>1, <2>2
<1>4. CASE cyclic
  <2> DEFINE c == ChainOf(pick_first)
             o == Other[pick_first]
             d == ChainOf(o)
  <2>1. /\ Distinct(ordered)
        /\ \A n : n \in Elems(ordered) <=> n \in Elems(c) \/ \E i \in 1 .. Len(d) : i <= Len(d) + 1 /\ d[i] = n
    BY <1>4 DEF SortInv, WalkInv, SecondWalk
  <2>2. pick_first \in Sides /\ o \in Sides
    BY <1>1, OtherSide DEF GraphInv
  <2>3. /\ Len(c) \in Nat /\ Len(d) \in Nat
        /\ \A n \in Nodes : OnChain(pick_first, n) <=> \E k \in 1 .. Len(c) : c[k] = n
        /\ \A n \in Nodes : OnChain(o, n) <=> \E k \in 1 .. Len(d) : d[k] = n
    BY <1>1, <2>2, ChainFacts, ReferenceChain
  <2>4. \A n \in Nodes \ {FIRST} : OnChain(pick_first, n) \/ OnChain(o, n)
    BY <1>1, EveryNodeOnAChain
  <2> HIDE DEF c, d, o
  <2>5. \A i \in 1 .. Len(d) : i <= Len(d) + 1
    BY <2>3
  <2>6. \A n \in Nodes \ {FIRST} : n \in Elems(ordered)
    BY <2>1, <2>3, <2>4, <2>5 DEF Elems
  <2>7. {ordered[i] : i \in 1 .. Len(ordered)} = Nodes \ {FIRST}
    BY <1>1, <2>6 DEF Elems
  <2>8. Len(ordered) = Cardinality(Nodes \ {FIRST})
    BY ONLY <1>1, <1>2, <2>1, <2>7, DistinctLength
  <2> QED
    BY <1>2, <2>1, <2>7, <2>8
<1> QED
  BY <1>1, <1>3, <1>4

(* The order that is returned, the fallback's included, has every entity   *)
(* once.                                                                   *)
THEOREM CompleteAlways == Spec => []Complete
<1>1. SortInv => Complete
  BY SortedComplete DEF Complete
<1> QED
  BY <1>1, SortInvariant, PTL

LEMMA OutputKeepsOrder ==
  ASSUME SortInv, pc = "sorted", ~cyclic, NEW l \in Sides, NEW m \in Nodes, NEW n \in Nodes,
         Precedes(l, m, n)
  PROVE  OutputBefore(m, n)
<1> DEFINE c == ChainOf(l)
<1>1. /\ GraphInv /\ Distinct(ordered) /\ ordered \in Seq(Nodes \ {FIRST}) /\ Len(ordered) \in Nat
      /\ Elems(ordered) = visited \ {FIRST}
      /\ \A a \in Nodes \ {FIRST} : \A s \in Sides : graph[a][s] \in visited => OutputBefore(a, graph[a][s])
      /\ Len(ordered) = Cardinality(Nodes) - 1
  BY DEF SortInv, OutputInv, SortType
<1>2. Elems(ordered) = Nodes \ {FIRST}
  <2>1. /\ IsFiniteSet(Nodes \ {FIRST})
        /\ Cardinality(Nodes \ {FIRST}) = Cardinality(Nodes) - 1
    BY <1>1, NodesAreNumbers, FS_RemoveElement
  <2>2. {ordered[i] : i \in 1 .. Len(ordered)} = Nodes \ {FIRST}
    BY ONLY <1>1, <2>1, DistinctLength
  <2> QED
    BY <2>2 DEF Elems
<1>3. /\ Len(c) \in Nat
      /\ \A k \in 1 .. Len(c) : c[k] \in Nodes /\ c[k] # FIRST
      /\ \A k \in 0 .. Len(c) : graph[At(c, k)][l] = At(c, k + 1)
      /\ Precedes(l, m, n) <=> \E j \in 1 .. Len(c) : \E i \in 1 .. j - 1 : c[i] = m /\ c[j] = n
  BY <1>1, ChainFacts, ReferenceChain
<1> HIDE DEF c
<1>4. PICK j \in 1 .. Len(c) : \E i \in 1 .. j - 1 : c[i] = m /\ c[j] = n
  BY <1>3
<1>5. PICK i \in 1 .. j - 1 : c[i] = m /\ c[j] = n
  BY <1>4
<1>6. ASSUME NEW k \in 1 .. Len(c), k + 1 <= Len(c) PROVE OutputBefore(c[k], c[k + 1])
  <2>1. k + 1 \in 1 .. Len(c) /\ k \in 0 .. Len(c) /\ At(c, k) = c[k] /\ At(c, k + 1) = c[k + 1]
    BY <1>3, <1>6 DEF At
  <2>2. graph[c[k]][l] = c[k + 1] /\ c[k + 1] \in visited
    BY <1>1, <1>2, <1>3, <2>1
  <2> QED
    BY <1>1, <1>3, <2>2
<1>7. ASSUME NEW a, NEW b, NEW e, OutputBefore(a, b), OutputBefore(b, e) PROVE OutputBefore(a, e)
  <2>1. PICK p2 \in 1 .. Len(ordered) : \E p1 \in 1 .. p2 - 1 : ordered[p1] = a /\ ordered[p2] = b
    BY <1>7 DEF OutputBefore
  <2>2. PICK p1 \in 1 .. p2 - 1 : ordered[p1] = a /\ ordered[p2] = b
    BY <2>1
  <2>3. PICK p4 \in 1 .. Len(ordered) : \E p3 \in 1 .. p4 - 1 : ordered[p3] = b /\ ordered[p4] = e
    BY <1>7 DEF OutputBefore
  <2>4. PICK p3 \in 1 .. p4 - 1 : ordered[p3] = b /\ ordered[p4] = e
    BY <2>3
  <2>5. p3 \in 1 .. Len(ordered)
    BY <1>1
  <2>6. p2 = p3
    BY <1>1, <2>2, <2>4, <2>5 DEF Distinct
  <2>7. p1 \in 1 .. p4 - 1
    BY <1>1, <2>6
  <2> QED
    BY <2>2, <2>4, <2>7 DEF OutputBefore
<1> DEFINE S == {k \in Nat : i < k /\ k <= Len(c) /\ ~OutputBefore(c[i], c[k])}
<1>8. S = {}
  <2> SUFFICES ASSUME S # {} PROVE FALSE
    OBVIOUS
  <2>1. PICK k \in S : \A k2 \in S : k <= k2
    BY Least
  <2>2. i \in 1 .. Len(c) /\ i \in Nat /\ k \in Nat /\ i < k /\ k <= Len(c) /\ ~OutputBefore(c[i], c[k])
    BY <1>3, <2>1
  <2> HIDE DEF S
  <2>3. CASE k = i + 1
    BY <1>6, <2>2, <2>3
  <2>4. CASE k # i + 1
    <3>1. k - 1 \in Nat /\ i < k - 1 /\ k - 1 <= Len(c) /\ ~(k <= k - 1) /\ (k - 1) + 1 = k
          /\ k - 1 \in 1 .. Len(c)
      BY <1>3, <2>2, <2>4
    <3>2. OutputBefore(c[i], c[k - 1])
      BY <2>1, <3>1 DEF S
    <3>3. OutputBefore(c[k - 1], c[(k - 1) + 1])
      BY <1>6, <2>2, <3>1
    <3> QED
      BY <1>7, <2>2, <3>1, <3>2, <3>3
  <2> QED
    BY <2>3, <2>4
<1>9. j \in Nat /\ i < j /\ j <= Len(c)
  BY <1>3
<1> QED
  BY <1>5, <1>8, <1>9

(* An order that toposort returns puts every two nodes of a side in the    *)
(* order of that side, however far apart they are.                         *)
THEOREM OrderAlwaysPreserved == Spec => []OrderPreserved
<1>1. SortInv => OrderPreserved
  BY OutputKeepsOrder DEF OrderPreserved
<1> QED
  BY <1>1, SortInvariant, PTL

LEMMA CyclicMeansReordered == SortInv => CyclicIffReordered
<1>1. SortInv => CyclicIffReordered
  <2> SUFFICES ASSUME SortInv, pc = "sorted"
               PROVE  cyclic <=> Reordered
    BY DEF CyclicIffReordered, Reordered
  <2>1. cyclic => Reordered
    BY DEF SortInv, WalkInv
  <2>2. ASSUME ~cyclic, NEW m \in Nodes, NEW n \in Nodes,
               Precedes("head", m, n), Precedes("update", n, m)
        PROVE  FALSE
    <3>1. OutputBefore(m, n) /\ OutputBefore(n, m)
      BY <2>2, OutputKeepsOrder DEF Sides
    <3>2. Distinct(ordered) /\ Len(ordered) \in Nat
      BY <2>2 DEF SortInv, OutputInv, SortType
    <3>3. PICK j1 \in 1 .. Len(ordered) : \E i1 \in 1 .. j1 - 1 : ordered[i1] = m /\ ordered[j1] = n
      BY <3>1 DEF OutputBefore
    <3>4. PICK i1 \in 1 .. j1 - 1 : ordered[i1] = m /\ ordered[j1] = n
      BY <3>3
    <3>5. PICK j2 \in 1 .. Len(ordered) : \E i2 \in 1 .. j2 - 1 : ordered[i2] = n /\ ordered[j2] = m
      BY <3>1 DEF OutputBefore
    <3>6. PICK i2 \in 1 .. j2 - 1 : ordered[i2] = n /\ ordered[j2] = m
      BY <3>5
    <3>7. i1 \in 1 .. Len(ordered) /\ i2 \in 1 .. Len(ordered)
      BY <3>2
    <3>8. i1 = j2 /\ i2 = j1
      BY <3>2, <3>4, <3>6, <3>7 DEF Distinct
    <3> QED
      BY <3>2, <3>8
  <2> QED
    BY <2>1, <2>2 DEF Reordered, SortInv, SortType
<1> QED
  BY <1>1

(* The ValueError of toposort and a pair of entities in opposite orders    *)
(* are the same thing: a REORDER conflict is reported for nothing less,    *)
(* and for all of that.                                                    *)
THEOREM CyclicAlwaysIffReordered == Spec => []CyclicIffReordered
BY CyclicMeansReordered, SortInvariant, PTL

(* Of two neighbours that toposort was free to swap, the one of pick_first *)
(* comes first.                                                            *)
THEOREM TieBreakAlways == Spec => []TieBreak
<1>1. SortInv => TieBreak
  BY DEF SortInv, TieInv, TieBreak, Swapped
<1> QED
  BY <1>1, SortInvariant, PTL

(* The order of the fallback: the whole chain of pick_first, then the rest *)
(* of the other one, each in its own order.                                *)
THEOREM FallbackOrderAlways == Spec => []FallbackOrder
<1>1. SortInv => FallbackOrder
  <2> DEFINE o == Other[pick_first]
             c == ChainOf(pick_first)
             d == ChainOf(o)
  <2> SUFFICES ASSUME SortInv, pc = "sorted", cyclic, NEW m \in Nodes \ {FIRST}, NEW n \in Nodes \ {FIRST},
                      \/ Precedes(pick_first, m, n)
                      \/ OnChain(pick_first, m) /\ ~OnChain(pick_first, n)
                      \/ ~OnChain(pick_first, m) /\ ~OnChain(pick_first, n) /\ Precedes(o, m, n)
               PROVE  OutputBefore(m, n)
    BY DEF FallbackOrder
  <2>1. /\ Len(c) <= Len(ordered) /\ Len(ordered) \in Nat
        /\ \A i \in 1 .. Len(c) : ordered[i] = c[i]
        /\ \A a : a \in Elems(ordered) <=> a \in Elems(c) \/ \E i \in 1 .. Len(d) : i <= Len(d) + 1 /\ d[i] = a
        /\ \A i, j \in 1 .. Len(d) :
             i < j /\ j <= Len(d) + 1 /\ d[i] \notin Elems(c) /\ d[j] \notin Elems(c) => OutputBefore(d[i], d[j])
    BY DEF SortInv, WalkInv, SecondWalk, SortType
  <2>2. GraphInv /\ pick_first \in Sides /\ o \in Sides
    BY OtherSide DEF SortInv, GraphInv
  <2>3. /\ Len(c) \in Nat /\ Len(d) \in Nat
        /\ \A a \in Nodes : OnChain(pick_first, a) <=> \E k \in 1 .. Len(c) : c[k] = a
        /\ \A a \in Nodes : OnChain(o, a) <=> \E k \in 1 .. Len(d) : d[k] = a
        /\ Precedes(pick_first, m, n) <=> \E j \in 1 .. Len(c) : \E i \in 1 .. j - 1 : c[i] = m /\ c[j] = n
        /\ Precedes(o, m, n) <=> \E j \in 1 .. Len(d) : \E i \in 1 .. j - 1 : d[i] = m /\ d[j] = n
    <3>1. ASSUME NEW l \in Sides
          PROVE  /\ Len(ChainOf(l)) \in Nat
                 /\ \A a \in Nodes : OnChain(l, a) <=> \E k \in 1 .. Len(ChainOf(l)) : ChainOf(l)[k] = a
                 /\ Precedes(l, m, n) <=> \E j \in 1 .. Len(ChainOf(l)) : \E i \in 1 .. j - 1 :
                                            ChainOf(l)[i] = m /\ ChainOf(l)[j] = n
      BY <2>2, ChainFacts, ReferenceChain
    <3> HIDE DEF o
    <3> QED
      BY <2>2, <3>1
  <2>4. OnChain(pick_first, n) \/ OnChain(o, n)
    BY <2>2, EveryNodeOnAChain
  <2> HIDE DEF c, d, o
  <2>5. \A a \in Nodes : OnChain(pick_first, a) <=> a \in Elems(c)
    BY <2>3 DEF Elems
  <2>6. CASE Precedes(pick_first, m, n)
    <3>1. PICK j \in 1 .. Len(c) : \E i \in 1 .. j - 1 : c[i] = m /\ c[j] = n
      BY <2>3, <2>6
    <3>2. PICK i \in 1 .. j - 1 : c[i] = m /\ c[j] = n
      BY <3>1
    <3>3. i \in 1 .. Len(c) /\ j \in 1 .. Len(ordered)
      BY <2>1, <2>3
    <3> QED
      BY <2>1, <3>2, <3>3 DEF OutputBefore
  <2>7. CASE OnChain(pick_first, m) /\ ~OnChain(pick_first, n)
    <3>1. PICK i \in 1 .. Len(c) : c[i] = m
      BY <2>3, <2>7
    <3>2. n \in Elems(ordered)
      <4>1. PICK k \in 1 .. Len(d) : d[k] = n
        BY <2>3, <2>4, <2>7
      <4>2. k <= Len(d) + 1
        BY <2>3
      <4> QED
        BY <2>1, <4>1, <4>2
    <3>3. PICK j \in 1 .. Len(ordered) : ordered[j] = n
      BY <3>2 DEF Elems
    <3>4. ~(j <= Len(c))
      BY <2>1, <2>3, <2>7, <3>3
    <3>5. i \in 1 .. j - 1
      BY <2>1, <2>3, <3>4
    <3> QED
      BY <2>1, <3>1, <3>3, <3>5 DEF OutputBefore
  <2>8. CASE ~OnChain(pick_first, m) /\ ~OnChain(pick_first, n) /\ Precedes(o, m, n)
    <3>1. PICK j \in 1 .. Len(d) : \E i \in 1 .. j - 1 : d[i] = m /\ d[j] = n
      BY <2>3, <2>8
    <3>2. PICK i \in 1 .. j - 1 : d[i] = m /\ d[j] = n
      BY <3>1
    <3>3. i \in 1 .. Len(d) /\ i < j /\ j <= Len(d) + 1
      BY <2>3
    <3>4. d[i] \notin Elems(c) /\ d[j] \notin Elems(c)
      BY <2>5, <2>8, <3>2
    <3> QED
      BY <2>1, <3>2, <3>3, <3>4
  <2> QED
    BY <2>6, <2>7, <2>8
<1> QED
  BY <1>1, SortInvariant, PTL

---------------------------------------------------------------------------
(* GraphInv says what MatchGraphs enumerates, up to MaxNodes nodes.        *)

(* A chain of the built graph is one of those that GraphSort enumerates.   *)
LEMMA ChainIsListed ==
  ASSUME GraphInv, NEW n \in Nat, Nodes = 0 .. n, NEW l \in Sides
  PROVE  LET c == ChainOf(l) IN
         /\ c \in Chains(n)
         /\ \A m \in Nodes : graph[m][l] = IF Visits(c, m) THEN NextIn(c, m) ELSE NONE
<1> DEFINE d == ChainOf(l)
<1> PICK c : c = d
  OBVIOUS
<1> HIDE DEF d
<1>1. /\ c \in Seq(Nodes \ {FIRST}) /\ Len(c) \in Nat /\ Distinct(c)
      /\ \A k \in 0 .. Len(c) : graph[At(c, k)][l] = At(c, k + 1)
      /\ \A m \in Nodes \ {FIRST} :
           (\A k \in 1 .. Len(c) : c[k] # m) => graph[m][l] = NONE
  BY ChainFacts DEF d
<1>2. Nodes \ {FIRST} = 1 .. n
  BY DEF FIRST
<1>3. c \in [1 .. Len(c) -> 1 .. n] /\ DOMAIN c = 1 .. Len(c)
  BY <1>1, <1>2
<1>4. Len(c) <= n
  <2>1. IsFiniteSet(1 .. n) /\ Cardinality(1 .. n) = n
    BY FS_Interval
  <2>2. c \in Seq(1 .. n)
    BY <1>1, <1>2
  <2> QED
    BY ONLY <1>1, <2>1, <2>2, DistinctLength
<1>5. c \in Chains(n)
  <2>1. \A i, j \in DOMAIN c : c[i] = c[j] => i = j
    BY <1>1, <1>3 DEF Distinct
  <2>2. Len(c) \in 0 .. n
    BY <1>1, <1>4
  <2> QED
    BY <1>3, <2>1, <2>2 DEF Chains
<1>6. \A k \in 0 .. Len(c) : NextIn(c, At(c, k)) = At(c, k + 1)
  BY <1>5, NextInChain
<1>7. ASSUME NEW m \in Nodes
      PROVE  graph[m][l] = IF Visits(c, m) THEN NextIn(c, m) ELSE NONE
  <2>1. CASE Visits(c, m)
    <3>1. PICK k \in 0 .. Len(c) : m = At(c, k)
      <4>1. CASE m = FIRST
        BY <1>1, <4>1 DEF At
      <4>2. CASE m # FIRST
        <5>1. PICK i \in 1 .. Len(c) : c[i] = m
          BY <1>3, <2>1, <4>2 DEF Visits
        <5> QED
          BY <1>1, <5>1 DEF At
      <4> QED
        BY <4>1, <4>2
    <3> QED
      BY <1>1, <1>6, <2>1, <3>1
  <2>2. CASE ~Visits(c, m)
    BY <1>1, <1>3, <2>2 DEF Visits
  <2> QED
    BY <2>1, <2>2
<1> QED
  BY <1>5, <1>7 DEF d

LEMMA GraphIsListed ==
  ASSUME GraphInv, Cardinality(Nodes) <= MaxNodes + 1
  PROVE  IsMatchGraph
<1>1. PICK n \in Nat : Nodes = 0 .. n
  BY DEF GraphInv
<1>2. Cardinality(0 .. n) = n + 1
  BY FS_Interval
<1>3. n \in 0 .. MaxNodes
  BY <1>1, <1>2, MaxNodesAssumption
<1> DEFINE h == ChainOf("head")
           u == ChainOf("update")
<1>4. /\ h \in Chains(n) /\ u \in Chains(n)
      /\ \A m \in Nodes :
           /\ graph[m]["head"] = IF Visits(h, m) THEN NextIn(h, m) ELSE NONE
           /\ graph[m]["update"] = IF Visits(u, m) THEN NextIn(u, m) ELSE NONE
  BY <1>1, ChainIsListed DEF Sides
<1>5. graph = TwoChains(n, h, u)
  <2> HIDE DEF h, u
  <2>1. graph \in [0 .. n -> [{"head", "update"} -> (Nodes \ {FIRST}) \cup {NONE}]]
    BY <1>1 DEF GraphInv, Sides
  <2>2. \A m \in 0 .. n : graph[m] = [head |-> graph[m]["head"], update |-> graph[m]["update"]]
    BY <2>1
  <2> QED
    BY <1>1, <1>4, <2>1, <2>2 DEF TwoChains
<1>6. ASSUME NEW m \in 1 .. n PROVE Visits(h, m) \/ Visits(u, m)
  <2>1. m \in Nodes \ {FIRST}
    BY <1>1 DEF FIRST
  <2>2. PICK l \in Sides : \E k \in Nodes : graph[k][l] = m
    BY <2>1 DEF GraphInv
  <2>3. DOMAIN ChainOf(l) = 1 .. Len(ChainOf(l))
    BY ChainFacts
  <2>4. \E i \in DOMAIN ChainOf(l) : ChainOf(l)[i] = m
    BY <2>1, <2>2, <2>3, PredecessorInChain, NodesAreNumbers
  <2> QED
    BY <2>2, <2>4 DEF Visits, Sides
<1>7. graph \in MatchGraphs(n)
  <2> HIDE DEF h, u
  <2>1. <<h, u>> \in Chains(n) \X Chains(n) /\ <<h, u>>[1] = h /\ <<h, u>>[2] = u
    BY <1>4
  <2> QED
    BY <1>5, <1>6, <2>1, Zenon DEF MatchGraphs
<1> QED
  BY <1>3, <1>7 DEF IsMatchGraph
=============================================================================
