---------------------------- MODULE MergerProofs ----------------------------
(***************************************************************************)
(* Theorems of Merger, for objects of any depth, any comparators, any      *)
(* operations and any rules.                                               *)
(***************************************************************************)
EXTENDS Merger, DictMergeProofs

---------------------------------------------------------------------------
(* The path of a list, and the entity that it is in.                       *)

PathSet == Seq(Keys \cup Nat)

IsEntityPath(cp) == cp \in PathSet /\ (cp = <<>> \/ Last(cp) \in Nat)

LEMMA KeyPaths == Seq(Keys) \subseteq PathSet
BY DEF PathSet

(* Two paths, of one after the other.                                      *)
LEMMA PartsOf ==
  ASSUME NEW p \in PathSet, NEW f \in PathSet
  PROVE  /\ p \o f \in PathSet /\ Len(p) \in 0 .. Len(p \o f)
         /\ SubSeq(p \o f, 1, Len(p)) = p
         /\ SubSeq(p \o f, Len(p) + 1, Len(p \o f)) = f
<1> DEFINE X == Keys \cup Nat
           q == p \o f
<1>1. p \in Seq(X) /\ f \in Seq(X) /\ Len(p) \in Nat /\ Len(f) \in Nat
  BY DEF PathSet
<1>2. /\ q \in Seq(X) /\ Len(q) = Len(p) + Len(f)
      /\ \A i \in 1 .. Len(p) + Len(f) : q[i] = IF i <= Len(p) THEN p[i] ELSE f[i - Len(p)]
  BY <1>1, ConcatProperties
<1>3. Len(p) \in 0 .. Len(q)
  BY <1>1, <1>2
<1> HIDE DEF q
<1>4. SubSeq(q, 1, Len(p)) = p
  <2>1. /\ SubSeq(q, 1, Len(p)) \in Seq(X) /\ Len(SubSeq(q, 1, Len(p))) = Len(p)
        /\ \A i \in 1 .. Len(p) : SubSeq(q, 1, Len(p))[i] = q[i]
    BY <1>2, <1>3, PrefixEffect
  <2>2. \A i \in 1 .. Len(p) : q[i] = p[i]
    BY <1>1, <1>2
  <2> QED
    BY <1>1, <2>1, <2>2, SeqEqual
<1>5. SubSeq(q, Len(p) + 1, Len(q)) = f
  <2> DEFINE s == SubSeq(q, Len(p) + 1, Len(q))
  <2>1. /\ s \in Seq(X)
        /\ Len(s) = IF Len(p) + 1 <= Len(q) THEN Len(q) - (Len(p) + 1) + 1 ELSE 0
        /\ \A i \in 1 .. Len(q) - (Len(p) + 1) + 1 : s[i] = q[Len(p) + 1 + i - 1]
    <3>1. Len(p) + 1 \in Int /\ Len(q) \in Int
      BY <1>1, <1>2
    <3>2. \A i \in Len(p) + 1 .. Len(q) : q[i] \in X
      BY <1>1, <1>2
    <3> QED
      BY <3>1, <3>2, SubSeqProperties
  <2> HIDE DEF s
  <2>2. Len(s) = Len(f)
    BY <1>1, <1>2, <2>1
  <2>3. ASSUME NEW i \in 1 .. Len(f) PROVE s[i] = f[i]
    <3>1. /\ i \in 1 .. Len(q) - (Len(p) + 1) + 1 /\ Len(p) + 1 + i - 1 = Len(p) + i
          /\ Len(p) + i \in 1 .. Len(p) + Len(f) /\ ~(Len(p) + i <= Len(p))
          /\ (Len(p) + i) - Len(p) = i
      BY <1>1, <1>2
    <3> QED
      BY <1>2, <2>1, <3>1
  <2> QED
    BY <1>1, <2>1, <2>2, <2>3, SeqEqual DEF s
<1> QED
  BY <1>2, <1>3, <1>4, <1>5 DEF q, PathSet

LEMMA EntityPathOf ==
  ASSUME NEW cp, IsEntityPath(cp), NEW f \in Seq(Keys)
  PROVE  /\ cp \o f \in PathSet
         /\ EntityPath(cp \o f) = cp
         /\ SubSeq(cp \o f, Len(cp) + 1, Len(cp \o f)) = f
<1> DEFINE q == cp \o f
           X == {0} \cup {i \in DOMAIN q : q[i] \notin Keys}
<1>1. /\ cp \in Seq(Keys \cup Nat) /\ f \in Seq(Keys \cup Nat)
      /\ Len(cp) \in Nat /\ Len(f) \in Nat
  BY KeyPaths DEF IsEntityPath, PathSet
<1>2. /\ q \in Seq(Keys \cup Nat) /\ Len(q) = Len(cp) + Len(f)
      /\ \A i \in 1 .. Len(cp) + Len(f) : q[i] = IF i <= Len(cp) THEN cp[i] ELSE f[i - Len(cp)]
  BY <1>1, ConcatProperties
<1> HIDE DEF q
<1>3. \A i \in X : i \in Nat /\ i <= Len(cp)
  <2> SUFFICES ASSUME NEW i \in 1 .. Len(q), ~(i <= Len(cp))
               PROVE  q[i] \in Keys
    BY <1>1, <1>2
  <2>1. i - Len(cp) \in 1 .. Len(f) /\ q[i] = f[i - Len(cp)]
    BY <1>1, <1>2
  <2> QED
    BY <2>1
<1>4. Len(cp) \in X
  <2>1. CASE cp = <<>>
    BY <2>1
  <2>2. CASE cp # <<>>
    <3>1. Len(cp) # 0 /\ Last(cp) = cp[Len(cp)] /\ Last(cp) \in Nat
      BY <1>1, <2>2 DEF Last, IsEntityPath
    <3>2. Len(cp) \in DOMAIN q /\ q[Len(cp)] = cp[Len(cp)]
      BY <1>1, <1>2, <3>1
    <3>3. q[Len(cp)] \notin Keys
      BY <3>1, <3>2, KeysAssumption
    <3> QED
      BY <3>2, <3>3
  <2> QED
    BY <2>1, <2>2
<1>5. Max(X) = Len(cp)
  <2> HIDE DEF X
  <2>1. \A x \in X : Len(cp) >= x
    BY <1>1, <1>3
  <2>2. \A x \in X : (\A y \in X : x >= y) => x = Len(cp)
    BY <1>1, <1>3, <1>4
  <2> QED
    BY <1>4, <2>1, <2>2 DEF Max
<1>6. SubSeq(q, 1, Len(cp)) = cp /\ SubSeq(q, Len(cp) + 1, Len(q)) = f
  BY KeyPaths, PartsOf DEF IsEntityPath, q
<1> QED
  BY <1>2, <1>5, <1>6 DEF EntityPath, q, PathSet

---------------------------------------------------------------------------
(* What unify makes of a list of the running call.                         *)

KeptElements == {y \in U!Elements : y[1] \in OpSources[Top.unifier.op]}

UnifierOK ==
  /\ Top.unifier.op \in AllowedOps
  /\ Top.unifier.len["head"] \in Nat /\ Top.unifier.len["update"] \in Nat

LEMMA SourcesOfOp ==
  ASSUME NEW o \in AllowedOps
  PROVE  OpSources[o] \subseteq {"head", "update"}
BY DEF AllowedOps, OpSources

LEMMA KeptElementsAre ==
  ASSUME UnifierOK
  PROVE  /\ \A x \in KeptElements :
              /\ x[1] \in {"head", "update"} /\ x[1] \in OpSources[Top.unifier.op]
              /\ x[2] \in 0 .. Top.unifier.len[x[1]] - 1 /\ x = <<x[1], x[2]>>
              /\ x \in U!Class(x) /\ x[2] \in U!Hits(U!Class(x), x[1])
         /\ \A l \in OpSources[Top.unifier.op] : \A i \in 0 .. Top.unifier.len[l] - 1 :
              <<l, i>> \in KeptElements
<1>1. ASSUME NEW x \in KeptElements
      PROVE  /\ x[1] \in {"head", "update"} /\ x[1] \in OpSources[Top.unifier.op]
             /\ x[2] \in 0 .. Top.unifier.len[x[1]] - 1 /\ x = <<x[1], x[2]>>
             /\ x \in U!Class(x) /\ x[2] \in U!Hits(U!Class(x), x[1])
  <2>1. x \in U!Elements /\ x[1] \in OpSources[Top.unifier.op]
    BY DEF KeptElements
  <2>2. PICK l \in U!Lists : x \in {l} \X (0 .. Top.unifier.len[l] - 1)
    BY <2>1 DEF U!Elements
  <2>3. x[1] = l /\ x[2] \in 0 .. Top.unifier.len[x[1]] - 1 /\ x = <<x[1], x[2]>>
    BY <2>2
  <2>4. x[1] \in {"head", "update"}
    BY <2>1, SourcesOfOp DEF UnifierOK
  <2>5. x \in U!Class(x)
    BY <2>1 DEF U!Class
  <2>6. x[2] \in U!Hits(U!Class(x), x[1])
    BY <2>3, <2>5 DEF U!Hits
  <2> QED
    BY <2>1, <2>3, <2>4, <2>5, <2>6
<1>2. ASSUME NEW l \in OpSources[Top.unifier.op], NEW i \in 0 .. Top.unifier.len[l] - 1
      PROVE  <<l, i>> \in KeptElements
  <2>1. l \in U!Lists
    BY SourcesOfOp DEF UnifierOK, U!Lists
  <2> QED
    BY <2>1 DEF KeptElements, U!Elements
<1> QED
  BY <1>1, <1>2

LEMMA NodesAre ==
  /\ \A t : t \in U!Nodes <=>
       \E x \in KeptElements : U!Unambiguous(U!Class(x)) /\ t \in U!Triples(U!Class(x))
  /\ \A t : t \in U!Ambiguous <=>
       \E x \in KeptElements : ~U!Unambiguous(U!Class(x)) /\ t \in U!Triples(U!Class(x))
<1>1. \A X : X \in U!Classes <=> \E x \in KeptElements : X = U!Class(x)
  BY DEF U!Classes, KeptElements
<1> QED
  BY <1>1 DEF U!Nodes, U!Ambiguous

(* An entity is in a triple of its class, and every triple of its class    *)
(* has an entity of its list.                                              *)
LEMMA TriplesOfKept ==
  ASSUME UnifierOK, NEW x \in KeptElements
  PROVE  /\ \E t \in U!Triples(U!Class(x)) : t[x[1]] = x[2]
         /\ \A t \in U!Triples(U!Class(x)) :
              DOMAIN t = Sides /\ t[x[1]] \in 0 .. Top.unifier.len[x[1]] - 1
<1> DEFINE C(l) == U!Candidates(U!Class(x), l)
<1>1. \A l : \E c : c \in C(l)
  BY DEF U!Candidates
<1>2. /\ x[1] \in {"head", "update"} /\ x[2] \in U!Hits(U!Class(x), x[1])
  BY KeptElementsAre
<1>3. C(x[1]) = U!Hits(U!Class(x), x[1])
  BY <1>2 DEF U!Candidates
<1>4. PICK r, h, u : /\ r \in C("root") /\ h \in C("head") /\ u \in C("update")
  BY <1>1
<1>5. U!Triples(U!Class(x)) = [root : C("root"), head : C("head"), update : C("update")]
  BY DEF U!Triples
<1> HIDE DEF C
<1>6. \E t \in U!Triples(U!Class(x)) : t[x[1]] = x[2]
  <2>1. CASE x[1] = "head"
    <3> DEFINE t == [root |-> r, head |-> x[2], update |-> u]
    <3>1. t \in U!Triples(U!Class(x)) /\ t["head"] = x[2]
      BY <1>2, <1>3, <1>4, <1>5, <2>1
    <3> QED
      BY <2>1, <3>1
  <2>2. CASE x[1] = "update"
    <3> DEFINE t == [root |-> r, head |-> h, update |-> x[2]]
    <3>1. t \in U!Triples(U!Class(x)) /\ t["update"] = x[2]
      BY <1>2, <1>3, <1>4, <1>5, <2>2
    <3> QED
      BY <2>2, <3>1
  <2> QED
    BY <1>2, <2>1, <2>2
<1>7. ASSUME NEW t \in U!Triples(U!Class(x))
      PROVE  DOMAIN t = Sides /\ t[x[1]] \in 0 .. Top.unifier.len[x[1]] - 1
  <2>1. DOMAIN t = Sides /\ t["head"] \in C("head") /\ t["update"] \in C("update")
    BY <1>5 DEF Sides
  <2>2. t[x[1]] \in U!Hits(U!Class(x), x[1])
    BY <1>2, <1>3, <2>1
  <2> QED
    BY <2>1, <2>2 DEF U!Hits
<1> QED
  BY <1>6, <1>7

LEMMA NodesFinite ==
  ASSUME UnifierOK
  PROVE  IsFiniteSet(U!Nodes)
<1> DEFINE n == Top.unifier.len["head"]
           m == Top.unifier.len["update"]
           at(i) == IF i < n THEN <<"head", i>> ELSE <<"update", i - n>>
           f == [i \in 0 .. n + m - 1 |-> CHOOSE t : t \in U!Triples(U!Class(at(i)))]
           R == {f[i] : i \in 0 .. n + m - 1}
<1>1. n \in Nat /\ m \in Nat
  BY DEF UnifierOK
<1>2. IsFiniteSet(0 .. n + m - 1)
  <2>1. 0 \in Int /\ n + m - 1 \in Int
    BY <1>1
  <2> QED
    BY <2>1, FS_Interval
<1>3. IsFiniteSet(R)
  <2>1. f \in Surjection(0 .. n + m - 1, R)
    BY DEF Surjection
  <2> HIDE DEF f, R
  <2> QED
    BY <1>2, <2>1, FS_Surjection
<1>4. U!Nodes \subseteq R
  <2> SUFFICES ASSUME NEW t \in U!Nodes
               PROVE  t \in R
    OBVIOUS
  <2>1. PICK x \in KeptElements : U!Unambiguous(U!Class(x)) /\ t \in U!Triples(U!Class(x))
    BY NodesAre
  <2>2. /\ x[1] \in {"head", "update"} /\ x[2] \in 0 .. Top.unifier.len[x[1]] - 1
        /\ x = <<x[1], x[2]>>
    BY KeptElementsAre
  <2>3. PICK i \in 0 .. n + m - 1 : at(i) = x
    <3>1. CASE x[1] = "head"
      <4>1. x[2] \in 0 .. n + m - 1 /\ x[2] < n
        BY <1>1, <2>2, <3>1
      <4>2. at(x[2]) = x
        BY <2>2, <3>1, <4>1
      <4> QED
        BY <4>1, <4>2
    <3>2. CASE x[1] = "update"
      <4>1. x[2] + n \in 0 .. n + m - 1 /\ ~(x[2] + n < n) /\ x[2] + n - n = x[2]
        BY <1>1, <2>2, <3>2
      <4>2. ASSUME NEW y \in Int, ~(y < n) PROVE at(y) = <<"update", y - n>>
        BY <4>2
      <4>3. at(x[2] + n) = x
        BY <1>1, <2>2, <3>2, <4>1, <4>2
      <4> QED
        BY <4>1, <4>3
    <3> QED
      BY <2>2, <3>1, <3>2
  <2>4. f[i] = CHOOSE v : v \in U!Triples(U!Class(x))
    BY <2>3
  <2>5. f[i] \in U!Triples(U!Class(x))
    BY <2>1, <2>4
  <2>6. f[i] = t
    BY <2>1, <2>5 DEF U!Unambiguous
  <2> QED
    BY <2>3, <2>6
<1> HIDE DEF R
<1> QED
  BY <1>3, <1>4, FS_Subset

(* What is laid out is what is kept of what is placed, all of it.          *)
LEMMA NthPlace ==
  ASSUME NEW n \in Nat, NEW places \in SUBSET (1 .. n)
  PROVE  /\ Cardinality(places) \in Nat
         /\ \A i \in places : \E k \in 1 .. Cardinality(places) : U!Nth(places, k) = i
         /\ \A k \in 1 .. Cardinality(places) : U!Nth(places, k) \in places
<1> DEFINE c == Cardinality(places)
           below(i) == {j \in places : j <= i}
           rank == [i \in places |-> Cardinality(below(i))]
<1>1. /\ IsFiniteSet(places) /\ c \in Nat
      /\ \A i \in places : IsFiniteSet(below(i)) /\ Cardinality(below(i)) \in 1 .. c
  <2>1. IsFiniteSet(1 .. n)
    BY FS_Interval
  <2>2. IsFiniteSet(places) /\ c \in Nat
    BY <2>1, FS_Subset, FS_CardinalityType
  <2>3. ASSUME NEW i \in places
        PROVE  IsFiniteSet(below(i)) /\ Cardinality(below(i)) \in 1 .. c
    <3>1. below(i) \in SUBSET places /\ i \in below(i)
      OBVIOUS
    <3> HIDE DEF below
    <3>2. IsFiniteSet(below(i)) /\ Cardinality(below(i)) <= c
      BY <2>2, <3>1, FS_Subset
    <3>3. Cardinality(below(i)) \in Nat /\ Cardinality(below(i)) # 0
      BY <3>1, <3>2, FS_CardinalityType, FS_EmptySet
    <3> QED
      BY <2>2, <3>2, <3>3
  <2> QED
    BY <2>2, <2>3
<1>2. ASSUME NEW i \in places, NEW j \in places, Cardinality(below(i)) = Cardinality(below(j))
      PROVE  i = j
  <2>0. \A k \in places : k \in Nat
    OBVIOUS
  <2>1. i <= j \/ j <= i
    BY <2>0
  <2>2. CASE i <= j
    <3>0. \A k \in places : k <= i => k <= j
      BY <2>0, <2>2
    <3>4. \A k : k \in below(i) => k \in below(j)
      BY <3>0
    <3>5. j <= j
      BY <2>0
    <3>1. below(i) \in SUBSET below(j) /\ j \in below(j)
      BY <3>4, <3>5
    <3>2. below(i) = below(j)
      BY <1>1, <1>2, <3>1, FS_Subset
    <3>3. j \in below(i)
      BY <3>1, <3>2
    <3> QED
      BY <2>2, <3>3
  <2>3. CASE j <= i
    <3>0. \A k \in places : k <= j => k <= i
      BY <2>0, <2>3
    <3>4. \A k : k \in below(j) => k \in below(i)
      BY <3>0
    <3>5. i <= i
      BY <2>0
    <3>1. below(j) \in SUBSET below(i) /\ i \in below(i)
      BY <3>4, <3>5
    <3>2. below(i) = below(j)
      BY <1>1, <1>2, <3>1, FS_Subset
    <3>3. i \in below(j)
      BY <3>1, <3>2
    <3> QED
      BY <2>3, <3>3
  <2> QED
    BY <2>1, <2>2, <2>3
<1>3. \A i \in places : rank[i] = Cardinality(below(i))
  OBVIOUS
<1>4. rank \in Injection(places, 1 .. c)
  <2>1. rank \in [places -> 1 .. c]
    BY <1>1
  <2> HIDE DEF below, rank
  <2> QED
    BY <1>2, <1>3, <2>1 DEF Injection, IsInjective
<1>5. rank \in Surjection(places, 1 .. c)
  <2>1. IsFiniteSet(1 .. c) /\ Cardinality(1 .. c) = c
    BY <1>1, FS_Interval
  <2> HIDE DEF rank
  <2> QED
    BY <1>4, <2>1, FS_Injection
<1>6. \A k : U!Cardinality(k) = Cardinality(k)
  BY DEF U!Cardinality, Cardinality
<1>7. ASSUME NEW k \in 1 .. c, NEW i \in places, rank[i] = k
      PROVE  U!Nth(places, k) = i
  <2>1. U!Nth(places, k) = CHOOSE j \in places : Cardinality(below(j)) = k
    BY <1>6 DEF U!Nth
  <2> HIDE DEF below
  <2> QED
    BY <1>2, <1>3, <1>7, <2>1
<1>8. ASSUME NEW i \in places
      PROVE  \E k \in 1 .. c : U!Nth(places, k) = i
  BY <1>1, <1>3, <1>7
<1>9. ASSUME NEW k \in 1 .. c
      PROVE  U!Nth(places, k) \in places
  <2>1. PICK i \in places : rank[i] = k
    BY <1>5 DEF Surjection
  <2> QED
    BY <1>7, <2>1
<1> QED
  BY <1>1, <1>8, <1>9

LEMMA PlacedAre ==
  ASSUME UnifierOK, NEW placed \in U!Orders
  PROVE  /\ \E n \in Nat : placed \in [1 .. n -> U!Nodes]
         /\ \A t \in U!Nodes : \E j \in DOMAIN placed : placed[j] = t
<1>1. placed \in U!SetToSeqs(U!Nodes) /\ U!ToSet(placed) = U!Nodes
  BY DEF U!Orders, U!IsOrder
<1>2. U!Cardinality(U!Nodes) \in Nat
  <2>1. Cardinality(U!Nodes) \in Nat
    BY NodesFinite, FS_CardinalityType
  <2> QED
    BY <2>1 DEF U!Cardinality, Cardinality
<1>3. placed \in [1 .. U!Cardinality(U!Nodes) -> U!Nodes]
  BY <1>1 DEF U!SetToSeqs
<1> QED
  BY <1>1, <1>2, <1>3 DEF U!ToSet

LEMMA LaidOutAre ==
  ASSUME UnifierOK, NEW placed \in U!Orders
  PROVE  LET layout == U!LaidOut(placed)
         IN /\ \E n \in Nat : layout \in [1 .. n -> U!Nodes]
            /\ \A j \in U!KeptPlaces(placed) : \E k \in DOMAIN layout : layout[k] = placed[j]
<1> DEFINE kept == U!KeptPlaces(placed)
<1>1. PICK n \in Nat : placed \in [1 .. n -> U!Nodes]
  BY PlacedAre
<1>2. kept \in SUBSET (1 .. n)
  BY <1>1 DEF U!KeptPlaces
<1>3. U!LaidOut(placed) = [k \in 1 .. Cardinality(kept) |-> placed[U!Nth(kept, k)]]
  <2>1. U!Cardinality(kept) = Cardinality(kept)
    BY DEF U!Cardinality, Cardinality
  <2> QED
    BY <2>1 DEF U!LaidOut
<1> HIDE DEF kept
<1>4. /\ Cardinality(kept) \in Nat
      /\ \A i \in kept : \E k \in 1 .. Cardinality(kept) : U!Nth(kept, k) = i
      /\ \A k \in 1 .. Cardinality(kept) : U!Nth(kept, k) \in kept
  BY <1>1, <1>2, NthPlace
<1>5. U!LaidOut(placed) \in [1 .. Cardinality(kept) -> U!Nodes]
  BY <1>1, <1>2, <1>3, <1>4
<1>6. \A j \in kept : \E k \in 1 .. Cardinality(kept) : U!LaidOut(placed)[k] = placed[j]
  BY <1>3, <1>4
<1> QED
  BY <1>4, <1>5, <1>6 DEF kept

(* Every entity of a list that is kept is unified or in a conflict of the  *)
(* list, and every unified triple has one.                                 *)
ShownIn(cs, side, entity) ==
  \E c \in cs :
    \/ c.type = "MANUAL_MERGE" /\ c.path = <<>> /\ c.body[side] = entity
    \/ c.type = "INSERT" /\ (\E k \in Nat : c.path = <<k>>) /\ c.body = entity

LEMMA UnifiedKeeps ==
  ASSUME UnifierOK, NEW placed \in U!Orders, NEW lists
  PROVE  /\ \E n \in Nat : DOMAIN Unified(lists, placed) = 1 .. n
         /\ \A l \in OpSources[Top.unifier.op] : \A i \in 0 .. Top.unifier.len[l] - 1 :
              \/ \E k \in DOMAIN Unified(lists, placed) :
                   Unified(lists, placed)[k][l] = ObjectOf(lists, <<l, i>>)
              \/ ShownIn(ListConflicts(lists, placed), l, ObjectOf(lists, <<l, i>>))
         /\ \A k \in DOMAIN Unified(lists, placed) :
              /\ DOMAIN Unified(lists, placed)[k] = Sides
              /\ \E t : \A side \in Sides :
                   /\ t[side] \in (0 .. Top.unifier.len[side] - 1) \cup {-1}
                   /\ Unified(lists, placed)[k][side] = ObjectOf(lists, <<side, t[side]>>)
              /\ \E l \in OpSources[Top.unifier.op] : \E i \in 0 .. Top.unifier.len[l] - 1 :
                   Unified(lists, placed)[k][l] = ObjectOf(lists, <<l, i>>)
<1> DEFINE layout == U!LaidOut(placed)
           made   == Unified(lists, placed)
<1>1. /\ \E n \in Nat : layout \in [1 .. n -> U!Nodes]
      /\ \A j \in U!KeptPlaces(placed) : \E k \in DOMAIN layout : layout[k] = placed[j]
  BY LaidOutAre
<1>2. made = [k \in DOMAIN layout |-> ObjectsOf(lists, layout[k])]
  BY DEF Unified
<1>3. DOMAIN made = DOMAIN layout /\ \A k \in DOMAIN made : made[k] = ObjectsOf(lists, layout[k])
  BY <1>2
<1>4. \A k \in DOMAIN layout : layout[k] \in U!Nodes
  BY <1>1
<1> HIDE DEF made, layout
<1>5. \A t, l : l \in Sides => ObjectsOf(lists, t)[l] = ObjectOf(lists, <<l, t[l]>>)
  BY DEF ObjectsOf
<1>6. ASSUME NEW l \in OpSources[Top.unifier.op], NEW i \in 0 .. Top.unifier.len[l] - 1
      PROVE  \/ \E k \in DOMAIN made : made[k][l] = ObjectOf(lists, <<l, i>>)
             \/ ShownIn(ListConflicts(lists, placed), l, ObjectOf(lists, <<l, i>>))
  <2> DEFINE x == <<l, i>>
  <2>1. x \in KeptElements /\ x[1] = l /\ x[2] = i /\ l \in {"head", "update"} /\ l \in Sides
    BY <1>6, KeptElementsAre, SourcesOfOp DEF UnifierOK, Sides
  <2>2. PICK t \in U!Triples(U!Class(x)) : t[l] = i
    BY <2>1, TriplesOfKept
  <2>3. ObjectsOf(lists, t)[l] = ObjectOf(lists, x)
    BY <1>5, <2>1, <2>2
  <2> HIDE DEF x
  <2>4. CASE U!Unambiguous(U!Class(x))
    <3>1. t \in U!Nodes
      BY <2>1, <2>2, <2>4, NodesAre
    <3>2. PICK j \in DOMAIN placed : placed[j] = t
      BY <3>1, PlacedAre
    <3>3. CASE j \in U!KeptPlaces(placed)
      <4>1. PICK k \in DOMAIN layout : layout[k] = placed[j]
        BY <1>1, <3>3
      <4>2. made[k] = ObjectsOf(lists, t)
        BY <1>3, <3>2, <4>1
      <4>3. k \in DOMAIN made /\ made[k][l] = ObjectOf(lists, x)
        BY <1>3, <2>3, <4>1, <4>2
      <4> QED
        BY <4>3 DEF x
    <3>4. CASE j \notin U!KeptPlaces(placed)
      <4>1. U!RaisesOnNewUpdate(Top.unifier.op) /\ U!IsNewUpdate(t)
        BY <3>2, <3>4 DEF U!KeptPlaces
      <4>2. l = "update"
        <5>1. t.head = U!NONE
          BY <4>1 DEF U!IsNewUpdate
        <5>2. t[l] # U!NONE
          <6>1. i \in 0 .. Top.unifier.len[l] - 1 /\ Top.unifier.len[l] \in Nat
            BY <2>1 DEF UnifierOK
          <6> QED
            BY <2>2, <6>1 DEF U!NONE
        <5> QED
          BY <2>1, <5>1, <5>2
      <4> DEFINE c == U!Report("INSERT", j - 1, t)
                 d == AsConflict(lists, c)
      <4>3. c \in U!ConflictsOf(placed)
        BY <3>2, <4>1 DEF U!ConflictsOf
      <4>4. d \in ListConflicts(lists, placed)
        BY <4>3 DEF ListConflicts
      <4>5. PICK n \in Nat : placed \in [1 .. n -> U!Nodes]
        BY PlacedAre
      <4>6. j \in Nat /\ ~(j - 1 < 0) /\ (j - 1) + 1 = j
        BY <3>2, <4>5
      <4>7. c.type = "INSERT" /\ c.idx = j - 1 /\ c.body = t
        BY DEF U!Report
      <4> HIDE DEF c
      <4>8. d.type = "INSERT" /\ d.path = <<j>> /\ d.body = ObjectsOf(lists, t).update
        BY <4>6, <4>7 DEF AsConflict, Conflict
      <4> HIDE DEF d
      <4>9. ShownIn(ListConflicts(lists, placed), l, ObjectOf(lists, x))
        BY <2>3, <4>2, <4>4, <4>6, <4>8 DEF ShownIn
      <4> QED
        BY <4>9 DEF x
    <3> QED
      BY <3>3, <3>4
  <2>5. CASE ~U!Unambiguous(U!Class(x))
    <3>1. t \in U!Ambiguous
      BY <2>1, <2>2, <2>5, NodesAre
    <3> DEFINE c == U!Report("MANUAL_MERGE", U!NONE, t)
               d == AsConflict(lists, c)
    <3>2. c \in U!ConflictsOf(placed)
      BY <3>1 DEF U!ConflictsOf
    <3>3. d \in ListConflicts(lists, placed)
      BY <3>2 DEF ListConflicts
    <3>4. c.type = "MANUAL_MERGE" /\ c.idx = -1 /\ c.body = t
      BY DEF U!Report, U!NONE
    <3> HIDE DEF c
    <3>5. d.type = "MANUAL_MERGE" /\ d.path = <<>> /\ d.body = ObjectsOf(lists, t)
      BY <3>4 DEF AsConflict, Conflict
    <3> HIDE DEF d
    <3>6. ShownIn(ListConflicts(lists, placed), l, ObjectOf(lists, x))
      BY <2>3, <3>3, <3>5 DEF ShownIn
    <3> QED
      BY <3>6 DEF x
  <2> QED
    BY <2>4, <2>5
<1>7. ASSUME NEW k \in DOMAIN made
      PROVE  /\ DOMAIN made[k] = Sides
             /\ \E t : \A side \in Sides :
                  /\ t[side] \in (0 .. Top.unifier.len[side] - 1) \cup {-1}
                  /\ made[k][side] = ObjectOf(lists, <<side, t[side]>>)
             /\ \E l \in OpSources[Top.unifier.op] : \E i \in 0 .. Top.unifier.len[l] - 1 :
                  made[k][l] = ObjectOf(lists, <<l, i>>)
  <2> DEFINE t == layout[k]
  <2>1. t \in U!Nodes /\ made[k] = ObjectsOf(lists, t)
    BY <1>3, <1>4
  <2>2. PICK x \in KeptElements : t \in U!Triples(U!Class(x))
    BY <2>1, NodesAre
  <2>3. t[x[1]] \in 0 .. Top.unifier.len[x[1]] - 1
    BY <2>2, TriplesOfKept
  <2>4. x[1] \in OpSources[Top.unifier.op] /\ x[1] \in Sides
    BY <2>2, KeptElementsAre DEF Sides
  <2> HIDE DEF t
  <2>5. DOMAIN made[k] = Sides /\ \A side \in Sides : made[k][side] = ObjectOf(lists, <<side, t[side]>>)
    BY <1>5, <2>1 DEF ObjectsOf
  <2>6. \A side \in Sides : t[side] \in (0 .. Top.unifier.len[side] - 1) \cup {-1}
    <3>1. \A side \in Sides : t[side] \in U!Candidates(U!Class(x), side)
      BY <2>2 DEF U!Triples, Sides
    <3> QED
      BY <3>1 DEF U!Candidates, U!Hits, U!NONE
  <2> QED
    BY <2>3, <2>4, <2>5, <2>6
<1>8. \E n \in Nat : DOMAIN made = 1 .. n
  BY <1>1, <1>3
<1> QED
  BY <1>6, <1>7, <1>8 DEF made

---------------------------------------------------------------------------
(* The invariant.                                                          *)

Field(path) == SubSeq(path, Len(EntityPath(path)) + 1, Len(path))

ValuesOf(obj) == {Get(obj, p) : p \in PathsOf(obj)}
Values(in)    == UNION {ValuesOf(in[side]) : side \in Sides}
Objects(in)   == Values(in) \cup {NOTHING}

(* The keys of a dictionary that root has in the place of a list, too.     *)
Roots(in) == Objects(in) \cup {Base(k) : k \in Keys}

Listed(s) == s \in Seq(Range(s))

(* What a list is unified into, once it is and before its entities are     *)
(* merged as well.                                                         *)
UnifiedAt(st, cl, path) ==
  {st[p] : p \in {path} \cap DOMAIN st}
  \cup {cl[k].unified : k \in {j \in DOMAIN cl : cl[j].at = "elements" /\ AbsolutePath(cl[j]) = path}}

(* The triples that the entity of a path is merged from.                   *)
TriplesAt(in, st, cl, path) ==
  IF path = <<>> THEN {in} ELSE {made[Last(path)] : made \in UnifiedAt(st, cl, Front(path))}

(* The lists of two sides at a field of the objects, their entities kept   *)
(* in what they are unified into, or shown in a conflict.                  *)
ElementsOf(found) ==
  IF IsList(found) THEN Range(found.elems)
  ELSE IF IsDict(found) THEN {Base(k) : k \in Steps(found)} ELSE {}

ElementsAt(obj, field) == ElementsOf(Get(obj, field))

ShownOf(cs, path, side, entity) ==
  \E c \in cs :
    \/ c.type = "MANUAL_MERGE" /\ c.path = path /\ c.body[side] = entity
    \/ c.type = "INSERT" /\ Front(c.path) = path /\ c.body = entity

KeptOf(kept, cs, objects, field, path, made) ==
  /\ \A side \in kept : \A entity \in ElementsAt(objects[side], field) :
       (\E i \in DOMAIN made : made[i][side] = entity) \/ ShownOf(cs, path, side, entity)
  /\ \A i \in DOMAIN made : \E side \in kept : made[i][side] # NOTHING

CallOK(in, c) ==
  /\ DOMAIN c = DOMAIN Call(<<>>, in)
  /\ IsEntityPath(c.path) /\ c.field \in Seq(Keys)
  /\ c.head \in Objects(in) /\ c.update \in Objects(in)
  /\ \A f \in c.lists : f \in Seq(Keys) /\ IsList(Get(c.head, f)) /\ IsList(Get(c.update, f))
  /\ Listed(c.new_list)
  /\ c.at \in {"unify", "elements"} => c.field \in c.lists
  /\ c.at = "unify" => \A side \in {"head", "update"} :
       /\ c.unifier.lists[side] = Get(c[side], c.field)
       /\ c.unifier.len[side] = Len(Get(c[side], c.field).elems)
  /\ c.at = "elements" =>
       /\ Listed(c.unified)
       /\ \A i \in DOMAIN c.unified :
            c.unified[i].head \in Objects(in) /\ c.unified[i].update \in Objects(in)

CallsOK(in, cl) ==
  /\ Listed(cl) /\ cl # <<>>
  /\ \A k \in DOMAIN cl : CallOK(in, cl[k])

(* The calls are those of one entity inside the other.                     *)
CallsNest(cl) ==
  /\ \A k \in 2 .. Len(cl) : cl[k].at = "elements" /\ cl[k - 1].path = ElementPath(cl[k])
  /\ \A j, k \in DOMAIN cl : j < k => Len(AbsolutePath(cl[k])) < Len(cl[j].path)

(* No list is unified twice, and no entity is merged twice.                *)
ListsLeftNew(cl, st) ==
  \A k \in DOMAIN cl : \A p \in DOMAIN st : EntityPath(p) = cl[k].path =>
    cl[k].at # "entry" /\ Field(p) \notin cl[k].lists

IsIn(p, path) == EntityPath(p) # <<>> /\ Front(EntityPath(p)) = path

EntitiesLeftNew(cl, st) ==
  \A k \in DOMAIN cl : \A p \in DOMAIN st :
    cl[k].at = "elements" /\ IsIn(p, AbsolutePath(cl[k])) =>
      Last(EntityPath(p)) \in 0 .. Len(cl[k].new_list) + (IF k = 1 THEN 0 ELSE 1)

(* KeptAt, of a configuration.                                             *)
KeptBy(conf, path) ==
  OpSources[IF DottedPath(path) \in DOMAIN conf.list_merge_ops
            THEN conf.list_merge_ops[DottedPath(path)] ELSE conf.default_list_merge_op]

(* What was unified keeps the entities of the lists it was made of, and so *)
(* does what is being merged.                                              *)
StatKept(in, conf, cl, st, cs, p, made) ==
  \E t \in TriplesAt(in, st, cl, EntityPath(p)) :
    KeptOf(KeptBy(conf, p), cs, t, Field(p), p, made)

StatsKept(in, conf, cl, st, cs) ==
  \A p \in DOMAIN st : StatKept(in, conf, cl, st, cs, p, st[p])

CallKept(in, conf, cl, st, cs, c) ==
  /\ \E t \in TriplesAt(in, st, cl, c.path) : c.head = t.head /\ c.update = t.update
  /\ c.at = "unify" =>
       c.unifier.op \in AllowedOps /\ OpSources[c.unifier.op] = KeptBy(conf, AbsolutePath(c))
  /\ c.at = "elements" =>
       KeptOf(KeptBy(conf, AbsolutePath(c)), cs, c, c.field, AbsolutePath(c), c.unified)

CallsKept(in, conf, cl, st, cs) ==
  \A k \in DOMAIN cl : CallKept(in, conf, cl, st, cs, cl[k])

StackInv(in, conf, cl, st, cs) ==
  /\ CallsOK(in, cl) /\ CallsNest(cl)
  /\ ListsLeftNew(cl, st) /\ EntitiesLeftNew(cl, st)
  /\ StatsKept(in, conf, cl, st, cs) /\ CallsKept(in, conf, cl, st, cs)

KeptInv ==
  /\ inputs \in Inputs /\ config \in Configs
  /\ StackInv(inputs, config, calls, stats, conflicts)
  /\ Merged => Len(calls) = 1 /\ calls[1].at = "lists"

---------------------------------------------------------------------------
(* The values that the merge meets are those of its inputs.                *)

LEMMA ObjectsClosed ==
  ASSUME NEW in \in Inputs
  PROVE  /\ \A side \in Sides : in[side] \in Values(in)
         /\ \A v \in Values(in) : v \notin {NOTHING, Missing} /\ (IsList(v) => v.elems \in Seq(Values(in)))
         /\ \A v \in Objects(in) : \A k \in Steps(v) : Children(v)[k] \in Objects(in)
<1>1. \A side \in Sides : IsJson(in[side])
  BY InputsAssumption DEF Sides
<1>2. ASSUME NEW side \in Sides
      PROVE  /\ in[side] \in ValuesOf(in[side])
             /\ \A v \in ValuesOf(in[side]) :
                  /\ v \notin {NOTHING, Missing}
                  /\ Range(Children(v)) \subseteq ValuesOf(in[side])
                  /\ IsList(v) => v.elems \in Seq(ValuesOf(in[side]))
  <2>1. \A v \in ValuesOf(in[side]) : v = Null \/ v.kind \in {"base", "dict", "list"}
    BY <1>1, <1>2 DEF IsJson, ValuesOf
  <2>2. \A v \in ValuesOf(in[side]) : v \notin {NOTHING, Missing}
    <3>1. NOTHING.kind = "nothing" /\ Missing.kind = "missing" /\ Null.kind = "null"
      BY DEF NOTHING, Missing, Null
    <3> QED
      BY <2>1, <3>1
  <2> QED
    BY <1>1, <1>2, <2>2 DEF IsJson, ValuesOf
<1>3. \A side \in Sides : ValuesOf(in[side]) \subseteq Values(in)
  BY DEF Values
<1>4. ASSUME NEW v \in Values(in)
      PROVE  /\ v \notin {NOTHING, Missing} /\ Range(Children(v)) \subseteq Values(in)
             /\ IsList(v) => v.elems \in Seq(Values(in))
  <2>1. PICK side \in Sides : v \in ValuesOf(in[side])
    BY <1>4 DEF Values
  <2>2. ASSUME IsList(v) PROVE v.elems \in Seq(Values(in))
    <3>1. v.elems \in Seq(ValuesOf(in[side]))
      BY <1>2, <2>1, <2>2
    <3>2. ValuesOf(in[side]) \subseteq Values(in)
      BY <1>3
    <3> QED
      BY <3>1, <3>2
  <2> QED
    BY <1>2, <1>3, <2>1, <2>2
<1>5. Steps(NOTHING) = {}
  BY DEF Steps, Children, NOTHING, IsDict, IsList
<1>6. ASSUME NEW v \in Objects(in), NEW k \in Steps(v)
      PROVE  Children(v)[k] \in Objects(in)
  <2>1. v \in Values(in)
    BY <1>5 DEF Objects
  <2>2. Children(v)[k] \in Range(Children(v))
    BY DEF Steps, Range
  <2> QED
    BY <1>4, <2>1, <2>2 DEF Objects
<1> QED
  BY <1>2, <1>3, <1>4, <1>6

LEMMA RootsClosed ==
  ASSUME NEW in \in Inputs
  PROVE  /\ Objects(in) \subseteq Roots(in)
         /\ \A v \in Roots(in) : IsContainer(v) => v \in Values(in)
         /\ \A v \in Roots(in) : \A k \in Steps(v) : Children(v)[k] \in Roots(in)
<1>1. \A k \in Keys : ~IsContainer(Base(k)) /\ Steps(Base(k)) = {}
  BY DEF Base, IsContainer, IsDict, IsList, Steps, Children
<1>2. ~IsContainer(NOTHING)
  BY DEF NOTHING, IsContainer, IsDict, IsList
<1>3. \A v \in Roots(in) : v \in Objects(in) \/ (~IsContainer(v) /\ Steps(v) = {})
  BY <1>1 DEF Roots
<1>4. \A v \in Objects(in) : \A k \in Steps(v) : Children(v)[k] \in Objects(in)
  BY ObjectsClosed
<1> QED
  BY <1>2, <1>3, <1>4 DEF Roots, Objects

LEMMA ListGot ==
  ASSUME NEW in \in Inputs, NEW obj \in Objects(in), NEW f \in Seq(Keys), IsList(Get(obj, f))
  PROVE  /\ Get(obj, f) \in Values(in) /\ Get(obj, f) # Missing /\ Has(obj, f)
         /\ Get(obj, f).elems \in Seq(Values(in))
<1>1. Get(obj, f) \in Objects(in) \cup {Missing}
  BY ObjectsClosed, GetClosed
<1>2. Get(obj, f) \in Values(in)
  BY <1>1 DEF Objects, NOTHING, Missing, IsList
<1> QED
  BY <1>2, ObjectsClosed DEF Has

---------------------------------------------------------------------------
(* Sequences that grow at an end.                                          *)

LEMMA ListedIs ==
  ASSUME NEW s
  PROVE  Listed(s) <=> \E n \in Nat : s = [i \in 1 .. n |-> s[i]]
<1>1. ASSUME Listed(s) PROVE \E n \in Nat : s = [i \in 1 .. n |-> s[i]]
  BY <1>1 DEF Listed
<1>2. ASSUME NEW n \in Nat, s = [i \in 1 .. n |-> s[i]]
      PROVE  Listed(s)
  <2>1. DOMAIN s = 1 .. n
    BY <1>2
  <2>2. \A i \in 1 .. n : s[i] \in Range(s)
    BY <2>1 DEF Range
  <2>3. s \in [1 .. n -> Range(s)]
    BY <1>2, <2>2
  <2> QED
    BY <2>3 DEF Listed
<1> QED
  BY <1>1, <1>2

LEMMA ListedDomain ==
  ASSUME NEW s, Listed(s)
  PROVE  Len(s) \in Nat /\ DOMAIN s = 1 .. Len(s) /\ \A i \in 1 .. Len(s) : s[i] \in Range(s)
BY DEF Listed

LEMMA ListedIn ==
  ASSUME NEW X, NEW s \in Seq(X)
  PROVE  Listed(s)
<1>1. s = [i \in 1 .. Len(s) |-> s[i]] /\ Len(s) \in Nat
  OBVIOUS
<1> QED
  BY <1>1, ListedIs

LEMMA ListedAppend ==
  ASSUME NEW s, Listed(s), NEW x
  PROVE  Listed(Append(s, x)) /\ Len(Append(s, x)) = Len(s) + 1
<1> DEFINE X == Range(s) \cup {x}
<1>1. s \in Seq(X)
  <2>1. s \in Seq(Range(s)) /\ Range(s) \subseteq X
    BY DEF Listed
  <2> HIDE DEF X
  <2> QED
    BY <2>1
<1>2. x \in X
  OBVIOUS
<1> HIDE DEF X
<1>3. Append(s, x) \in Seq(X) /\ Len(Append(s, x)) = Len(s) + 1
  BY <1>1, <1>2
<1> QED
  BY <1>3, ListedIn

LEMMA TailOf ==
  ASSUME NEW X, NEW s \in Seq(X), Len(s) >= 1
  PROVE  /\ Tail(s) \in Seq(X) /\ Len(Tail(s)) = Len(s) - 1
         /\ \A i \in 1 .. Len(s) - 1 : Tail(s)[i] = s[i + 1]
<1>1. s # <<>> /\ Len(s) \in Nat
  OBVIOUS
<1>2. Tail(s) \in Seq(X) /\ Len(Tail(s)) = Len(s) - 1
  BY <1>1
<1>3. ASSUME NEW i \in 1 .. Len(s) - 1
      PROVE  Tail(s)[i] = s[i + 1]
  BY <1>1
<1> QED
  BY <1>2, <1>3

LEMMA PushEffect ==
  ASSUME NEW s, Listed(s), NEW c
  PROVE  LET t == <<c>> \o s
         IN /\ Listed(t) /\ t # <<>> /\ Len(t) = Len(s) + 1 /\ t[1] = c
            /\ \A k \in 1 .. Len(s) : t[k + 1] = s[k]
<1> DEFINE X == Range(s) \cup {c}
           t == <<c>> \o s
<1>1. s \in Seq(X) /\ Len(s) \in Nat /\ c \in X
  <2>1. s \in Seq(Range(s)) /\ Range(s) \subseteq X
    BY DEF Listed
  <2> HIDE DEF X
  <2>2. s \in Seq(X)
    BY <2>1
  <2> QED
    BY <2>2 DEF X
<1> HIDE DEF X
<1>2. <<c>> \in Seq(X) /\ Len(<<c>>) = 1 /\ <<c>>[1] = c
  BY <1>1
<1>3. /\ t \in Seq(X) /\ Len(t) = 1 + Len(s)
      /\ \A i \in 1 .. 1 + Len(s) : t[i] = IF i <= 1 THEN <<c>>[i] ELSE s[i - 1]
  BY <1>1, <1>2, ConcatProperties
<1> HIDE DEF t
<1>4. t[1] = c /\ t # <<>>
  BY <1>1, <1>2, <1>3
<1>5. ASSUME NEW k \in 1 .. Len(s)
      PROVE  t[k + 1] = s[k]
  <2>1. k + 1 \in 1 .. 1 + Len(s) /\ ~(k + 1 <= 1) /\ (k + 1) - 1 = k
    BY <1>1
  <2> QED
    BY <1>3, <2>1
<1>6. Listed(t)
  BY <1>3, ListedIn
<1> QED
  BY <1>1, <1>3, <1>4, <1>5, <1>6 DEF t

LEMMA ReplaceEffect ==
  ASSUME NEW s, Listed(s), s # <<>>, NEW c
  PROVE  LET t == <<c>> \o Tail(s)
         IN /\ Listed(t) /\ t # <<>> /\ Len(t) = Len(s) /\ Len(s) \in Nat \ {0} /\ t[1] = c
            /\ \A k \in 2 .. Len(s) : t[k] = s[k]
<1> DEFINE t == <<c>> \o Tail(s)
<1>1. s \in Seq(Range(s)) /\ Len(s) \in Nat /\ Len(s) >= 1
  BY DEF Listed
<1>2. /\ Tail(s) \in Seq(Range(s)) /\ Len(Tail(s)) = Len(s) - 1
      /\ \A i \in 1 .. Len(s) - 1 : Tail(s)[i] = s[i + 1]
  BY <1>1, TailOf
<1>3. Listed(Tail(s))
  BY <1>2, ListedIn
<1>4. /\ Listed(t) /\ t # <<>> /\ Len(t) = (Len(s) - 1) + 1 /\ t[1] = c
      /\ \A k \in 1 .. Len(s) - 1 : t[k + 1] = Tail(s)[k]
  BY <1>2, <1>3, PushEffect
<1> HIDE DEF t
<1>5. ASSUME NEW k \in 2 .. Len(s)
      PROVE  t[k] = s[k]
  <2>1. k - 1 \in 1 .. Len(s) - 1 /\ (k - 1) + 1 = k
    BY <1>1
  <2> QED
    BY <1>2, <1>4, <2>1
<1> QED
  BY <1>1, <1>4, <1>5 DEF t

LEMMA ReturnEffect ==
  ASSUME NEW s, Listed(s), Len(s) > 1, NEW c
  PROVE  LET t == <<c>> \o Tail(Tail(s))
         IN /\ Listed(t) /\ t # <<>> /\ Len(t) = Len(s) - 1 /\ Len(s) \in Nat /\ t[1] = c
            /\ \A k \in 2 .. Len(s) - 1 : t[k] = s[k + 1]
<1> DEFINE t == <<c>> \o Tail(Tail(s))
<1>1. s \in Seq(Range(s)) /\ Len(s) \in Nat /\ Len(s) >= 1
  BY DEF Listed
<1>2. /\ Tail(s) \in Seq(Range(s)) /\ Len(Tail(s)) = Len(s) - 1
      /\ \A i \in 1 .. Len(s) - 1 : Tail(s)[i] = s[i + 1]
  BY <1>1, TailOf
<1> DEFINE r == Tail(s)
<1> HIDE DEF r
<1>3. Listed(r) /\ r # <<>>
  <2>1. r \in Seq(Range(s)) /\ Len(r) = Len(s) - 1
    BY <1>2 DEF r
  <2>2. Len(r) # 0
    BY <1>1, <2>1
  <2> QED
    BY <2>1, <2>2, ListedIn
<1>4. /\ Listed(t) /\ t # <<>> /\ Len(t) = Len(s) - 1 /\ t[1] = c
      /\ \A k \in 2 .. Len(s) - 1 : t[k] = Tail(s)[k]
  <2>1. t = <<c>> \o Tail(r) /\ Len(r) = Len(s) - 1
    BY <1>2 DEF r
  <2> HIDE DEF t
  <2>2. /\ Listed(t) /\ t # <<>> /\ Len(t) = Len(r) /\ t[1] = c
        /\ \A k \in 2 .. Len(r) : t[k] = r[k]
    BY <1>3, <2>1, ReplaceEffect
  <2> QED
    BY <2>1, <2>2 DEF r
<1> HIDE DEF t
<1>5. ASSUME NEW k \in 2 .. Len(s) - 1
      PROVE  t[k] = s[k + 1]
  <2>1. k \in 1 .. Len(s) - 1
    BY <1>1
  <2> QED
    BY <1>2, <1>4, <2>1
<1> QED
  BY <1>1, <1>4, <1>5 DEF t

---------------------------------------------------------------------------
(* What a step adds takes nothing away.                                    *)

LEMMA ElementPathIs ==
  ASSUME NEW q \in PathSet, NEW i \in Nat
  PROVE  /\ IsEntityPath(q \o <<i>>) /\ q \o <<i>> # <<>>
         /\ Front(q \o <<i>>) = q /\ Last(q \o <<i>>) = i
         /\ Len(q \o <<i>>) = Len(q) + 1 /\ Len(q) \in Nat
<1>1. q \in Seq(Keys \cup Nat) /\ i \in Keys \cup Nat
  BY DEF PathSet
<1>2. /\ Append(q, i) \in Seq(Keys \cup Nat) /\ Append(q, i) # <<>>
      /\ Len(Append(q, i)) = Len(q) + 1
      /\ Front(Append(q, i)) = q /\ Last(Append(q, i)) = i
      /\ q \o <<i>> = Append(q, i)
  BY <1>1, AppendEffect
<1>3. Len(q) \in Nat
  BY <1>1
<1> QED
  BY <1>2, <1>3 DEF IsEntityPath, PathSet

LEMMA AbsolutePathIs ==
  ASSUME NEW in, NEW c, CallOK(in, c)
  PROVE  /\ AbsolutePath(c) \in PathSet
         /\ EntityPath(AbsolutePath(c)) = c.path /\ Field(AbsolutePath(c)) = c.field
         /\ Len(c.path) \in Nat /\ Len(AbsolutePath(c)) \in Nat
         /\ Len(c.path) <= Len(AbsolutePath(c))
<1>1. IsEntityPath(c.path) /\ c.field \in Seq(Keys)
  BY DEF CallOK
<1>2. /\ AbsolutePath(c) \in PathSet
      /\ EntityPath(AbsolutePath(c)) = c.path /\ Field(AbsolutePath(c)) = c.field
  BY <1>1, EntityPathOf DEF AbsolutePath, Field
<1>3. c.path \in Seq(Keys \cup Nat) /\ c.field \in Seq(Keys \cup Nat)
  BY <1>1, KeyPaths DEF IsEntityPath, PathSet
<1>4. Len(AbsolutePath(c)) = Len(c.path) + Len(c.field)
  BY <1>3, ConcatProperties DEF AbsolutePath
<1>5. Len(c.path) \in Nat /\ Len(c.field) \in Nat
  BY <1>3
<1>6. Len(AbsolutePath(c)) \in Nat /\ Len(c.path) <= Len(AbsolutePath(c))
  <2>1. \A m, n \in Nat : m + n \in Nat /\ m <= m + n
    OBVIOUS
  <2> QED
    BY <1>4, <1>5, <2>1
<1> QED
  BY <1>2, <1>5, <1>6

LEMMA KeptGrows ==
  ASSUME NEW cs, NEW cs2, cs \subseteq cs2,
         NEW kept, NEW objects, NEW field, NEW path, NEW made,
         KeptOf(kept, cs, objects, field, path, made)
  PROVE  KeptOf(kept, cs2, objects, field, path, made)
BY DEF KeptOf, ShownOf

LEMMA KeptOfSame ==
  ASSUME NEW kept \in SUBSET {"head", "update"}, NEW cs, NEW o, NEW t,
         o.head = t.head, o.update = t.update,
         NEW field, NEW path, NEW made, KeptOf(kept, cs, o, field, path, made)
  PROVE  KeptOf(kept, cs, t, field, path, made)
<1>1. \A side \in kept : o[side] = t[side]
  OBVIOUS
<1> QED
  BY <1>1 DEF KeptOf

LEMMA Carried ==
  ASSUME NEW in, NEW conf, NEW cl, NEW st, NEW cs, NEW cl2, NEW st2, NEW cs2,
         \A path : UnifiedAt(st, cl, path) \subseteq UnifiedAt(st2, cl2, path),
         cs \subseteq cs2
  PROVE  /\ \A path : TriplesAt(in, st, cl, path) \subseteq TriplesAt(in, st2, cl2, path)
         /\ \A c : CallKept(in, conf, cl, st, cs, c) => CallKept(in, conf, cl2, st2, cs2, c)
         /\ \A p, made : StatKept(in, conf, cl, st, cs, p, made) =>
              StatKept(in, conf, cl2, st2, cs2, p, made)
<1>1. \A path : TriplesAt(in, st, cl, path) \subseteq TriplesAt(in, st2, cl2, path)
  BY DEF TriplesAt
<1>2. ASSUME NEW c, CallKept(in, conf, cl, st, cs, c)
      PROVE  CallKept(in, conf, cl2, st2, cs2, c)
  <2>1. c.at = "elements" =>
          KeptOf(KeptBy(conf, AbsolutePath(c)), cs2, c, c.field, AbsolutePath(c), c.unified)
    BY <1>2, KeptGrows DEF CallKept
  <2> QED
    BY <1>1, <1>2, <2>1 DEF CallKept
<1>3. ASSUME NEW p, NEW made, StatKept(in, conf, cl, st, cs, p, made)
      PROVE  StatKept(in, conf, cl2, st2, cs2, p, made)
  <2>1. PICK t \in TriplesAt(in, st, cl, EntityPath(p)) :
          KeptOf(KeptBy(conf, p), cs, t, Field(p), p, made)
    BY <1>3 DEF StatKept
  <2>2. KeptOf(KeptBy(conf, p), cs2, t, Field(p), p, made)
    BY <2>1, KeptGrows
  <2> QED
    BY <1>1, <2>1, <2>2 DEF StatKept
<1> QED
  BY <1>1, <1>2, <1>3

(* The running call is replaced by one of the same entity.                 *)
LEMMA ReplacedCalls ==
  ASSUME NEW in, NEW cl, CallsOK(in, cl), CallsNest(cl),
         NEW c, CallOK(in, c), c.path = cl[1].path
  PROVE  LET cl2 == <<c>> \o Tail(cl)
         IN /\ CallsOK(in, cl2) /\ CallsNest(cl2)
            /\ Len(cl) \in Nat \ {0} /\ DOMAIN cl = 1 .. Len(cl) /\ DOMAIN cl2 = DOMAIN cl
            /\ \A k \in DOMAIN cl :
                 /\ (k = 1 /\ cl2[k] = c) \/ (k \in 2 .. Len(cl) /\ cl2[k] = cl[k])
                 /\ cl2[k].path = cl[k].path
<1> DEFINE cl2 == <<c>> \o Tail(cl)
<1>1. /\ Listed(cl2) /\ cl2 # <<>> /\ Len(cl2) = Len(cl) /\ Len(cl) \in Nat \ {0} /\ cl2[1] = c
      /\ \A k \in 2 .. Len(cl) : cl2[k] = cl[k]
  BY ReplaceEffect DEF CallsOK
<1> HIDE DEF cl2
<1>2. DOMAIN cl = 1 .. Len(cl) /\ DOMAIN cl2 = 1 .. Len(cl)
  BY <1>1, ListedDomain DEF CallsOK
<1>3. ASSUME NEW k \in DOMAIN cl2
      PROVE  /\ (k = 1 /\ cl2[k] = c) \/ (k \in 2 .. Len(cl) /\ cl2[k] = cl[k])
             /\ cl2[k].path = cl[k].path /\ k \in DOMAIN cl
  <2>1. k = 1 \/ k \in 2 .. Len(cl)
    BY <1>1, <1>2
  <2> QED
    BY <1>1, <1>2, <2>1
<1>4. CallsOK(in, cl2)
  BY <1>1, <1>3 DEF CallsOK
<1>5. CallsNest(cl2)
  <2>1. ASSUME NEW k \in 2 .. Len(cl2)
        PROVE  cl2[k].at = "elements" /\ cl2[k - 1].path = ElementPath(cl2[k])
    <3>1. k \in 2 .. Len(cl) /\ k - 1 \in DOMAIN cl2 /\ cl2[k] = cl[k]
      BY <1>1, <1>2
    <3>2. cl2[k - 1].path = cl[k - 1].path
      BY <1>3, <3>1
    <3> QED
      BY <3>1, <3>2 DEF CallsNest
  <2>2. ASSUME NEW j \in DOMAIN cl2, NEW k \in DOMAIN cl2, j < k
        PROVE  Len(AbsolutePath(cl2[k])) < Len(cl2[j].path)
    <3>1. k # 1
      BY <1>2, <2>2
    <3>2. cl2[k] = cl[k] /\ k \in DOMAIN cl /\ j \in DOMAIN cl /\ cl2[j].path = cl[j].path
      BY <1>3, <3>1
    <3> QED
      BY <2>2, <3>2 DEF CallsNest
  <2> QED
    BY <2>1, <2>2 DEF CallsNest
<1> QED
  BY <1>1, <1>2, <1>3, <1>4, <1>5 DEF cl2

(* The running call goes on, unifies a list or not.                        *)
LEMMA GoesOn ==
  ASSUME NEW in, NEW conf, NEW cl, NEW st, NEW cs, StackInv(in, conf, cl, st, cs),
         NEW cs2, cs \subseteq cs2,
         NEW c, CallOK(in, c), cl[1].at # "elements",
         c.path = cl[1].path, c.head = cl[1].head, c.update = cl[1].update,
         c.at = "unify" =>
           c.unifier.op \in AllowedOps /\ OpSources[c.unifier.op] = KeptBy(conf, AbsolutePath(c)),
         c.at = "elements" =>
           KeptOf(KeptBy(conf, AbsolutePath(c)), cs2, c, c.field, AbsolutePath(c), c.unified),
         \A p \in DOMAIN st : EntityPath(p) = c.path => c.at # "entry" /\ Field(p) \notin c.lists,
         \A p \in DOMAIN st : c.at = "elements" => ~IsIn(p, AbsolutePath(c))
  PROVE  StackInv(in, conf, <<c>> \o Tail(cl), st, cs2)
<1> DEFINE cl2 == <<c>> \o Tail(cl)
<1>1. /\ CallsOK(in, cl2) /\ CallsNest(cl2)
      /\ Len(cl) \in Nat \ {0} /\ DOMAIN cl = 1 .. Len(cl) /\ DOMAIN cl2 = DOMAIN cl
      /\ \A k \in DOMAIN cl :
           /\ (k = 1 /\ cl2[k] = c) \/ (k \in 2 .. Len(cl) /\ cl2[k] = cl[k])
           /\ cl2[k].path = cl[k].path
  BY ReplacedCalls DEF StackInv
<1> HIDE DEF cl2
<1>2. ListsLeftNew(cl2, st)
  BY <1>1 DEF StackInv, ListsLeftNew
<1>3. EntitiesLeftNew(cl2, st)
  BY <1>1 DEF StackInv, EntitiesLeftNew
<1>4. \A path : UnifiedAt(st, cl, path) \subseteq UnifiedAt(st, cl2, path)
  <2>1. ASSUME NEW k \in DOMAIN cl, cl[k].at = "elements"
        PROVE  k \in DOMAIN cl2 /\ cl2[k] = cl[k]
    BY <1>1, <2>1
  <2> QED
    BY <2>1 DEF UnifiedAt
<1>5. /\ \A path : TriplesAt(in, st, cl, path) \subseteq TriplesAt(in, st, cl2, path)
      /\ \A d : CallKept(in, conf, cl, st, cs, d) => CallKept(in, conf, cl2, st, cs2, d)
      /\ \A p, made : StatKept(in, conf, cl, st, cs, p, made) =>
           StatKept(in, conf, cl2, st, cs2, p, made)
  BY <1>4, Carried
<1>6. StatsKept(in, conf, cl2, st, cs2)
  BY <1>5 DEF StackInv, StatsKept
<1>7. CallsKept(in, conf, cl2, st, cs2)
  <2>1. CallKept(in, conf, cl2, st, cs2, c)
    <3>1. 1 \in DOMAIN cl
      BY <1>1
    <3>2. PICK t \in TriplesAt(in, st, cl, c.path) : c.head = t.head /\ c.update = t.update
      BY <3>1 DEF StackInv, CallsKept, CallKept
    <3>3. t \in TriplesAt(in, st, cl2, c.path)
      BY <1>5, <3>2
    <3> QED
      BY <3>2, <3>3 DEF CallKept
  <2>2. \A k \in DOMAIN cl : CallKept(in, conf, cl2, st, cs2, cl[k])
    BY <1>5 DEF StackInv, CallsKept
  <2> QED
    BY <1>1, <2>1, <2>2 DEF CallsKept
<1> QED
  BY <1>1, <1>2, <1>3, <1>6, <1>7 DEF StackInv, cl2

(* A call of an entity of the running call.                                *)
LEMMA Enters ==
  ASSUME NEW in, NEW conf, NEW cl, NEW st, NEW cs, StackInv(in, conf, cl, st, cs),
         cl[1].at = "elements", Len(cl[1].new_list) < Len(cl[1].unified)
  PROVE  StackInv(in, conf,
                  <<Call(ElementPath(cl[1]), cl[1].unified[Len(cl[1].new_list) + 1])>> \o cl, st, cs)
<1> DEFINE top == cl[1]
           n   == Len(top.new_list)
           A   == AbsolutePath(top)
           t   == top.unified[n + 1]
           c   == Call(A \o <<n + 1>>, t)
           cl2 == <<c>> \o cl
<1>1. /\ Listed(cl2) /\ cl2 # <<>> /\ Len(cl2) = Len(cl) + 1 /\ cl2[1] = c
      /\ \A k \in 1 .. Len(cl) : cl2[k + 1] = cl[k]
  BY PushEffect DEF StackInv, CallsOK
<1>2. /\ Len(cl) \in Nat \ {0} /\ DOMAIN cl = 1 .. Len(cl) /\ 1 \in DOMAIN cl
      /\ DOMAIN cl2 = 1 .. Len(cl) + 1
  <2>1. Listed(cl) /\ cl # <<>>
    BY DEF StackInv, CallsOK
  <2>2. Len(cl) \in Nat /\ DOMAIN cl = 1 .. Len(cl) /\ Len(cl) # 0
    BY <2>1, ListedDomain DEF Listed
  <2>3. DOMAIN cl2 = 1 .. Len(cl) + 1
    BY <1>1, ListedDomain
  <2> QED
    BY <2>2, <2>3
<1>3. CallOK(in, top) /\ top.at = "elements"
  BY <1>2 DEF StackInv, CallsOK
<1>4. /\ c.path = A \o <<n + 1>> /\ c.head = t.head /\ c.update = t.update
      /\ c.at = "entry" /\ c.lists = {} /\ c.field = <<>> /\ c.new_list = <<>>
      /\ DOMAIN c = DOMAIN Call(<<>>, in)
  BY DEF Call
<1> HIDE DEF c, cl2
<1>5. n \in Nat /\ Len(top.unified) \in Nat /\ n + 1 \in DOMAIN top.unified
  <2>1. Listed(top.new_list) /\ Listed(top.unified)
    BY <1>3 DEF CallOK
  <2>2. n \in Nat /\ Len(top.unified) \in Nat /\ DOMAIN top.unified = 1 .. Len(top.unified)
    BY <2>1, ListedDomain
  <2>3. \A i, j \in Nat : i < j => i + 1 \in 1 .. j
    OBVIOUS
  <2> QED
    BY <2>2, <2>3
<1>6. /\ A \in PathSet /\ Len(A) \in Nat /\ Len(top.path) \in Nat /\ Len(top.path) <= Len(A)
  BY <1>3, AbsolutePathIs
<1>7. /\ IsEntityPath(c.path) /\ c.path # <<>> /\ Front(c.path) = A /\ Last(c.path) = n + 1
      /\ Len(c.path) = Len(A) + 1
  <2>1. n + 1 \in Nat
    BY <1>5
  <2> HIDE DEF A, n
  <2> QED
    BY <1>4, <1>6, <2>1, ElementPathIs
<1>8. CallOK(in, c)
  <2>1. t.head \in Objects(in) /\ t.update \in Objects(in)
    BY <1>3, <1>5 DEF CallOK
  <2>2. <<>> \in Seq(Keys) /\ Listed(<<>>)
    <3>1. <<>> \in Seq(Keys)
      OBVIOUS
    <3> QED
      BY <3>1, ListedIn
  <2> QED
    BY <1>4, <1>7, <2>1, <2>2 DEF CallOK
<1>9. ASSUME NEW k \in DOMAIN cl2
      PROVE  \/ k = 1 /\ cl2[k] = c
             \/ k \in 2 .. Len(cl) + 1 /\ k - 1 \in DOMAIN cl /\ cl2[k] = cl[k - 1]
  <2>1. k = 1 \/ (k \in 2 .. Len(cl) + 1 /\ k - 1 \in 1 .. Len(cl) /\ (k - 1) + 1 = k)
    BY <1>2
  <2> QED
    BY <1>1, <1>2, <2>1
<1>10. CallsOK(in, cl2)
  BY <1>1, <1>8, <1>9 DEF StackInv, CallsOK
<1>11. \A k \in DOMAIN cl : Len(AbsolutePath(cl[k])) \in Nat /\ Len(AbsolutePath(cl[k])) < Len(c.path)
  <2> SUFFICES ASSUME NEW k \in DOMAIN cl
               PROVE  Len(AbsolutePath(cl[k])) \in Nat /\ Len(AbsolutePath(cl[k])) < Len(c.path)
    OBVIOUS
  <2>1. Len(AbsolutePath(cl[k])) \in Nat
    BY AbsolutePathIs DEF StackInv, CallsOK
  <2>2. CASE k = 1
    <3>1. Len(AbsolutePath(cl[k])) = Len(A)
      BY <2>2
    <3> QED
      BY <1>6, <1>7, <3>1
  <2>3. CASE k # 1
    <3>1. 1 < k
      BY <1>2, <2>3
    <3>2. Len(AbsolutePath(cl[k])) < Len(top.path)
      BY <1>2, <3>1 DEF StackInv, CallsNest
    <3> QED
      BY <1>6, <1>7, <2>1, <3>2
  <2> QED
    BY <2>2, <2>3
<1>12. CallsNest(cl2)
  <2>1. ASSUME NEW k \in 2 .. Len(cl2)
        PROVE  cl2[k].at = "elements" /\ cl2[k - 1].path = ElementPath(cl2[k])
    <3>1. CASE k = 2
      <4>1. cl2[2] = top /\ cl2[1] = c
        BY <1>1, <1>2
      <4> QED
        BY <1>3, <1>4, <3>1, <4>1 DEF ElementPath
    <3>2. CASE k # 2
      <4>1. k - 1 \in 2 .. Len(cl) /\ k \in DOMAIN cl2 /\ k - 1 \in DOMAIN cl2 /\ k # 1 /\ k - 1 # 1
        BY <1>1, <1>2, <3>2
      <4>2. cl2[k] = cl[k - 1] /\ cl2[k - 1] = cl[(k - 1) - 1]
        BY <1>9, <4>1
      <4> QED
        BY <4>1, <4>2 DEF StackInv, CallsNest
    <3> QED
      BY <3>1, <3>2
  <2>2. ASSUME NEW j \in DOMAIN cl2, NEW k \in DOMAIN cl2, j < k
        PROVE  Len(AbsolutePath(cl2[k])) < Len(cl2[j].path)
    <3>1. k # 1
      BY <1>2, <2>2
    <3>2. k - 1 \in DOMAIN cl /\ cl2[k] = cl[k - 1]
      BY <1>9, <3>1
    <3>3. CASE j = 1
      BY <1>1, <1>11, <3>2, <3>3
    <3>4. CASE j # 1
      <4>1. j - 1 \in DOMAIN cl /\ cl2[j] = cl[j - 1]
        BY <1>9, <3>4
      <4>2. j - 1 < k - 1
        BY <1>2, <2>2
      <4> QED
        BY <3>2, <4>1, <4>2 DEF StackInv, CallsNest
    <3> QED
      BY <3>3, <3>4
  <2> QED
    BY <2>1, <2>2 DEF CallsNest
<1>13. ListsLeftNew(cl2, st)
  <2>1. ASSUME NEW p \in DOMAIN st, EntityPath(p) = c.path
        PROVE  FALSE
    <3>1. IsIn(p, A) /\ Last(EntityPath(p)) = n + 1
      BY <1>7, <2>1 DEF IsIn
    <3>2. n + 1 \in 0 .. n + 0
      BY <1>2, <1>3, <3>1 DEF StackInv, EntitiesLeftNew
    <3> QED
      BY <1>5, <3>2
  <2>2. \A k \in DOMAIN cl : \A p \in DOMAIN st : EntityPath(p) = cl[k].path =>
          cl[k].at # "entry" /\ Field(p) \notin cl[k].lists
    BY DEF StackInv, ListsLeftNew
  <2> QED
    BY <1>9, <2>1, <2>2 DEF ListsLeftNew
<1>14. EntitiesLeftNew(cl2, st)
  <2> SUFFICES ASSUME NEW k \in DOMAIN cl2, NEW p \in DOMAIN st, cl2[k].at = "elements",
                      IsIn(p, AbsolutePath(cl2[k]))
               PROVE  Last(EntityPath(p)) \in 0 .. Len(cl2[k].new_list) + (IF k = 1 THEN 0 ELSE 1)
    BY DEF EntitiesLeftNew
  <2>1. k # 1
    BY <1>1, <1>4
  <2>2. k - 1 \in DOMAIN cl /\ cl2[k] = cl[k - 1]
    BY <1>9, <2>1
  <2>3. Last(EntityPath(p)) \in 0 .. Len(cl[k - 1].new_list) + (IF k - 1 = 1 THEN 0 ELSE 1)
    BY <2>2 DEF StackInv, EntitiesLeftNew
  <2>4. Len(cl[k - 1].new_list) \in Nat
    <3>1. Listed(cl[k - 1].new_list)
      BY <2>2 DEF StackInv, CallsOK, CallOK
    <3> QED
      BY <3>1, ListedDomain
  <2>5. \A m \in Nat : \A i \in 0 .. m + (IF k - 1 = 1 THEN 0 ELSE 1) : i \in 0 .. m + 1
    OBVIOUS
  <2> QED
    BY <2>1, <2>2, <2>3, <2>4, <2>5
<1>15. \A path : UnifiedAt(st, cl, path) \subseteq UnifiedAt(st, cl2, path)
  <2>1. ASSUME NEW k \in DOMAIN cl
        PROVE  k + 1 \in DOMAIN cl2 /\ cl2[k + 1] = cl[k]
    BY <1>1, <1>2
  <2> QED
    BY <2>1 DEF UnifiedAt
<1>16. /\ \A path : TriplesAt(in, st, cl, path) \subseteq TriplesAt(in, st, cl2, path)
       /\ \A d : CallKept(in, conf, cl, st, cs, d) => CallKept(in, conf, cl2, st, cs, d)
       /\ \A p, made : StatKept(in, conf, cl, st, cs, p, made) =>
            StatKept(in, conf, cl2, st, cs, p, made)
  BY <1>15, Carried
<1>17. StatsKept(in, conf, cl2, st, cs)
  BY <1>16 DEF StackInv, StatsKept
<1>18. CallsKept(in, conf, cl2, st, cs)
  <2>1. CallKept(in, conf, cl2, st, cs, c)
    <3>1. top.unified \in UnifiedAt(st, cl, A)
      BY <1>2, <1>3 DEF UnifiedAt
    <3>2. t \in TriplesAt(in, st, cl, c.path)
      BY <1>7, <3>1 DEF TriplesAt
    <3>3. t \in TriplesAt(in, st, cl2, c.path)
      BY <1>16, <3>2
    <3> QED
      BY <1>4, <3>3 DEF CallKept
  <2>2. \A k \in DOMAIN cl : CallKept(in, conf, cl2, st, cs, cl[k])
    BY <1>16 DEF StackInv, CallsKept
  <2> QED
    BY <1>9, <2>1, <2>2 DEF CallsKept
<1>19. StackInv(in, conf, cl2, st, cs)
  BY <1>10, <1>12, <1>13, <1>14, <1>17, <1>18 DEF StackInv
<1> QED
  BY <1>19 DEF c, cl2, ElementPath

(* What head and update keep is configured.                                *)
LEMMA KeptBySides ==
  ASSUME NEW conf \in Configs, NEW path
  PROVE  KeptBy(conf, path) \in SUBSET {"head", "update"}
<1> DEFINE o == IF DottedPath(path) \in DOMAIN conf.list_merge_ops
                THEN conf.list_merge_ops[DottedPath(path)] ELSE conf.default_list_merge_op
<1>1. o \in Range(conf.list_merge_ops) \cup {conf.default_list_merge_op}
  BY DEF Range
<1>2. o \in AllowedOps
  BY <1>1, ConfigsAssumption
<1> QED
  BY <1>2, SourcesOfOp DEF KeptBy

(* The call of an entity ends, and its object goes into the list.          *)
LEMMA Returns ==
  ASSUME NEW in, NEW conf \in Configs, NEW cl, NEW st, NEW cs, StackInv(in, conf, cl, st, cs),
         Len(cl) > 1, cl[1].at # "elements", NEW obj
  PROVE  StackInv(in, conf, <<[cl[2] EXCEPT !.new_list = Append(@, obj)]>> \o Tail(Tail(cl)), st, cs)
<1> DEFINE b   == cl[2]
           d   == [b EXCEPT !.new_list = Append(@, obj)]
           cl2 == <<d>> \o Tail(Tail(cl))
<1>1. /\ Listed(cl2) /\ cl2 # <<>> /\ Len(cl2) = Len(cl) - 1 /\ Len(cl) \in Nat /\ cl2[1] = d
      /\ \A k \in 2 .. Len(cl) - 1 : cl2[k] = cl[k + 1]
  BY ReturnEffect DEF StackInv, CallsOK
<1>2. DOMAIN cl = 1 .. Len(cl) /\ DOMAIN cl2 = 1 .. Len(cl) - 1
  BY <1>1, ListedDomain DEF StackInv, CallsOK
<1>3. 2 \in DOMAIN cl /\ CallOK(in, b) /\ b.at = "elements"
  <2>1. 2 \in 2 .. Len(cl)
    BY <1>1
  <2> QED
    BY <1>2, <2>1 DEF StackInv, CallsOK, CallsNest
<1>4. /\ d.path = b.path /\ d.head = b.head /\ d.update = b.update /\ d.at = b.at
      /\ d.lists = b.lists /\ d.field = b.field /\ d.unifier = b.unifier /\ d.unified = b.unified
      /\ d.new_list = Append(b.new_list, obj) /\ DOMAIN d = DOMAIN b
  BY <1>3 DEF CallOK, Call
<1>5. Listed(b.new_list) /\ Listed(d.new_list) /\ Len(d.new_list) = Len(b.new_list) + 1
  BY <1>3, <1>4, ListedAppend DEF CallOK
<1>6. AbsolutePath(d) = AbsolutePath(b)
  BY <1>4 DEF AbsolutePath
<1> HIDE DEF b, d, cl2
<1>7. CallOK(in, d)
  <2>1. \A side \in {"head", "update"} : d[side] = b[side]
    BY <1>4
  <2> QED
    BY <1>3, <1>4, <1>5, <2>1 DEF CallOK
<1>8. ASSUME NEW k \in DOMAIN cl2
      PROVE  /\ k + 1 \in DOMAIN cl /\ cl2[k].path = cl[k + 1].path
             /\ (k = 1 /\ cl2[k] = d /\ cl[k + 1] = b) \/ (k # 1 /\ cl2[k] = cl[k + 1])
  <2>1. k + 1 \in DOMAIN cl /\ (k = 1 \/ k \in 2 .. Len(cl) - 1)
    BY <1>1, <1>2
  <2> QED
    BY <1>1, <1>4, <2>1 DEF b
<1>9. CallsOK(in, cl2)
  BY <1>1, <1>7, <1>8 DEF StackInv, CallsOK
<1>10. CallsNest(cl2)
  <2>1. ASSUME NEW k \in 2 .. Len(cl2)
        PROVE  cl2[k].at = "elements" /\ cl2[k - 1].path = ElementPath(cl2[k])
    <3>1. k \in DOMAIN cl2 /\ k - 1 \in DOMAIN cl2 /\ k # 1 /\ k + 1 \in 2 .. Len(cl)
          /\ (k - 1) + 1 = (k + 1) - 1
      BY <1>1, <1>2
    <3>2. cl2[k] = cl[k + 1] /\ cl2[k - 1].path = cl[(k + 1) - 1].path
      BY <1>8, <3>1
    <3> QED
      BY <3>1, <3>2 DEF StackInv, CallsNest
  <2>2. ASSUME NEW j \in DOMAIN cl2, NEW k \in DOMAIN cl2, j < k
        PROVE  Len(AbsolutePath(cl2[k])) < Len(cl2[j].path)
    <3>1. k # 1 /\ j + 1 < k + 1
      BY <1>2, <2>2
    <3>2. cl2[k] = cl[k + 1] /\ cl2[j].path = cl[j + 1].path /\ k + 1 \in DOMAIN cl /\ j + 1 \in DOMAIN cl
      BY <1>8, <3>1
    <3> QED
      BY <3>1, <3>2 DEF StackInv, CallsNest
  <2> QED
    BY <2>1, <2>2 DEF CallsNest
<1>11. ListsLeftNew(cl2, st)
  <2>1. \A k \in DOMAIN cl : \A p \in DOMAIN st : EntityPath(p) = cl[k].path =>
          cl[k].at # "entry" /\ Field(p) \notin cl[k].lists
    BY DEF StackInv, ListsLeftNew
  <2>2. \A k \in DOMAIN cl2 : cl2[k].at = cl[k + 1].at /\ cl2[k].lists = cl[k + 1].lists
    BY <1>4, <1>8
  <2> QED
    BY <1>8, <2>1, <2>2 DEF ListsLeftNew
<1>12. EntitiesLeftNew(cl2, st)
  <2> SUFFICES ASSUME NEW k \in DOMAIN cl2, NEW p \in DOMAIN st, cl2[k].at = "elements",
                      IsIn(p, AbsolutePath(cl2[k]))
               PROVE  Last(EntityPath(p)) \in 0 .. Len(cl2[k].new_list) + (IF k = 1 THEN 0 ELSE 1)
    BY DEF EntitiesLeftNew
  <2>1. k + 1 \in DOMAIN cl /\ k + 1 # 1
    BY <1>2, <1>8
  <2>2. cl[k + 1].at = "elements" /\ AbsolutePath(cl[k + 1]) = AbsolutePath(cl2[k])
    BY <1>3, <1>6, <1>8
  <2>3. Last(EntityPath(p)) \in 0 .. Len(cl[k + 1].new_list) + 1
    BY <2>1, <2>2 DEF StackInv, EntitiesLeftNew
  <2>4. CASE k = 1
    <3>1. Len(b.new_list) \in Nat
      BY <1>5, ListedDomain
    <3>2. Len(cl2[k].new_list) + 0 = Len(b.new_list) + 1
      BY <1>1, <1>5, <2>4, <3>1
    <3> QED
      BY <1>8, <2>3, <2>4, <3>2
  <2>5. CASE k # 1
    BY <1>8, <2>3, <2>5
  <2> QED
    BY <2>4, <2>5
<1>13. \A path : UnifiedAt(st, cl, path) \subseteq UnifiedAt(st, cl2, path)
  <2>1. ASSUME NEW k \in DOMAIN cl, cl[k].at = "elements"
        PROVE  \E j \in DOMAIN cl2 : /\ cl2[j].at = "elements" /\ cl2[j].unified = cl[k].unified
                                     /\ AbsolutePath(cl2[j]) = AbsolutePath(cl[k])
    <3>0. k # 1
      BY <2>1
    <3>1. k # 1 /\ k - 1 \in DOMAIN cl2 /\ (k - 1) + 1 = k
      BY <1>1, <1>2, <3>0
    <3>2. (cl2[k - 1] = d /\ cl[k] = b) \/ cl2[k - 1] = cl[k]
      BY <1>8, <3>1
    <3> QED
      BY <1>4, <1>6, <2>1, <3>1, <3>2
  <2> QED
    BY <2>1 DEF UnifiedAt
<1>14. /\ \A path : TriplesAt(in, st, cl, path) \subseteq TriplesAt(in, st, cl2, path)
       /\ \A e : CallKept(in, conf, cl, st, cs, e) => CallKept(in, conf, cl2, st, cs, e)
       /\ \A p, made : StatKept(in, conf, cl, st, cs, p, made) =>
            StatKept(in, conf, cl2, st, cs, p, made)
  BY <1>13, Carried
<1>15. StatsKept(in, conf, cl2, st, cs)
  BY <1>14 DEF StackInv, StatsKept
<1>16. CallsKept(in, conf, cl2, st, cs)
  <2>1. \A k \in DOMAIN cl : CallKept(in, conf, cl2, st, cs, cl[k])
    BY <1>14 DEF StackInv, CallsKept
  <2>2. CallKept(in, conf, cl2, st, cs, d)
    <3>1. CallKept(in, conf, cl2, st, cs, b)
      BY <1>3, <2>1 DEF b
    <3>2. KeptOf(KeptBy(conf, AbsolutePath(b)), cs, d, b.field, AbsolutePath(b), b.unified)
      BY <1>3, <1>4, <3>1, KeptBySides, KeptOfSame DEF CallKept
    <3> QED
      BY <1>4, <1>6, <3>1, <3>2 DEF CallKept
  <2> QED
    BY <1>8, <2>1, <2>2 DEF CallsKept
<1>17. StackInv(in, conf, cl2, st, cs)
  BY <1>9, <1>10, <1>11, <1>12, <1>15, <1>16 DEF StackInv
<1> QED
  BY <1>17 DEF b, d, cl2

(* A list is merged: what it was unified into is recorded.                 *)
LEMMA Finishes ==
  ASSUME NEW in, NEW conf \in Configs, NEW cl, NEW st, NEW cs, StackInv(in, conf, cl, st, cs),
         cl[1].at = "elements",
         NEW c, CallOK(in, c), c.path = cl[1].path, c.head = cl[1].head, c.update = cl[1].update,
         c.at = "lists", c.lists = cl[1].lists \ {cl[1].field}
  PROVE  StackInv(in, conf, <<c>> \o Tail(cl),
                  [p \in DOMAIN st \cup {AbsolutePath(cl[1])} |->
                     IF p = AbsolutePath(cl[1]) THEN cl[1].unified ELSE st[p]], cs)
<1> DEFINE top == cl[1]
           A   == AbsolutePath(top)
           st2 == [p \in DOMAIN st \cup {A} |-> IF p = A THEN top.unified ELSE st[p]]
           cl2 == <<c>> \o Tail(cl)
<1>1. /\ CallsOK(in, cl2) /\ CallsNest(cl2)
      /\ Len(cl) \in Nat \ {0} /\ DOMAIN cl = 1 .. Len(cl) /\ DOMAIN cl2 = DOMAIN cl
      /\ \A k \in DOMAIN cl :
           /\ (k = 1 /\ cl2[k] = c) \/ (k \in 2 .. Len(cl) /\ cl2[k] = cl[k])
           /\ cl2[k].path = cl[k].path
  BY ReplacedCalls DEF StackInv
<1>2. 1 \in DOMAIN cl /\ CallOK(in, top) /\ top.at = "elements" /\ top.field \in top.lists
  <2>1. 1 \in DOMAIN cl
    BY <1>1
  <2> QED
    BY <2>1 DEF StackInv, CallsOK, CallOK
<1>3. /\ A \in PathSet /\ EntityPath(A) = top.path /\ Field(A) = top.field
      /\ Len(top.path) \in Nat /\ Len(A) \in Nat /\ Len(top.path) <= Len(A)
  BY <1>2, AbsolutePathIs
<1>4. A \notin DOMAIN st
  BY <1>2, <1>3 DEF StackInv, ListsLeftNew
<1>5. /\ DOMAIN st2 = DOMAIN st \cup {A} /\ st2[A] = top.unified
      /\ \A p \in DOMAIN st : st2[p] = st[p] /\ p \in DOMAIN st2
  BY <1>4
<1> HIDE DEF st2, cl2
<1>6. ASSUME NEW k \in DOMAIN cl, k # 1
      PROVE  /\ Len(AbsolutePath(cl[k])) \in Nat /\ Len(AbsolutePath(cl[k])) < Len(top.path)
             /\ cl[k].path # top.path /\ k \in 2 .. Len(cl)
  <2>1. 1 < k /\ k \in 2 .. Len(cl)
    BY <1>1, <1>6
  <2>2. Len(AbsolutePath(cl[k])) < Len(top.path)
    BY <1>2, <2>1 DEF StackInv, CallsNest
  <2>3. /\ Len(cl[k].path) \in Nat /\ Len(AbsolutePath(cl[k])) \in Nat
        /\ Len(cl[k].path) <= Len(AbsolutePath(cl[k]))
    BY AbsolutePathIs DEF StackInv, CallsOK
  <2>4. \A l, m, n \in Nat : l <= m /\ m < n => l # n
    OBVIOUS
  <2> QED
    BY <1>3, <2>1, <2>2, <2>3, <2>4
<1>7. ListsLeftNew(cl2, st2)
  <2> SUFFICES ASSUME NEW k \in DOMAIN cl, NEW p \in DOMAIN st2, EntityPath(p) = cl2[k].path
               PROVE  cl2[k].at # "entry" /\ Field(p) \notin cl2[k].lists
    BY <1>1 DEF ListsLeftNew
  <2>1. CASE p = A
    <3>1. k = 1
      BY <1>1, <1>3, <1>6, <2>1
    <3> QED
      BY <1>1, <1>3, <2>1, <3>1
  <2>2. CASE p # A
    <3>1. p \in DOMAIN st /\ EntityPath(p) = cl[k].path
      BY <1>1, <1>5, <2>2
    <3>2. cl[k].at # "entry" /\ Field(p) \notin cl[k].lists
      BY <3>1 DEF StackInv, ListsLeftNew
    <3> QED
      BY <1>1, <3>2
  <2> QED
    BY <2>1, <2>2
<1>8. EntitiesLeftNew(cl2, st2)
  <2> SUFFICES ASSUME NEW k \in DOMAIN cl, NEW p \in DOMAIN st2, cl2[k].at = "elements",
                      IsIn(p, AbsolutePath(cl2[k]))
               PROVE  Last(EntityPath(p)) \in 0 .. Len(cl2[k].new_list) + (IF k = 1 THEN 0 ELSE 1)
    BY <1>1 DEF EntitiesLeftNew
  <2>1. k # 1 /\ cl2[k] = cl[k]
    BY <1>1
  <2>2. k \in 2 .. Len(cl) /\ Len(cl[k].new_list) \in Nat
    <3>1. Listed(cl[k].new_list)
      BY DEF StackInv, CallsOK, CallOK
    <3> QED
      BY <1>6, <2>1, <3>1, ListedDomain
  <2>3. CASE p = A
    <3>1. top.path # <<>> /\ Front(top.path) = AbsolutePath(cl[k])
      BY <1>3, <2>1, <2>3 DEF IsIn
    <3>2. 2 \in DOMAIN cl /\ top.path = ElementPath(cl[2])
      <4>1. 2 \in 2 .. Len(cl)
        BY <1>1, <2>2
      <4> QED
        BY <1>1, <4>1 DEF StackInv, CallsNest
    <3>3. /\ Listed(cl[2].new_list) /\ AbsolutePath(cl[2]) \in PathSet
          /\ Len(cl[2].path) \in Nat /\ Len(AbsolutePath(cl[2])) \in Nat
          /\ Len(cl[2].path) <= Len(AbsolutePath(cl[2]))
      BY <3>2, AbsolutePathIs DEF StackInv, CallsOK, CallOK
    <3>4. Len(cl[2].new_list) \in Nat /\ Len(cl[2].new_list) + 1 \in Nat
      <4>1. Len(cl[2].new_list) \in Nat
        BY <3>3, ListedDomain
      <4> QED
        BY <4>1
    <3>5. Front(top.path) = AbsolutePath(cl[2]) /\ Last(top.path) = Len(cl[2].new_list) + 1
      BY <3>2, <3>3, <3>4, ElementPathIs DEF ElementPath
    <3>6. k = 2
      <4> SUFFICES ASSUME k # 2 PROVE FALSE
        OBVIOUS
      <4>1. 2 < k
        BY <1>1, <2>2
      <4>2. Len(AbsolutePath(cl[k])) < Len(cl[2].path)
        BY <3>2, <4>1 DEF StackInv, CallsNest
      <4>3. Len(AbsolutePath(cl[k])) = Len(AbsolutePath(cl[2]))
        BY <3>1, <3>5
      <4>4. \A l, m \in Nat : l <= m => ~(m < l)
        OBVIOUS
      <4> QED
        BY <3>3, <4>2, <4>3, <4>4
    <3>7. Last(top.path) \in 0 .. Len(cl[2].new_list) + 1
      BY <3>4, <3>5
    <3> QED
      BY <1>3, <2>1, <2>3, <3>6, <3>7
  <2>4. CASE p # A
    <3>1. p \in DOMAIN st
      BY <1>5, <2>4
    <3> QED
      BY <2>1, <3>1 DEF StackInv, EntitiesLeftNew
  <2> QED
    BY <2>3, <2>4
<1>9. \A path : UnifiedAt(st, cl, path) \subseteq UnifiedAt(st2, cl2, path)
  <2> SUFFICES ASSUME NEW path, NEW made \in UnifiedAt(st, cl, path)
               PROVE  made \in UnifiedAt(st2, cl2, path)
    OBVIOUS
  <2>1. CASE path \in DOMAIN st /\ made = st[path]
    BY <1>5, <2>1 DEF UnifiedAt
  <2>2. ASSUME NEW k \in DOMAIN cl, cl[k].at = "elements", AbsolutePath(cl[k]) = path,
               made = cl[k].unified
        PROVE  made \in UnifiedAt(st2, cl2, path)
    <3>1. CASE k = 1
      <4>1. path = A /\ made = top.unified
        BY <2>2, <3>1
      <4> QED
        BY <1>5, <4>1 DEF UnifiedAt
    <3>2. CASE k # 1
      <4>1. k \in DOMAIN cl2 /\ cl2[k] = cl[k]
        BY <1>1, <3>2
      <4> QED
        BY <2>2, <4>1 DEF UnifiedAt
    <3> QED
      BY <3>1, <3>2
  <2> QED
    BY <2>1, <2>2 DEF UnifiedAt
<1>10. /\ \A path : TriplesAt(in, st, cl, path) \subseteq TriplesAt(in, st2, cl2, path)
       /\ \A e : CallKept(in, conf, cl, st, cs, e) => CallKept(in, conf, cl2, st2, cs, e)
       /\ \A p, made : StatKept(in, conf, cl, st, cs, p, made) =>
            StatKept(in, conf, cl2, st2, cs, p, made)
  BY <1>9, Carried
<1>11. PICK t \in TriplesAt(in, st2, cl2, top.path) : top.head = t.head /\ top.update = t.update
  BY <1>2, <1>10 DEF StackInv, CallsKept, CallKept
<1>12. StatsKept(in, conf, cl2, st2, cs)
  <2>1. StatKept(in, conf, cl2, st2, cs, A, st2[A])
    <3>1. KeptOf(KeptBy(conf, A), cs, top, top.field, A, top.unified)
      BY <1>2 DEF StackInv, CallsKept, CallKept
    <3>2. KeptOf(KeptBy(conf, A), cs, t, top.field, A, top.unified)
      BY <1>11, <3>1, KeptBySides, KeptOfSame
    <3> QED
      BY <1>3, <1>5, <1>11, <3>2 DEF StatKept
  <2>2. \A p \in DOMAIN st : StatKept(in, conf, cl2, st2, cs, p, st2[p])
    BY <1>5, <1>10 DEF StackInv, StatsKept
  <2> QED
    BY <1>5, <2>1, <2>2 DEF StatsKept
<1>13. CallsKept(in, conf, cl2, st2, cs)
  <2>1. CallKept(in, conf, cl2, st2, cs, c)
    BY <1>11 DEF CallKept
  <2>2. \A k \in DOMAIN cl : CallKept(in, conf, cl2, st2, cs, cl[k])
    BY <1>10 DEF StackInv, CallsKept
  <2> QED
    BY <1>1, <2>1, <2>2 DEF CallsKept
<1>14. StackInv(in, conf, cl2, st2, cs)
  BY <1>1, <1>7, <1>8, <1>12, <1>13 DEF StackInv
<1> QED
  BY <1>14 DEF st2, cl2

---------------------------------------------------------------------------
(* Every action keeps the invariant.                                       *)

LEMMA TopIs ==
  ASSUME KeptInv
  PROVE  /\ CallOK(inputs, Top) /\ 1 \in DOMAIN calls
         /\ CallKept(inputs, config, calls, stats, conflicts, Top)
         /\ \A p \in DOMAIN stats : EntityPath(p) = Top.path =>
              Top.at # "entry" /\ Field(p) \notin Top.lists
<1>1. CallsOK(inputs, calls) /\ StackInv(inputs, config, calls, stats, conflicts)
  BY DEF KeptInv, StackInv
<1>2. 1 \in DOMAIN calls
  <2>1. Listed(calls) /\ calls # <<>>
    BY <1>1 DEF CallsOK
  <2>2. Len(calls) \in Nat /\ DOMAIN calls = 1 .. Len(calls) /\ Len(calls) # 0
    BY <2>1, ListedDomain DEF Listed
  <2> QED
    BY <2>2
<1> QED
  BY <1>1, <1>2 DEF StackInv, CallsOK, CallsKept, ListsLeftNew, Top

LEMMA InitKept == Init => KeptInv
<1> SUFFICES ASSUME Init PROVE KeptInv
  OBVIOUS
<1> DEFINE c == Call(<<>>, inputs)
<1>1. /\ inputs \in Inputs /\ config \in Configs /\ calls = <<c>> /\ stats = <<>>
      /\ outcome = "running"
  BY DEF Init
<1>2. /\ c.path = <<>> /\ c.head = inputs.head /\ c.update = inputs.update
      /\ c.at = "entry" /\ c.lists = {} /\ c.field = <<>> /\ c.new_list = <<>>
      /\ DOMAIN c = DOMAIN Call(<<>>, inputs)
  BY DEF Call
<1> HIDE DEF c
<1>3. CallOK(inputs, c)
  <2>1. c.head \in Objects(inputs) /\ c.update \in Objects(inputs)
    BY <1>1, <1>2, ObjectsClosed DEF Objects, Sides
  <2>2. <<>> \in Seq(Keys) /\ <<>> \in PathSet
    BY DEF PathSet
  <2>3. Listed(<<>>)
    BY <2>2, ListedIn
  <2> QED
    BY <1>2, <2>1, <2>2, <2>3 DEF CallOK, IsEntityPath
<1>4. DOMAIN calls = {1} /\ calls[1] = c /\ Len(calls) = 1 /\ DOMAIN stats = {} /\ calls # <<>>
  BY <1>1
<1>5. CallsOK(inputs, calls)
  <2>1. calls \in Seq({c})
    BY <1>1
  <2>2. Listed(calls)
    BY <2>1, ListedIn
  <2> QED
    BY <1>3, <1>4, <2>2 DEF CallsOK
<1>6. CallsNest(calls)
  BY <1>4 DEF CallsNest
<1>7. /\ ListsLeftNew(calls, stats) /\ EntitiesLeftNew(calls, stats)
      /\ StatsKept(inputs, config, calls, stats, conflicts)
  BY <1>4 DEF ListsLeftNew, EntitiesLeftNew, StatsKept
<1>8. CallsKept(inputs, config, calls, stats, conflicts)
  <2>1. inputs \in TriplesAt(inputs, stats, calls, c.path)
    BY <1>2 DEF TriplesAt
  <2>2. CallKept(inputs, config, calls, stats, conflicts, c)
    BY <1>2, <2>1 DEF CallKept
  <2> QED
    BY <1>4, <2>2 DEF CallsKept
<1> QED
  BY <1>1, <1>5, <1>6, <1>7, <1>8 DEF KeptInv, StackInv, Merged

LEMMA MergeListsKeeps == KeptInv /\ MergeLists => KeptInv'
<1> SUFFICES ASSUME KeptInv, MergeLists PROVE KeptInv'
  OBVIOUS
<1>1. PICK r : calls' = <<[Top EXCEPT !.at = "lists", !.lists = {<<>>}, !.root = r]>> \o Tail(calls)
  BY DEF MergeLists, SetTop
<1> DEFINE c == [Top EXCEPT !.at = "lists", !.lists = {<<>>}, !.root = r]
<1>2. /\ CallOK(inputs, Top) /\ Top.at = "entry" /\ IsList(Top.head) /\ IsList(Top.update)
      /\ outcome' = "running" /\ stats' = stats /\ conflicts' = conflicts
      /\ inputs' = inputs /\ config' = config
  BY TopIs DEF MergeLists, At, BothLists
<1>3. /\ c.path = Top.path /\ c.head = Top.head /\ c.update = Top.update /\ c.at = "lists"
      /\ c.lists = {<<>>} /\ c.field = Top.field /\ c.new_list = Top.new_list
      /\ DOMAIN c = DOMAIN Top
  BY <1>2 DEF CallOK, Call
<1> HIDE DEF c
<1>4. CallOK(inputs, c)
  <2>1. Get(c.head, <<>>) = c.head /\ Get(c.update, <<>>) = c.update /\ <<>> \in Seq(Keys)
    BY GetEmpty
  <2> QED
    BY <1>2, <1>3, <2>1 DEF CallOK
<1>5. StackInv(inputs, config, calls', stats, conflicts)
  BY <1>1, <1>2, <1>3, <1>4, TopIs, GoesOn DEF KeptInv, Top, c
<1> QED
  BY <1>2, <1>5 DEF KeptInv, Merged

LEMMA SkippedAre ==
  ASSUME NEW root, NEW head, NEW update, NEW path,
         NEW f \in MergeObjects(root, head, update, path).skipped
  PROVE  f \in Seq(Keys) /\ IsList(Get(head, f)) /\ IsList(Get(update, f))
<1>1. MergeBaseValues(root, head, update, path).skipped = {}
  BY DEF MergeBaseValues, Outcome
<1>2. MergeDicts(root, head, update, path).skipped \in {{}, SkippedLists(head, update, path)}
  <2> DEFINE m == TheMerge(root, head, update, path)
  <2>1. m.lists = SkippedLists(head, update, path)
    BY DEF TheMerge
  <2>2. \/ MergeDicts(root, head, update, path) = Outcome(NOTHING, {}, {}, TRUE)
        \/ MergeDicts(root, head, update, path) = Outcome(m.merged, ShownBy(m), m.lists, FALSE)
    BY MergeDictsMeans
  <2> HIDE DEF m
  <2> QED
    BY <2>1, <2>2 DEF Outcome
<1>3. f \in SkippedLists(head, update, path)
  BY <1>1, <1>2 DEF MergeObjects
<1> QED
  BY <1>3 DEF SkippedLists, ListFields

LEMMA RaiseKeeps ==
  ASSUME KeptInv, NEW error \in {"rule_error", "shifting", "threshold", "root_error"}, Raise(error)
  PROVE  KeptInv'
BY DEF KeptInv, Raise, Merged

(* The step of MergeObject that does not raise.                            *)
LEMMA ObjectMerged ==
  ASSUME MergeObject, ~Raise("rule_error"), ~Raise("shifting")
  PROVE  LET m == MergeObjects(Top.root, Top.head, Top.update, Top.path)
         IN /\ Top.at = "entry" /\ outcome = "running" /\ ~BothLists /\ ~m.raised
            /\ calls' = <<[Top EXCEPT !.at = "lists", !.root = m.root, !.lists = m.skipped]>> \o Tail(calls)
            /\ conflicts' = conflicts \cup Prefixed(m.conflicts, Top.path)
            /\ UNCHANGED <<inputs, config, merged_root, aligned, stats, outcome>>
<1> DEFINE m == MergeObjects(Top.root, Top.head, Top.update, Top.path)
           error == IF IsDict(Top.head) /\ IsDict(Top.update) THEN "shifting" ELSE "rule_error"
<1> HIDE DEF m
<1>1. ~Raise(error)
  OBVIOUS
<1> HIDE DEF error
<1>2. At("entry") /\ ~BothLists
      /\ \/ m.raised /\ Raise(error)
         \/ /\ ~m.raised /\ SetTop([Top EXCEPT !.at = "lists", !.root = m.root, !.lists = m.skipped])
            /\ conflicts' = conflicts \cup Prefixed(m.conflicts, Top.path)
            /\ UNCHANGED <<inputs, config, merged_root, aligned, stats, outcome>>
  BY Zenon DEF MergeObject, m, error
<1> QED
  BY <1>1, <1>2 DEF At, SetTop, m

LEMMA MergeObjectKeeps == KeptInv /\ MergeObject => KeptInv'
<1> SUFFICES ASSUME KeptInv, MergeObject PROVE KeptInv'
  OBVIOUS
<1> DEFINE m == MergeObjects(Top.root, Top.head, Top.update, Top.path)
           c == [Top EXCEPT !.at = "lists", !.root = m.root, !.lists = m.skipped]
<1>1. CASE Raise("rule_error") \/ Raise("shifting")
  BY <1>1, RaiseKeeps
<1>2. CASE ~Raise("rule_error") /\ ~Raise("shifting")
  <2>1. /\ Top.at = "entry" /\ calls' = <<c>> \o Tail(calls) /\ conflicts \subseteq conflicts'
        /\ outcome' = "running" /\ stats' = stats /\ inputs' = inputs /\ config' = config
    BY <1>2, ObjectMerged
  <2>2. CallOK(inputs, Top)
    BY TopIs
  <2>3. \A f \in m.skipped : f \in Seq(Keys) /\ IsList(Get(Top.head, f)) /\ IsList(Get(Top.update, f))
    BY SkippedAre
  <2> HIDE DEF m
  <2>4. /\ c.path = Top.path /\ c.head = Top.head /\ c.update = Top.update /\ c.at = "lists"
        /\ c.lists = m.skipped /\ c.field = Top.field /\ c.new_list = Top.new_list
        /\ DOMAIN c = DOMAIN Top
    BY <2>2 DEF CallOK, Call
  <2> HIDE DEF c
  <2>5. CallOK(inputs, c)
    BY <2>2, <2>3, <2>4 DEF CallOK
  <2>6. StackInv(inputs, config, calls', stats, conflicts')
    BY <2>1, <2>4, <2>5, TopIs, GoesOn DEF KeptInv, Top, c
  <2> QED
    BY <2>1, <2>6 DEF KeptInv, Merged
<1> QED
  BY <1>1, <1>2

LEMMA StartListKeeps == KeptInv /\ StartList => KeptInv'
<1> SUFFICES ASSUME KeptInv, StartList PROVE KeptInv'
  OBVIOUS
<1>1. PICK field \in Top.lists :
        calls' = <<[Top EXCEPT !.at = "unify", !.field = field,
                               !.unifier = Unifier(ListsAt(Top, field), Top.path \o field)]>>
                 \o Tail(calls)
  BY DEF StartList, SetTop
<1> DEFINE u == Unifier(ListsAt(Top, field), Top.path \o field)
           c == [Top EXCEPT !.at = "unify", !.field = field, !.unifier = u]
<1>2. /\ CallOK(inputs, Top) /\ Top.at = "lists" /\ inputs \in Inputs /\ config \in Configs
      /\ outcome' = "running" /\ stats' = stats /\ conflicts' = conflicts
      /\ inputs' = inputs /\ config' = config
  BY TopIs DEF StartList, At, KeptInv
<1>3. \A side \in {"head", "update"} :
        u.lists[side] = Get(Top[side], field) /\ u.len[side] = Len(Get(Top[side], field).elems)
  <2> SUFFICES ASSUME NEW side \in {"head", "update"}
               PROVE  /\ u.lists[side] = Get(Top[side], field)
                      /\ u.len[side] = Len(Get(Top[side], field).elems)
    OBVIOUS
  <2>1. Top[side] \in Objects(inputs) /\ field \in Seq(Keys) /\ IsList(Get(Top[side], field))
    BY <1>2 DEF CallOK
  <2>2. Get(Top[side], field) # Missing /\ ~IsDict(Get(Top[side], field))
    BY <1>2, <2>1, ListGot DEF IsList, IsDict
  <2>3. ListsAt(Top, field)[side] = Get(Top[side], field)
    BY <2>2 DEF ListsAt, ListAt, Sides
  <2> QED
    BY <2>3 DEF Unifier, Sides
<1>4. u.op \in AllowedOps /\ OpSources[u.op] = KeptBy(config, Top.path \o field)
  <2>1. u.op = OperationAt(Top.path \o field)
    BY DEF Unifier
  <2>2. OperationAt(Top.path \o field)
          \in Range(config.list_merge_ops) \cup {config.default_list_merge_op}
    BY DEF OperationAt, Configured, Range
  <2>3. OpSources[OperationAt(Top.path \o field)] = KeptBy(config, Top.path \o field)
    BY DEF OperationAt, Configured, KeptBy
  <2> QED
    BY <1>2, <2>1, <2>2, <2>3, ConfigsAssumption
<1> HIDE DEF u
<1>5. /\ c.path = Top.path /\ c.head = Top.head /\ c.update = Top.update /\ c.at = "unify"
      /\ c.lists = Top.lists /\ c.field = field /\ c.new_list = Top.new_list /\ c.unifier = u
      /\ DOMAIN c = DOMAIN Top
  BY <1>2 DEF CallOK, Call
<1> HIDE DEF c
<1>6. CallOK(inputs, c)
  <2>1. \A side \in {"head", "update"} : c[side] = Top[side]
    BY <1>5
  <2> QED
    BY <1>2, <1>3, <1>5, <2>1 DEF CallOK
<1>7. c.unifier.op \in AllowedOps /\ OpSources[c.unifier.op] = KeptBy(config, AbsolutePath(c))
  BY <1>4, <1>5 DEF AbsolutePath
<1>8. StackInv(inputs, config, calls', stats, conflicts)
  <2>1. calls' = <<c>> \o Tail(calls)
    BY <1>1 DEF c, u
  <2> QED
    BY <1>2, <1>5, <1>6, <1>7, <2>1, TopIs, GoesOn DEF KeptInv, Top
<1> QED
  BY <1>2, <1>8 DEF KeptInv, Merged

(* What unify reports of the list becomes a conflict at the list's path.   *)
LEMMA ShownAtPath ==
  ASSUME NEW lists, NEW placed, NEW path \in PathSet, NEW cs,
         Prefixed(ListConflicts(lists, placed), path) \subseteq cs,
         NEW side, NEW entity, ShownIn(ListConflicts(lists, placed), side, entity)
  PROVE  ShownOf(cs, path, side, entity)
<1>1. PICK c \in ListConflicts(lists, placed) :
        \/ c.type = "MANUAL_MERGE" /\ c.path = <<>> /\ c.body[side] = entity
        \/ c.type = "INSERT" /\ (\E k \in Nat : c.path = <<k>>) /\ c.body = entity
  BY DEF ShownIn
<1>2. DOMAIN c = {"type", "path", "body"}
  BY <1>1 DEF ListConflicts, AsConflict, Conflict
<1> DEFINE d == WithPrefix(c, path)
<1>3. d \in cs
  BY <1>1 DEF Prefixed
<1>4. d.type = c.type /\ d.path = path \o c.path /\ d.body = c.body
  BY <1>2 DEF WithPrefix
<1> HIDE DEF d
<1>5. path \in Seq(Keys \cup Nat)
  BY DEF PathSet
<1>6. CASE c.type = "MANUAL_MERGE" /\ c.path = <<>> /\ c.body[side] = entity
  <2>1. path \o <<>> = path
    BY <1>5
  <2> QED
    BY <1>3, <1>4, <1>6, <2>1 DEF ShownOf
<1>7. ASSUME NEW k \in Nat, c.type = "INSERT", c.path = <<k>>, c.body = entity
      PROVE  ShownOf(cs, path, side, entity)
  <2>1. Front(path \o <<k>>) = path
    BY ElementPathIs
  <2> QED
    BY <1>3, <1>4, <1>7, <2>1 DEF ShownOf
<1> QED
  BY <1>1, <1>6, <1>7

LEMMA UnifyListsKeeps == KeptInv /\ UnifyLists => KeptInv'
<1> SUFFICES ASSUME KeptInv, UnifyLists PROVE KeptInv'
  OBVIOUS
<1> DEFINE lists == Top.unifier.lists
           A     == AbsolutePath(Top)
           kept  == OpSources[Top.unifier.op]
<1>1. PICK placed \in U!Orders :
        /\ calls' = <<[Top EXCEPT !.at = "elements", !.unified = Unified(lists, placed),
                                  !.new_list = <<>>]>> \o Tail(calls)
        /\ conflicts' = conflicts \cup Prefixed(ListConflicts(lists, placed), A)
  BY DEF UnifyLists, SetTop
<1> DEFINE made == Unified(lists, placed)
           c    == [Top EXCEPT !.at = "elements", !.unified = made, !.new_list = <<>>]
<1>2. /\ CallOK(inputs, Top) /\ Top.at = "unify" /\ Top.field \in Top.lists
      /\ CallKept(inputs, config, calls, stats, conflicts, Top)
      /\ inputs \in Inputs /\ config \in Configs /\ 1 \in DOMAIN calls
      /\ outcome' = "running" /\ stats' = stats /\ inputs' = inputs /\ config' = config
  BY TopIs DEF UnifyLists, At, KeptInv, CallOK
<1>3. Top.unifier.op \in AllowedOps /\ kept = KeptBy(config, A) /\ kept \subseteq {"head", "update"}
  BY <1>2, SourcesOfOp DEF CallKept
<1>4. ASSUME NEW side \in {"head", "update"}
      PROVE  /\ IsList(lists[side]) /\ lists[side] = Get(Top[side], Top.field)
             /\ lists[side].elems \in Seq(Values(inputs))
             /\ Top.unifier.len[side] = Len(lists[side].elems) /\ Top.unifier.len[side] \in Nat
  <2>1. Top[side] \in Objects(inputs) /\ Top.field \in Seq(Keys) /\ IsList(Get(Top[side], Top.field))
    BY <1>2 DEF CallOK
  <2>2. Get(Top[side], Top.field).elems \in Seq(Values(inputs))
    BY <1>2, <2>1, ListGot
  <2>3. /\ lists[side] = Get(Top[side], Top.field)
        /\ Top.unifier.len[side] = Len(Get(Top[side], Top.field).elems)
    BY <1>2 DEF CallOK
  <2>4. Len(Get(Top[side], Top.field).elems) \in Nat
    BY <2>2
  <2> QED
    BY <2>1, <2>2, <2>3, <2>4
<1>5. UnifierOK
  BY <1>3, <1>4 DEF UnifierOK
<1>6. /\ \E n \in Nat : DOMAIN made = 1 .. n
      /\ \A l \in kept : \A i \in 0 .. Top.unifier.len[l] - 1 :
           \/ \E k \in DOMAIN made : made[k][l] = ObjectOf(lists, <<l, i>>)
           \/ ShownIn(ListConflicts(lists, placed), l, ObjectOf(lists, <<l, i>>))
      /\ \A k \in DOMAIN made :
           /\ \E t : \A side \in Sides :
                /\ t[side] \in (0 .. Top.unifier.len[side] - 1) \cup {-1}
                /\ made[k][side] = ObjectOf(lists, <<side, t[side]>>)
           /\ \E l \in kept : \E i \in 0 .. Top.unifier.len[l] - 1 :
                made[k][l] = ObjectOf(lists, <<l, i>>)
  BY <1>5, UnifiedKeeps
<1>7. Listed(made)
  <2>1. made = [k \in DOMAIN made |-> made[k]]
    BY DEF Unified
  <2> HIDE DEF made
  <2> QED
    BY <1>6, <2>1, ListedIs
<1>8. /\ c.path = Top.path /\ c.head = Top.head /\ c.update = Top.update /\ c.at = "elements"
      /\ c.lists = Top.lists /\ c.field = Top.field /\ c.new_list = <<>> /\ c.unified = made
      /\ DOMAIN c = DOMAIN Top /\ AbsolutePath(c) = A
  <2>1. DOMAIN Top = DOMAIN Call(<<>>, inputs)
    BY <1>2 DEF CallOK
  <2> HIDE DEF made
  <2> QED
    BY <2>1 DEF Call, AbsolutePath
<1>9. calls' = <<c>> \o Tail(calls) /\ conflicts \subseteq conflicts'
      /\ Prefixed(ListConflicts(lists, placed), A) \subseteq conflicts'
  BY <1>1
<1> HIDE DEF made, c, lists, A, kept
<1>10. ASSUME NEW side \in {"head", "update"}, NEW i \in 0 .. Top.unifier.len[side] - 1
       PROVE  /\ i + 1 \in 1 .. Len(lists[side].elems)
              /\ ObjectOf(lists, <<side, i>>) = lists[side].elems[i + 1]
              /\ ObjectOf(lists, <<side, i>>) \in Values(inputs)
  <2>1. lists[side].elems \in Seq(Values(inputs)) /\ Len(lists[side].elems) \in Nat
        /\ Top.unifier.len[side] = Len(lists[side].elems)
    BY <1>4
  <2>2. i + 1 \in 1 .. Len(lists[side].elems) /\ ~(i < 0)
    BY <2>1
  <2>3. ObjectOf(lists, <<side, i>>) = lists[side].elems[i + 1]
    BY <2>2 DEF ObjectOf
  <2> QED
    BY <2>1, <2>2, <2>3
<1>11. CallOK(inputs, c)
  <2>1. ASSUME NEW k \in DOMAIN made, NEW side \in {"head", "update"}
        PROVE  made[k][side] \in Objects(inputs)
    <3>1. PICK t : /\ t[side] \in (0 .. Top.unifier.len[side] - 1) \cup {-1}
                   /\ made[k][side] = ObjectOf(lists, <<side, t[side]>>)
      BY <1>6 DEF Sides
    <3>2. CASE t[side] = -1
      BY <3>1, <3>2 DEF ObjectOf, Objects
    <3>3. CASE t[side] \in 0 .. Top.unifier.len[side] - 1
      BY <1>10, <3>1, <3>3 DEF Objects
    <3> QED
      BY <3>1, <3>2, <3>3
  <2>2. \A k \in DOMAIN made : made[k].head \in Objects(inputs) /\ made[k].update \in Objects(inputs)
    BY <2>1
  <2>3. Listed(<<>>)
    <3>1. <<>> \in Seq({})
      OBVIOUS
    <3> QED
      BY <3>1, ListedIn
  <2> QED
    BY <1>2, <1>7, <1>8, <2>2, <2>3 DEF CallOK
<1>12. /\ A \in PathSet /\ EntityPath(A) = Top.path /\ Field(A) = Top.field
       /\ Len(Top.path) \in Nat /\ Len(A) \in Nat /\ Len(Top.path) <= Len(A)
  BY <1>2, AbsolutePathIs DEF A
<1>13. KeptOf(kept, conflicts', c, c.field, A, made)
  <2>1. \A side \in {"head", "update"} : c[side] = Top[side]
    BY <1>8
  <2>2. ASSUME NEW side \in kept, NEW entity \in ElementsAt(c[side], c.field)
        PROVE  (\E k \in DOMAIN made : made[k][side] = entity) \/ ShownOf(conflicts', A, side, entity)
    <3>1. side \in {"head", "update"} /\ lists[side] = Get(c[side], c.field) /\ IsList(lists[side])
          /\ lists[side].elems \in Seq(Values(inputs)) /\ Len(lists[side].elems) \in Nat
          /\ Top.unifier.len[side] = Len(lists[side].elems)
      BY <1>3, <1>4, <1>8, <2>1
    <3>2. PICK j \in 1 .. Len(lists[side].elems) : entity = lists[side].elems[j]
      <4>1. entity \in Range(lists[side].elems)
        BY <3>1 DEF ElementsAt, ElementsOf
      <4> QED
        BY <3>1, <4>1 DEF Range
    <3>3. j - 1 \in 0 .. Top.unifier.len[side] - 1 /\ (j - 1) + 1 = j
      BY <3>1
    <3>4. ObjectOf(lists, <<side, j - 1>>) = entity
      BY <1>10, <3>1, <3>2, <3>3
    <3>5. (\E k \in DOMAIN made : made[k][side] = entity)
          \/ ShownIn(ListConflicts(lists, placed), side, entity)
      BY <1>6, <3>3, <3>4
    <3> QED
      BY <1>9, <1>12, <3>5, ShownAtPath
  <2>3. ASSUME NEW k \in DOMAIN made
        PROVE  \E side \in kept : made[k][side] # NOTHING
    <3>1. PICK l \in kept : \E i \in 0 .. Top.unifier.len[l] - 1 :
            made[k][l] = ObjectOf(lists, <<l, i>>)
      BY <1>6
    <3>2. made[k][l] \in Values(inputs)
      BY <1>3, <1>10, <3>1
    <3> QED
      BY <1>2, <3>2, ObjectsClosed
  <2> QED
    BY <2>2, <2>3 DEF KeptOf
<1>14. ASSUME NEW p \in DOMAIN stats, IsIn(p, A)
       PROVE  FALSE
  <2>1. A \notin DOMAIN stats
    BY <1>2, <1>12, TopIs
  <2>2. UnifiedAt(stats, calls, A) # {}
    <3>1. TriplesAt(inputs, stats, calls, EntityPath(p)) # {}
      BY DEF KeptInv, StackInv, StatsKept, StatKept
    <3> QED
      BY <1>14, <3>1 DEF TriplesAt, IsIn
  <2>3. PICK k \in DOMAIN calls : calls[k].at = "elements" /\ AbsolutePath(calls[k]) = A
    BY <2>1, <2>2 DEF UnifiedAt
  <2>4. k # 1
    BY <1>2, <2>3 DEF Top
  <2>5. Listed(calls) /\ CallsNest(calls)
    BY DEF KeptInv, StackInv, CallsOK
  <2>6. 1 < k
    <3>1. DOMAIN calls = 1 .. Len(calls) /\ Len(calls) \in Nat
      BY <2>5, ListedDomain
    <3> QED
      BY <2>4, <3>1
  <2>7. Len(A) < Len(Top.path)
    BY <1>2, <2>3, <2>5, <2>6 DEF CallsNest, Top
  <2>8. \A l, m \in Nat : l <= m => ~(m < l)
    OBVIOUS
  <2> QED
    BY <1>12, <2>7, <2>8
<1>15. StackInv(inputs, config, calls', stats, conflicts')
  <2>1. /\ c.at # "unify"
        /\ KeptOf(KeptBy(config, AbsolutePath(c)), conflicts', c, c.field, AbsolutePath(c), c.unified)
    BY <1>3, <1>8, <1>13
  <2>2. \A p \in DOMAIN stats : EntityPath(p) = c.path => c.at # "entry" /\ Field(p) \notin c.lists
    BY <1>8, TopIs
  <2>3. \A p \in DOMAIN stats : ~IsIn(p, AbsolutePath(c))
    BY <1>8, <1>14
  <2>4. calls[1].at # "elements" /\ c.path = calls[1].path /\ c.head = calls[1].head
        /\ c.update = calls[1].update
    BY <1>2, <1>8 DEF Top
  <2> QED
    BY <1>9, <1>11, <2>1, <2>2, <2>3, <2>4, GoesOn DEF KeptInv
<1> QED
  BY <1>2, <1>15 DEF KeptInv, Merged

LEMMA MergeElementKeeps == KeptInv /\ MergeElement => KeptInv'
<1> SUFFICES ASSUME KeptInv, MergeElement PROVE KeptInv'
  OBVIOUS
<1>1. StackInv(inputs, config, calls', stats, conflicts)
  BY Enters DEF KeptInv, MergeElement, At, Top
<1> QED
  BY <1>1 DEF KeptInv, MergeElement, At, Merged

LEMMA ReturnElementKeeps == KeptInv /\ ReturnElement => KeptInv'
<1> SUFFICES ASSUME KeptInv, ReturnElement PROVE KeptInv'
  OBVIOUS
<1>1. StackInv(inputs, config, calls', stats, conflicts)
  BY Returns DEF KeptInv, ReturnElement, Appended, At, Top
<1> QED
  BY <1>1 DEF KeptInv, ReturnElement, At, Merged

LEMMA FinishListKeeps == KeptInv /\ FinishList => KeptInv'
<1> SUFFICES ASSUME KeptInv, FinishList PROVE KeptInv'
  OBVIOUS
<1>1. PICK r : calls' = <<[Top EXCEPT !.at = "lists", !.lists = ListsLeft(Top), !.root = r]>>
                        \o Tail(calls)
  BY DEF FinishList, SetTop
<1> DEFINE c == [Top EXCEPT !.at = "lists", !.lists = ListsLeft(Top), !.root = r]
<1>2. /\ CallOK(inputs, Top) /\ Top.at = "elements" /\ config \in Configs
      /\ outcome' = "running" /\ conflicts' = conflicts /\ inputs' = inputs /\ config' = config
      /\ stats' = [p \in DOMAIN stats \cup {AbsolutePath(Top)} |->
                     IF p = AbsolutePath(Top) THEN Top.unified ELSE stats[p]]
  BY TopIs DEF FinishList, At, KeptInv
<1>3. /\ c.path = Top.path /\ c.head = Top.head /\ c.update = Top.update /\ c.at = "lists"
      /\ c.lists = Top.lists \ {Top.field} /\ c.field = Top.field /\ c.new_list = Top.new_list
      /\ DOMAIN c = DOMAIN Top
  BY <1>2 DEF CallOK, Call, ListsLeft
<1> HIDE DEF c
<1>4. CallOK(inputs, c)
  BY <1>2, <1>3 DEF CallOK
<1>5. StackInv(inputs, config, calls', stats', conflicts)
  <2>1. calls' = <<c>> \o Tail(calls)
    BY <1>1 DEF c
  <2> QED
    BY <1>2, <1>3, <1>4, <2>1, Finishes DEF KeptInv, Top
<1> QED
  BY <1>2, <1>5 DEF KeptInv, Merged

LEMMA StepKeepsKept == KeptInv /\ [Next]_vars => KeptInv'
<1> SUFFICES ASSUME KeptInv, [Next]_vars PROVE KeptInv'
  OBVIOUS
<1>1. CASE UNCHANGED vars
  BY <1>1 DEF KeptInv, Merged, vars
<1>2. CASE TooManyToUnify
  BY <1>2, RaiseKeeps DEF TooManyToUnify
<1>3. CASE RootNotAList
  BY <1>3, RaiseKeeps DEF RootNotAList
<1>4. CASE Return
  BY <1>4 DEF Return, At, KeptInv, Merged, Top
<1>5. CASE RootKeyError
  BY <1>5, RaiseKeeps DEF RootKeyError
<1> QED
  BY <1>1, <1>2, <1>3, <1>4, <1>5, MergeListsKeeps, MergeObjectKeeps, StartListKeeps, UnifyListsKeeps,
     MergeElementKeeps, ReturnElementKeeps, FinishListKeeps
  DEF Next, Merge, Done

---------------------------------------------------------------------------
(* When the merge ends, every entity of a list whose entities are kept is  *)
(* unified or shown in a conflict at the list, and nothing is unified that *)
(* is in no such list: at every depth, whatever entities are matched,      *)
(* whichever operations are configured and wherever the lists are.         *)
THEOREM EntitiesAlwaysKeptOrShown == Spec => []EntitiesKeptOrShown
<1>1. KeptInv => EntitiesKeptOrShown
  <2> SUFFICES ASSUME KeptInv, Merged, NEW p \in DOMAIN stats
               PROVE  /\ \A side \in KeptAt(p) : \A entity \in EntitiesBehind(p, side) :
                           \/ \E i \in DOMAIN stats[p] : stats[p][i][side] = entity
                           \/ ShownAt(p, side, entity)
                      /\ \A i \in DOMAIN stats[p] : \E side \in KeptAt(p) :
                           stats[p][i][side] # NOTHING
    BY DEF EntitiesKeptOrShown
  <2>1. KeptAt(p) = KeptBy(config, p)
    BY DEF KeptAt, KeptBy
  <2>2. PICK t \in TriplesAt(inputs, stats, calls, EntityPath(p)) :
          KeptOf(KeptBy(config, p), conflicts, t, Field(p), p, stats[p])
    BY DEF KeptInv, StackInv, StatsKept, StatKept
  <2>3. \A path : \A made \in UnifiedAt(stats, calls, path) : made = stats[path]
    <3>1. DOMAIN calls = {1}
      <4>1. Listed(calls) /\ Len(calls) = 1
        BY DEF KeptInv, StackInv, CallsOK
      <4>2. DOMAIN calls = 1 .. 1
        BY <4>1, ListedDomain
      <4> QED
        BY <4>2
    <3>2. calls[1].at # "elements"
      BY DEF KeptInv
    <3> QED
      BY <3>1, <3>2 DEF UnifiedAt
  <2>4. t = IF EntityPath(p) = <<>> THEN inputs
            ELSE stats[Front(EntityPath(p))][Last(EntityPath(p))]
    BY <2>2, <2>3 DEF TriplesAt
  <2>5. \A side : Behind(p, side) = Get(t[side], Field(p))
    BY <2>4 DEF Behind, Field, TripleAt
  <2>6. \A side : EntitiesBehind(p, side) = ElementsAt(t[side], Field(p))
    BY <2>5 DEF EntitiesBehind, ElementsAt, ElementsOf
  <2> QED
    BY <2>1, <2>2, <2>6 DEF KeptOf, ShownOf, ShownAt
<1> QED
  BY <1>1, InitKept, StepKeepsKept, PTL DEF Spec

---------------------------------------------------------------------------
(* The lists of one object.                                                *)

LEMMA ListSteps ==
  ASSUME NEW in \in Inputs, NEW obj \in Objects(in), NEW f \in Seq(Keys), IsList(Get(obj, f))
  PROVE  Steps(Get(obj, f)) \subseteq Nat
<1>1. Get(obj, f).elems \in Seq(Values(in))
  BY ListGot
<1>2. Steps(Get(obj, f)) = DOMAIN Get(obj, f).elems
  BY DEF Steps, Children, IsList, IsDict
<1> QED
  BY <1>1, <1>2

(* No list is in another one, seen along dictionaries.                     *)
LEMMA NoListAbove ==
  ASSUME NEW in \in Inputs, NEW obj \in Objects(in), NEW p \in Seq(Keys), NEW q \in Seq(Keys),
         IsList(Get(obj, p)), Get(obj, q) # Missing, Len(p) < Len(q), SubSeq(q, 1, Len(p)) = p
  PROVE  FALSE
<1>1. Len(p) \in Nat /\ q[Len(p) + 1] \in Keys
  BY Len(p) + 1 \in 1 .. Len(q)
<1>2. q[Len(p) + 1] \in Steps(Get(obj, p))
  BY <1>1, FoundOn
<1>3. q[Len(p) + 1] \in Nat
  BY <1>2, ListSteps
<1> QED
  BY <1>1, <1>3, KeysAssumption

LEMMA ListPathsPart ==
  ASSUME NEW in \in Inputs, NEW obj \in Objects(in), NEW p \in Seq(Keys), NEW q \in Seq(Keys),
         p # q, IsList(Get(obj, p)), IsList(Get(obj, q))
  PROVE  \E n : PartAt(p, q, n)
<1>1. ASSUME NEW x \in Seq(Keys), NEW y \in Seq(Keys), x # y,
             IsList(Get(obj, x)), Get(obj, y) # Missing
      PROVE  ~IsPrefix(x, y)
  <2>1. ~(Len(x) < Len(y) /\ SubSeq(y, 1, Len(x)) = x)
    BY <1>1, NoListAbove
  <2>2. IsPrefix(x, y) <=> Len(x) <= Len(y) /\ SubSeq(y, 1, Len(x)) = x
    BY ONLY <1>1, PrefixIs
  <2>3. SubSeq(y, 1, Len(y)) = y /\ Len(x) \in Nat /\ Len(y) \in Nat
    BY PrefixEnds
  <2>4. Len(x) <= Len(y) => Len(x) < Len(y) \/ Len(x) = Len(y)
    BY <2>3
  <2> QED
    BY <1>1, <2>1, <2>2, <2>3, <2>4
<1>2. Get(obj, p) # Missing /\ Get(obj, q) # Missing
  BY DEF Missing, IsList
<1>3. Beside(p, q)
  BY <1>1, <1>2 DEF Beside
<1> QED
  BY <1>3, PathsPart

(* A place in a list or below it.                                          *)
InList(path, list) ==
  /\ path \in PathSet /\ list \in Seq(Keys) /\ Len(list) < Len(path)
  /\ SubSeq(path, 1, Len(list)) = list /\ path[Len(list) + 1] \in Nat

(* What is set at a list, or somewhere in it, changes no other list, and   *)
(* removes no dictionary around a list.                                    *)
LEMMA SetInList ==
  ASSUME NEW in \in Inputs, NEW head \in Objects(in), NEW list \in Seq(Keys), IsList(Get(head, list)),
         NEW path, path = list \/ InList(path, list),
         NEW p \in Seq(Keys), IsList(Get(head, p)), NEW obj, NEW value
  PROVE  LET new == SetIfSettable(obj, path, value)
         IN /\ p # list => Get(new, p) = Get(obj, p)
            /\ p # <<>> /\ IsDict(Get(obj, Front(p))) => IsDict(Get(new, Front(p)))
<1> DEFINE new == SetIfSettable(obj, path, value)
<1>0. CASE ~Settable(obj, path)
  BY <1>0 DEF SetIfSettable
<1>1. CASE Settable(obj, path)
  <2>1. new = Set(obj, path, value)
    BY <1>1 DEF SetIfSettable
  <2> HIDE DEF new
  <2>2. /\ path \in PathSet /\ p \in PathSet /\ list \in PathSet
        /\ Len(path) \in Nat /\ Len(list) \in Nat /\ Len(p) \in Nat
        /\ Len(list) <= Len(path)
    BY KeyPaths DEF InList, PathSet
  <2>3. SubSeq(path, 1, Len(list)) = list
    BY PrefixEnds DEF InList
  <2>6. \A n \in Nat : n <= Len(list) => SubSeq(path, 1, n) = SubSeq(list, 1, n)
    <3> SUFFICES ASSUME NEW n \in Nat, n <= Len(list)
                 PROVE  SubSeq(path, 1, n) = SubSeq(list, 1, n)
      OBVIOUS
    <3>1. Len(list) \in 0 .. Len(path) /\ n \in 0 .. Len(list)
      BY <2>2
    <3> QED
      BY <2>2, <2>3, <3>1, PrefixOfPrefix DEF PathSet
  <2>7. \A n \in Nat : n < Len(list) => path[n + 1] = list[n + 1]
    <3>1. Len(list) \in 0 .. Len(path)
      BY <2>2
    <3>2. \A i \in 1 .. Len(list) : SubSeq(path, 1, Len(list))[i] = path[i]
      BY <2>2, <3>1, PrefixEffect DEF PathSet
    <3>3. \A n \in Nat : n < Len(list) => n + 1 \in 1 .. Len(list)
      BY <2>2
    <3> QED
      BY <2>3, <3>2, <3>3
  <2>8. ASSUME NEW n \in Nat, n < Len(path), IsDict(Get(obj, SubSeq(path, 1, n)))
        PROVE  IsDict(Get(new, SubSeq(path, 1, n)))
    <3>1. PICK v : Get(new, SubSeq(path, 1, n)) = WithStep(Get(obj, SubSeq(path, 1, n)), path[n + 1], v)
      BY <2>1, <2>2, <2>8, SetAbove DEF PathSet
    <3>2. ~IsList(Get(obj, SubSeq(path, 1, n)))
      BY <2>8 DEF IsList, IsDict
    <3> QED
      BY <3>1, <3>2, WithStepEffect
  <2>9. ASSUME p # list
        PROVE  \E n \in Nat : /\ n < Len(p) /\ n < Len(path)
                             /\ SubSeq(p, 1, n) = SubSeq(path, 1, n) /\ p[n + 1] # path[n + 1]
    <3>1. PICK n : PartAt(p, list, n)
      BY <2>9, ListPathsPart
    <3>2. n \in Nat /\ n < Len(p) /\ n < Len(list) /\ n < Len(path) /\ n <= Len(path) /\ n <= Len(list)
      BY <2>2, <3>1 DEF PartAt
    <3> QED
      BY <2>6, <2>7, <3>1, <3>2 DEF PartAt
  <2>10. ASSUME p # list PROVE Get(new, p) = Get(obj, p)
    <3>1. PICK n \in Nat : /\ n < Len(p) /\ n < Len(path)
                           /\ SubSeq(p, 1, n) = SubSeq(path, 1, n) /\ p[n + 1] # path[n + 1]
      BY <2>9, <2>10
    <3> QED
      BY <2>1, <2>2, <3>1, SetBeside DEF PathSet
  <2>11. ASSUME p # <<>>, IsDict(Get(obj, Front(p)))
         PROVE  IsDict(Get(new, Front(p)))
    <3> DEFINE q == Front(p)
    <3>1. /\ q \in PathSet /\ Len(q) = Len(p) - 1 /\ Len(p) \in Nat \ {0}
          /\ \A i \in 1 .. Len(p) - 1 : q[i] = p[i]
          /\ q = SubSeq(p, 1, Len(p) - 1)
      BY <2>2, <2>11, FrontLast DEF Front, PathSet
    <3> HIDE DEF q
    <3>2. CASE p = list
      <4> DEFINE n == Len(p) - 1
      <4>1. n \in Nat /\ n < Len(path) /\ n <= Len(list) /\ q = SubSeq(p, 1, n)
        BY <2>2, <3>1, <3>2
      <4> HIDE DEF n
      <4>2. q = SubSeq(path, 1, n)
        BY <2>6, <3>2, <4>1
      <4> QED
        BY <2>8, <2>11, <4>1, <4>2 DEF q
    <3>3. CASE p # list
      <4>1. PICK n \in Nat : /\ n < Len(p) /\ n < Len(path)
                             /\ SubSeq(p, 1, n) = SubSeq(path, 1, n) /\ p[n + 1] # path[n + 1]
        BY <2>9, <3>3
      <4>2. CASE n = Len(q)
        <5>1. q = SubSeq(path, 1, n)
          BY <3>1, <4>1, <4>2
        <5> QED
          BY <2>8, <2>11, <4>1, <5>1 DEF q
      <4>3. CASE n # Len(q)
        <5>1. n < Len(q) /\ n + 1 \in 1 .. Len(p) - 1
              /\ Len(p) - 1 \in 0 .. Len(p) /\ n \in 0 .. Len(p) - 1
          BY <3>1, <4>1, <4>3
        <5>2. SubSeq(q, 1, n) = SubSeq(p, 1, n)
          BY <2>2, <3>1, <5>1, PrefixOfPrefix DEF PathSet
        <5>3. q[n + 1] # path[n + 1]
          BY <3>1, <4>1, <5>1
        <5>4. Get(new, q) = Get(obj, q)
          <6>1. path \in Seq(Keys \cup Nat) /\ q \in Seq(Keys \cup Nat)
            BY <2>2, <3>1 DEF PathSet
          <6>2. /\ n \in Nat /\ n < Len(path) /\ n < Len(q)
                /\ SubSeq(q, 1, n) = SubSeq(path, 1, n) /\ q[n + 1] # path[n + 1]
            BY <4>1, <5>1, <5>2, <5>3
          <6>3. Get(Set(obj, path, value), q) = Get(obj, q)
            BY ONLY <6>1, <6>2, SetBeside
          <6> QED
            BY <2>1, <6>3
        <5> QED
          BY <2>11, <5>4 DEF q
      <4> QED
        BY <4>2, <4>3
    <3> QED
      BY <3>2, <3>3
  <2> QED
    BY <2>10, <2>11 DEF new
<1> QED
  BY <1>0, <1>1

LEMMA InListGrows ==
  ASSUME NEW path, NEW list, InList(path, list), NEW r \in PathSet
  PROVE  InList(path \o r, list)
<1> DEFINE n == Len(list) + 1
<1>1. /\ path \in PathSet /\ list \in Seq(Keys) /\ Len(list) \in Nat /\ Len(path) \in Nat
      /\ Len(r) \in Nat /\ Len(list) < Len(path) /\ n \in 1 .. Len(path)
  BY DEF InList, PathSet
<1>2. /\ path \o r \in PathSet /\ Len(path \o r) = Len(path) + Len(r)
      /\ \A i \in 1 .. Len(path) + Len(r) :
           (path \o r)[i] = IF i <= Len(path) THEN path[i] ELSE r[i - Len(path)]
  BY <1>1, ConcatProperties DEF PathSet
<1>3. \A i \in 1 .. Len(path) : (path \o r)[i] = path[i]
  <2>1. \A i \in 1 .. Len(path) : i \in 1 .. Len(path) + Len(r) /\ i <= Len(path)
    BY <1>1
  <2> QED
    BY <1>2, <2>1
<1>4. Len(list) < Len(path \o r) /\ Len(path \o r) \in Nat
  BY <1>1, <1>2
<1>5. SubSeq(path \o r, 1, Len(list)) = SubSeq(path, 1, Len(list))
  <2> DEFINE q == path \o r
             l == Len(list)
  <2>1. /\ q \in PathSet /\ l \in 0 .. Len(q) /\ l \in 0 .. Len(path)
        /\ \A i \in 1 .. l : i \in 1 .. Len(path)
    BY <1>1, <1>2, <1>4
  <2>2. \A i \in 1 .. l : q[i] = path[i]
    BY <1>3, <2>1
  <2> HIDE DEF q, l
  <2>3. /\ SubSeq(q, 1, l) \in Seq(Keys \cup Nat) /\ Len(SubSeq(q, 1, l)) = l
        /\ \A i \in 1 .. l : SubSeq(q, 1, l)[i] = q[i]
    BY <2>1, PrefixEffect DEF PathSet
  <2>4. /\ SubSeq(path, 1, l) \in Seq(Keys \cup Nat) /\ Len(SubSeq(path, 1, l)) = l
        /\ \A i \in 1 .. l : SubSeq(path, 1, l)[i] = path[i]
    BY <1>1, <2>1, PrefixEffect DEF PathSet
  <2>5. \A i \in 1 .. l : SubSeq(q, 1, l)[i] = SubSeq(path, 1, l)[i]
    BY <2>2, <2>3, <2>4
  <2>6. SubSeq(q, 1, l) = SubSeq(path, 1, l)
    BY <2>3, <2>4, <2>5, SeqEqual
  <2> QED
    BY <2>6 DEF q, l
<1> QED
  BY <1>1, <1>2, <1>3, <1>4, <1>5 DEF InList

LEMMA InListStarts ==
  ASSUME NEW list \in Seq(Keys), NEW i \in Nat
  PROVE  InList(list \o <<i>>, list)
<1> DEFINE X == Keys \cup Nat
<1>1. list \in Seq(X) /\ i \in X /\ Len(list) \in Nat
  BY KeyPaths DEF PathSet
<1>2. /\ Append(list, i) \in Seq(X) /\ Len(Append(list, i)) = Len(list) + 1
      /\ Append(list, i)[Len(list) + 1] = i /\ Front(Append(list, i)) = list
      /\ list \o <<i>> = Append(list, i)
  <2> HIDE DEF X
  <2> QED
    BY <1>1, AppendEffect
<1>3. (Len(list) + 1) - 1 = Len(list) /\ Len(list) < Len(list) + 1
  BY <1>1
<1>4. SubSeq(Append(list, i), 1, Len(list)) = list
  BY <1>2, <1>3 DEF Front
<1> QED
  BY <1>2, <1>3, <1>4 DEF InList, PathSet

---------------------------------------------------------------------------
(* The first call is that of the whole object, and the others are of       *)
(* entities of its current list or below them.                             *)
First(cl) == cl[Len(cl)]

CallsBelow(cl) ==
  First(cl).path = <<>> /\ \A k \in 1 .. Len(cl) - 1 : InList(cl[k].path, First(cl).field)

LEMMA BelowReplaced ==
  ASSUME NEW cl, Listed(cl), cl # <<>>, CallsBelow(cl), NEW c, c.path = cl[1].path
  PROVE  CallsBelow(<<c>> \o Tail(cl))
<1> DEFINE t == <<c>> \o Tail(cl)
<1>1. /\ Len(t) = Len(cl) /\ Len(cl) \in Nat \ {0} /\ t[1] = c
      /\ \A k \in 2 .. Len(cl) : t[k] = cl[k]
  BY ReplaceEffect
<1> HIDE DEF t
<1>2. CASE Len(cl) = 1
  <2>1. CallsBelow(t)
    BY <1>1, <1>2 DEF CallsBelow, First
  <2> QED
    BY <2>1 DEF t
<1>3. CASE Len(cl) # 1
  <2>1. Len(cl) \in 2 .. Len(cl) /\ \A k \in 1 .. Len(cl) - 1 : k = 1 \/ k \in 2 .. Len(cl)
    BY <1>1, <1>3
  <2>2. First(t) = First(cl) /\ \A k \in 1 .. Len(cl) - 1 : t[k].path = cl[k].path
    BY <1>1, <2>1 DEF First
  <2>3. CallsBelow(t)
    BY <1>1, <2>2 DEF CallsBelow
  <2> QED
    BY <2>3 DEF t
<1> QED
  BY <1>2, <1>3

LEMMA BelowReturned ==
  ASSUME NEW cl, Listed(cl), Len(cl) > 1, CallsBelow(cl),
         NEW c, c.path = cl[2].path, c.field = cl[2].field
  PROVE  CallsBelow(<<c>> \o Tail(Tail(cl)))
<1> DEFINE t == <<c>> \o Tail(Tail(cl))
<1>1. /\ Len(t) = Len(cl) - 1 /\ Len(cl) \in Nat /\ t[1] = c
      /\ \A k \in 2 .. Len(cl) - 1 : t[k] = cl[k + 1]
  BY ReturnEffect
<1> HIDE DEF t
<1>2. \A k \in 1 .. Len(cl) - 1 : t[k].path = cl[k + 1].path /\ t[k].field = cl[k + 1].field
  <2>1. \A k \in 1 .. Len(cl) - 1 : k = 1 \/ k \in 2 .. Len(cl) - 1
    BY <1>1
  <2> QED
    BY <1>1, <2>1
<1>3. /\ Len(t) \in 1 .. Len(cl) - 1 /\ Len(t) + 1 = Len(cl)
      /\ \A k \in 1 .. Len(t) - 1 : k \in 1 .. Len(cl) - 1 /\ k + 1 \in 1 .. Len(cl) - 1
  BY <1>1
<1>4. First(t).path = First(cl).path /\ First(t).field = First(cl).field
  BY <1>2, <1>3 DEF First
<1>5. CallsBelow(t)
  BY <1>2, <1>3, <1>4 DEF CallsBelow
<1> QED
  BY <1>5 DEF t

LEMMA BelowPushed ==
  ASSUME NEW in, NEW cl, CallsOK(in, cl), CallsBelow(cl), NEW c, c.path = ElementPath(cl[1])
  PROVE  CallsBelow(<<c>> \o cl)
<1> DEFINE t == <<c>> \o cl
           i == Len(cl[1].new_list) + 1
<1>1. Listed(cl) /\ cl # <<>>
  BY DEF CallsOK
<1>2. /\ Len(t) = Len(cl) + 1 /\ t[1] = c
      /\ \A k \in 1 .. Len(cl) : t[k + 1] = cl[k]
  BY <1>1, PushEffect
<1>3. Len(cl) \in Nat \ {0} /\ DOMAIN cl = 1 .. Len(cl)
  BY <1>1, ListedDomain DEF Listed
<1>4. CallOK(in, cl[1])
  BY <1>3 DEF CallsOK
<1>5. i \in Nat
  BY <1>4, ListedDomain DEF CallOK
<1> HIDE DEF t, i
<1>6. /\ First(t) = First(cl) /\ Len(t) \in Nat
      /\ \A k \in 1 .. Len(t) - 1 : k = 1 \/ (k - 1 \in 1 .. Len(cl) - 1 /\ t[k] = cl[k - 1])
  <2>1. Len(cl) \in 1 .. Len(cl)
    BY <1>3
  <2>2. ASSUME NEW k \in 1 .. Len(t) - 1, k # 1
        PROVE  k - 1 \in 1 .. Len(cl) - 1 /\ t[k] = cl[k - 1]
    <3>1. k - 1 \in 1 .. Len(cl) - 1 /\ k - 1 \in 1 .. Len(cl) /\ (k - 1) + 1 = k
      BY <1>2, <1>3, <2>2
    <3> QED
      BY <1>2, <3>1
  <2> QED
    BY <1>2, <1>3, <2>1, <2>2 DEF First
<1>7. InList(c.path, First(cl).field)
  <2> DEFINE a == AbsolutePath(cl[1])
  <2>1. c.path = a \o <<i>>
    BY DEF ElementPath, i
  <2>2. /\ cl[1].path \in PathSet /\ cl[1].field \in Seq(Keys) /\ cl[1].field \in PathSet
        /\ a = cl[1].path \o cl[1].field
    BY <1>4, KeyPaths DEF CallOK, IsEntityPath, AbsolutePath
  <2> HIDE DEF a
  <2>3. CASE Len(cl) = 1
    <3>1. cl[1].path = <<>> /\ First(cl) = cl[1]
      BY <2>3 DEF CallsBelow, First
    <3>2. a = cl[1].field
      BY <2>2, <3>1 DEF PathSet
    <3> QED
      BY <1>5, <2>1, <2>2, <3>1, <3>2, InListStarts
  <2>4. CASE Len(cl) # 1
    <3>1. 1 \in 1 .. Len(cl) - 1
      BY <1>3, <2>4
    <3>2. InList(cl[1].path, First(cl).field)
      BY <3>1 DEF CallsBelow
    <3>3. InList(a, First(cl).field)
      BY <2>2, <3>2, InListGrows
    <3>4. <<i>> \in PathSet
      BY <1>5 DEF PathSet
    <3> QED
      BY <2>1, <3>3, <3>4, InListGrows
  <2> QED
    BY <2>3, <2>4
<1>8. CallsBelow(t)
  BY <1>2, <1>6, <1>7 DEF CallsBelow
<1> QED
  BY <1>8 DEF t

---------------------------------------------------------------------------
(* The aligned copies.                                                     *)

(* The lists unified that are in no other list are those of the inputs,    *)
(* and each is in the copies as it was unified, where there is a place.    *)
TopLists(in, st) ==
  \A p \in DOMAIN st : Listed(st[p]) /\ (p \in Seq(Keys) => IsList(Get(in.head, p)))

AlignedSoFar(in, al, st) ==
  \A side \in Sides : \A p \in DOMAIN st \cap Seq(Keys) :
    Settable(in[side], p) => Get(al[side], p) = AlignedList(st[p], side)

PlacesKept(in, al) ==
  \A side \in Sides : \A p \in Seq(Keys) :
    p # <<>> /\ IsList(Get(in.head, p)) /\ IsDict(Get(in[side], Front(p))) =>
      IsDict(Get(al[side], Front(p)))

AlignedInv ==
  /\ CallsBelow(calls) /\ TopLists(inputs, stats)
  /\ AlignedSoFar(inputs, aligned, stats) /\ PlacesKept(inputs, aligned)

LEMMA SettableList ==
  ASSUME NEW in \in Inputs, NEW side \in Sides, NEW p \in Seq(Keys), p # <<>>,
         Settable(in[side], p)
  PROVE  IsDict(Get(in[side], Front(p)))
<1>1. Front(p) \in Seq(Keys) /\ Last(p) \in Keys
  BY FrontLast
<1>2. in[side] \in Objects(in)
  BY ObjectsClosed DEF Objects
<1>3. ~(IsList(Get(in[side], Front(p))) /\ Last(p) \in Steps(Get(in[side], Front(p))))
  <2> SUFFICES ASSUME IsList(Get(in[side], Front(p))), Last(p) \in Steps(Get(in[side], Front(p)))
               PROVE  FALSE
    OBVIOUS
  <2>1. Last(p) \in Nat
    BY <1>1, <1>2, ListSteps
  <2> QED
    BY <1>1, <2>1, KeysAssumption
<1> QED
  BY <1>3 DEF Settable

(* The end of a list: at the path itself, or somewhere in a list above it. *)
ListEnds(in, list, path, made, al, st, al2, st2) ==
  /\ in \in Inputs /\ list \in Seq(Keys) /\ IsList(Get(in.head, list))
  /\ path = list \/ InList(path, list)
  /\ list \notin DOMAIN st /\ Listed(made)
  /\ TopLists(in, st) /\ AlignedSoFar(in, al, st) /\ PlacesKept(in, al)
  /\ \A side \in Sides : al2[side] = SetIfSettable(al[side], path, AlignedList(made, side))
  /\ DOMAIN st2 = DOMAIN st \cup {path} /\ st2[path] = made
  /\ \A p \in DOMAIN st : p # path => st2[p] = st[p]

LEMMA AlignedFinishes ==
  ASSUME NEW in, NEW list, NEW path, NEW made, NEW al, NEW st, NEW al2, NEW st2,
         ListEnds(in, list, path, made, al, st, al2, st2)
  PROVE  TopLists(in, st2) /\ AlignedSoFar(in, al2, st2) /\ PlacesKept(in, al2)
<1>0. /\ in \in Inputs /\ list \in Seq(Keys) /\ IsList(Get(in.head, list))
      /\ path = list \/ InList(path, list)
      /\ list \notin DOMAIN st /\ Listed(made)
      /\ TopLists(in, st) /\ AlignedSoFar(in, al, st) /\ PlacesKept(in, al)
  BY DEF ListEnds
<1>1. /\ DOMAIN st2 = DOMAIN st \cup {path} /\ st2[path] = made
      /\ \A p \in DOMAIN st : p # path => st2[p] = st[p]
  BY DEF ListEnds
<1>2. \A side \in Sides : al2[side] = SetIfSettable(al[side], path, AlignedList(made, side))
  BY DEF ListEnds
<1> USE <1>0
<1>3. path \in Seq(Keys) => path = list
  <2> SUFFICES ASSUME InList(path, list), path \in Seq(Keys) PROVE FALSE
    OBVIOUS
  <2>1. Len(list) + 1 \in 1 .. Len(path) /\ path[Len(list) + 1] \in Nat
    BY DEF InList
  <2>2. path[Len(list) + 1] \in Keys
    BY <2>1
  <2> QED
    BY <2>1, <2>2, KeysAssumption
<1>4. in.head \in Objects(in)
  BY ObjectsClosed DEF Objects, Sides
<1>5. ASSUME NEW side \in Sides, NEW p \in Seq(Keys), IsList(Get(in.head, p))
      PROVE  /\ p # list => Get(al2[side], p) = Get(al[side], p)
             /\ p # <<>> /\ IsDict(Get(al[side], Front(p))) => IsDict(Get(al2[side], Front(p)))
  <2> DEFINE o == al[side]
             v == AlignedList(made, side)
  <2>1. al2[side] = SetIfSettable(o, path, v)
    BY <1>2
  <2> HIDE DEF o, v
  <2>2. /\ p # list => Get(SetIfSettable(o, path, v), p) = Get(o, p)
        /\ p # <<>> /\ IsDict(Get(o, Front(p))) => IsDict(Get(SetIfSettable(o, path, v), Front(p)))
    BY <1>4, <1>5, SetInList
  <2> QED
    BY <2>1, <2>2 DEF o
<1>6. TopLists(in, st2)
  BY <1>1, <1>3 DEF TopLists
<1>7. PlacesKept(in, al2)
  BY <1>5 DEF PlacesKept
<1>8. AlignedSoFar(in, al2, st2)
  <2> SUFFICES ASSUME NEW side \in Sides, NEW p \in DOMAIN st2, p \in Seq(Keys),
                      Settable(in[side], p)
               PROVE  Get(al2[side], p) = AlignedList(st2[p], side)
    BY DEF AlignedSoFar
  <2>1. CASE p = path
    <3>1. p = list
      BY <1>3, <2>1
    <3>2. Settable(al[side], p)
      <4>1. CASE p = <<>>
        BY <4>1 DEF Settable
      <4>2. CASE p # <<>>
        <5>1. IsDict(Get(in[side], Front(p)))
          BY <4>2, SettableList
        <5>2. IsDict(Get(al[side], Front(p)))
          BY <3>1, <4>2, <5>1 DEF PlacesKept
        <5> QED
          BY <5>2 DEF Settable
      <4> QED
        BY <4>1, <4>2
    <3>3. al2[side] = Set(al[side], p, AlignedList(made, side))
      BY <1>2, <2>1, <3>2 DEF SetIfSettable
    <3>4. Get(al2[side], p) = AlignedList(made, side)
      BY <3>2, <3>3, SetThere
    <3> QED
      BY <1>1, <2>1, <3>4
  <2>2. CASE p # path
    <3>1. p \in DOMAIN st /\ st2[p] = st[p] /\ p # list
      BY <1>1, <2>2
    <3>2. Get(al[side], p) = AlignedList(st[p], side)
      BY <3>1 DEF AlignedSoFar
    <3>3. Get(al2[side], p) = Get(al[side], p)
      BY <1>5, <3>1 DEF TopLists
    <3> QED
      BY <3>1, <3>2, <3>3
  <2> QED
    BY <2>1, <2>2
<1> QED
  BY <1>6, <1>7, <1>8

LEMMA InitAligned == Init => AlignedInv
<1> SUFFICES ASSUME Init PROVE AlignedInv
  OBVIOUS
<1>1. /\ calls = <<Call(<<>>, inputs)>> /\ stats = <<>> /\ aligned = inputs
  BY DEF Init
<1>2. Len(calls) = 1 /\ calls[1].path = <<>> /\ DOMAIN stats = {}
  BY <1>1 DEF Call
<1>3. CallsBelow(calls)
  BY <1>2 DEF CallsBelow, First
<1> QED
  BY <1>1, <1>2, <1>3 DEF AlignedInv, TopLists, AlignedSoFar, PlacesKept

LEMMA StepKeepsAligned == KeptInv /\ AlignedInv /\ [Next]_vars => AlignedInv'
<1> SUFFICES ASSUME KeptInv, AlignedInv, [Next]_vars PROVE AlignedInv'
  OBVIOUS
<1>0. /\ CallsOK(inputs, calls) /\ CallsNest(calls) /\ ListsLeftNew(calls, stats)
      /\ Listed(calls) /\ calls # <<>> /\ inputs \in Inputs /\ CallOK(inputs, Top)
      /\ CallsKept(inputs, config, calls, stats, conflicts)
  BY TopIs DEF KeptInv, StackInv, CallsOK
<1>1. ASSUME inputs' = inputs, aligned' = aligned, stats' = stats, CallsBelow(calls')
      PROVE  AlignedInv'
  BY <1>1 DEF AlignedInv
<1>2. ASSUME NEW c, calls' = <<c>> \o Tail(calls), c.path = Top.path
      PROVE  CallsBelow(calls')
  BY <1>0, <1>2, BelowReplaced DEF AlignedInv, Top
<1>3. CASE UNCHANGED vars
  BY <1>3 DEF AlignedInv, vars
<1>4. CASE MergeLists
  BY <1>0, <1>1, <1>2, <1>4 DEF MergeLists, SetTop, CallOK, Call
<1>5. CASE MergeObject
  <2>1. inputs' = inputs /\ aligned' = aligned /\ stats' = stats
    BY <1>5 DEF MergeObject, Raise
  <2>2. CASE Raise("rule_error") \/ Raise("shifting")
    BY <1>1, <2>1, <2>2 DEF Raise, AlignedInv
  <2>3. CASE ~Raise("rule_error") /\ ~Raise("shifting")
    <3> DEFINE m == MergeObjects(Top.root, Top.head, Top.update, Top.path)
               c == [Top EXCEPT !.at = "lists", !.root = m.root, !.lists = m.skipped]
    <3>1. calls' = <<c>> \o Tail(calls)
      BY <1>5, <2>3, ObjectMerged
    <3> HIDE DEF m
    <3>2. c.path = Top.path
      BY <1>0 DEF CallOK, Call
    <3> HIDE DEF c
    <3> QED
      BY <1>1, <1>2, <2>1, <3>1, <3>2
  <2> QED
    BY <2>2, <2>3
<1>6. CASE StartList
  BY <1>0, <1>1, <1>2, <1>6 DEF StartList, SetTop, CallOK, Call
<1>7. CASE UnifyLists
  BY <1>0, <1>1, <1>2, <1>7 DEF UnifyLists, SetTop, CallOK, Call
<1>8. CASE RootKeyError \/ TooManyToUnify \/ RootNotAList \/ Return
  BY <1>1, <1>8 DEF RootKeyError, TooManyToUnify, RootNotAList, Return, Raise, AlignedInv
<1>9. CASE MergeElement
  BY <1>0, <1>1, <1>9, BelowPushed DEF MergeElement, AlignedInv, Top, Call
<1>10. CASE ReturnElement
  <2> DEFINE d == [calls[2] EXCEPT !.new_list = Append(@, Top.root)]
  <2>1. /\ calls' = <<d>> \o Tail(Tail(calls)) /\ Len(calls) > 1
        /\ inputs' = inputs /\ aligned' = aligned /\ stats' = stats
    BY <1>10 DEF ReturnElement, Appended
  <2>2. CallOK(inputs, calls[2])
    <3>1. 2 \in DOMAIN calls
      BY <1>0, <2>1, ListedDomain
    <3> QED
      BY <1>0, <3>1 DEF CallsOK
  <2>3. d.path = calls[2].path /\ d.field = calls[2].field
    BY <2>2 DEF CallOK, Call
  <2> HIDE DEF d
  <2>4. CallsBelow(calls')
    BY <1>0, <2>1, <2>3, BelowReturned DEF AlignedInv
  <2> QED
    BY <1>1, <2>1, <2>4
<1>11. CASE FinishList
  <2> DEFINE first == First(calls)
             list  == first.field
             path  == AbsolutePath(Top)
  <2>1. Len(calls) \in Nat \ {0} /\ DOMAIN calls = 1 .. Len(calls)
    BY <1>0, ListedDomain DEF Listed
  <2>2. first.at = "elements"
    <3>1. CASE Len(calls) = 1
      BY <1>11, <3>1 DEF FinishList, At, First, Top
    <3>2. CASE Len(calls) # 1
      <4>1. Len(calls) \in 2 .. Len(calls)
        BY <2>1, <3>2
      <4> QED
        BY <1>0, <4>1 DEF CallsNest, First
    <3> QED
      BY <3>1, <3>2
  <2>3. /\ CallOK(inputs, first) /\ first.path = <<>> /\ Len(calls) \in DOMAIN calls
        /\ CallKept(inputs, config, calls, stats, conflicts, first)
    BY <1>0, <2>1 DEF CallsOK, CallsKept, AlignedInv, CallsBelow, First
  <2>4. /\ list \in Seq(Keys) /\ list \in first.lists /\ IsList(Get(inputs.head, list))
    <3>1. first.head = inputs.head
      BY <2>3 DEF CallKept, TriplesAt
    <3> QED
      BY <2>2, <2>3, <3>1 DEF CallOK
  <2>5. list \notin DOMAIN stats
    <3>1. AbsolutePath(first) = list
      BY <2>3, <2>4 DEF AbsolutePath
    <3>2. EntityPath(list) = first.path /\ Field(list) = list
      BY <2>3, <3>1, AbsolutePathIs
    <3> QED
      BY <1>0, <2>3, <2>4, <3>2 DEF ListsLeftNew, First
  <2>6. path = list \/ InList(path, list)
    <3>1. CASE Len(calls) = 1
      <4>1. first = Top /\ Top.path = <<>>
        BY <2>3, <3>1 DEF First, Top
      <4> QED
        BY <2>4, <4>1 DEF AbsolutePath
    <3>2. CASE Len(calls) # 1
      <4>1. 1 \in 1 .. Len(calls) - 1
        BY <2>1, <3>2
      <4>2. InList(Top.path, list) /\ Top.field \in PathSet
        BY <1>0, <4>1, KeyPaths DEF AlignedInv, CallsBelow, CallOK, Top
      <4> QED
        BY <4>2, InListGrows DEF AbsolutePath
    <3> QED
      BY <3>1, <3>2
  <2>7. Listed(Top.unified)
    BY <1>0, <1>11 DEF CallOK, FinishList, At
  <2>8. /\ inputs' = inputs
        /\ aligned' = [side \in Sides |-> SetIfSettable(aligned[side], path, AlignedList(Top.unified, side))]
        /\ stats' = [p \in DOMAIN stats \cup {path} |-> IF p = path THEN Top.unified ELSE stats[p]]
    BY <1>11 DEF FinishList
  <2>9. CallsBelow(calls')
    <3> DEFINE r == Set(Top.root, Top.field, List(Top.new_list))
               c == [Top EXCEPT !.at = "lists", !.lists = ListsLeft(Top), !.root = r]
    <3>1. calls' = <<c>> \o Tail(calls)
      BY <1>11 DEF FinishList, SetTop
    <3> HIDE DEF r
    <3>2. c.path = Top.path
      BY <1>0 DEF CallOK, Call
    <3> HIDE DEF c
    <3> QED
      BY <1>2, <3>1, <3>2
  <2> HIDE DEF first, list, path
  <2>10. TopLists(inputs, stats') /\ AlignedSoFar(inputs, aligned', stats') /\ PlacesKept(inputs, aligned')
    <3>1. ListEnds(inputs, list, path, Top.unified, aligned, stats, aligned', stats')
      BY <1>0, <2>4, <2>5, <2>6, <2>7, <2>8 DEF AlignedInv, ListEnds
    <3> QED
      BY ONLY <3>1, AlignedFinishes
  <2> QED
    BY <2>8, <2>9, <2>10 DEF AlignedInv
<1> QED
  BY <1>3, <1>4, <1>5, <1>6, <1>7, <1>8, <1>9, <1>10, <1>11 DEF Next, Merge, Done

(* When the merge ends, every unified list that is in no other list is in  *)
(* each aligned copy that has a place for it, the objects of one triple at *)
(* one position: the lists unified later, in its entities or beside it,    *)
(* leave it as it is.                                                      *)
THEOREM OutermostAlwaysAligned == Spec => []OutermostAligned
<1>1. AlignedInv => OutermostAligned
  <2> SUFFICES ASSUME AlignedInv, NEW p \in DOMAIN stats, p \in Seq(Keys),
                      NEW side \in Sides, Settable(inputs[side], p)
               PROVE  LET list == Get(aligned[side], p)
                      IN /\ IsList(list) /\ Len(list.elems) = Len(stats[p])
                         /\ \A i \in DOMAIN stats[p] :
                              list.elems[i] = OrPlaceholder(stats[p][i][side])
    BY DEF OutermostAligned, AlignedAt
  <2>1. Get(aligned[side], p) = AlignedList(stats[p], side)
    BY DEF AlignedInv, AlignedSoFar
  <2>2. Len(stats[p]) \in Nat /\ DOMAIN stats[p] = 1 .. Len(stats[p])
    BY ListedDomain DEF AlignedInv, TopLists
  <2> DEFINE f == [i \in DOMAIN stats[p] |-> OrPlaceholder(stats[p][i][side])]
  <2>3. AlignedList(stats[p], side) = List(f)
    BY DEF AlignedList
  <2>4. Len(f) = Len(stats[p])
    BY <2>2
  <2> HIDE DEF f
  <2>5. IsList(List(f)) /\ List(f).elems = f
    BY DEF IsList, List
  <2> QED
    BY <2>1, <2>3, <2>4, <2>5 DEF f
<1> QED
  BY <1>1, InitKept, StepKeepsKept, InitAligned, StepKeepsAligned, PTL DEF Spec

---------------------------------------------------------------------------
(* What one merge of two objects leaves in their place.                    *)

LEMMA ValuesTree ==
  ASSUME NEW in \in Inputs, NEW v \in Values(in)
  PROVE  Tree(v)
<1>1. PICK side \in Sides : v \in ValuesOf(in[side])
  BY DEF Values
<1>2. PICK p \in PathsOf(in[side]) : v = Get(in[side], p)
  BY <1>1 DEF ValuesOf
<1>3. IsJson(in[side])
  BY InputsAssumption DEF Sides
<1> QED
  BY <1>2, <1>3, JsonBelow

LEMMA NothingBelow ==
  ASSUME NEW f \in Seq(Keys)
  PROVE  ~IsList(Get(NOTHING, f))
<1>1. Steps(NOTHING) = {}
  BY DEF Steps, Children, NOTHING, IsDict, IsList
<1>2. \A v \in {NOTHING} : \A k \in Steps(v) : Children(v)[k] \in {NOTHING}
  BY <1>1
<1>3. NOTHING \in {NOTHING}
  OBVIOUS
<1>4. Get(NOTHING, f) \in {NOTHING} \cup {Missing}
  BY <1>2, <1>3, GetClosed
<1> QED
  BY <1>4 DEF NOTHING, Missing, IsList

(* An object with a list to unify is there, and has lists.                 *)
LEMMA ListThere ==
  ASSUME NEW in \in Inputs, NEW obj \in Objects(in), NEW f \in Seq(Keys), IsList(Get(obj, f))
  PROVE  obj # NOTHING /\ obj \in Values(in) /\ HasLists(obj)
<1>1. obj # NOTHING /\ obj \in Values(in)
  BY NothingBelow DEF Objects
<1>2. Tree(obj)
  BY <1>1, ValuesTree
<1>3. f \in PathsOf(obj)
  <2>1. CASE f = <<>>
    <3>1. Len(<<>>) = 0 /\ 0 <= MaxDepth /\ Into(obj, <<>>) /\ <<>> \in Seq(AllSteps)
      BY DepthAssumption DEF Into
    <3> QED
      BY <2>1, <3>1, KeyPathsOf
  <2>2. CASE f # <<>>
    <3>1. Front(f) \in Seq(Keys) /\ Last(f) \in Keys /\ f = Append(Front(f), Last(f))
      BY <2>2, FrontLast
    <3>2. Get(obj, f) # Missing
      BY DEF Missing, IsList
    <3> QED
      BY <1>2, <3>1, <3>2, StepFound, KeysAreSteps
  <2> QED
    BY <2>1, <2>2
<1> QED
  BY <1>1, <1>3 DEF HasLists

LEMMA NothingCut ==
  ASSUME NEW obj, NEW cut, Cut({}, obj, cut)
  PROVE  cut = obj
<1>1. <<>> \in Seq(AllSteps)
  OBVIOUS
<1>2. Get(cut, <<>>) = Get(obj, <<>>)
  BY <1>1 DEF Cut
<1> QED
  BY <1>2, GetEmpty

(* What EntitiesInPlace says of an entity, which is there.                 *)
Stands(t, obj) == EntityOf(t, obj) /\ obj # Missing

LEMMA MergedThere ==
  ASSUME NEW m, MergeOf(m)
  PROVE  m.merged # Missing
<1>1. <<>> \in Seq(AllSteps) /\ Len(<<>>) = 0
  OBVIOUS
<1>2. ASSUME NEW p \in Seq(AllSteps), p # <<>> PROVE ~IsPrefix(p, <<>>)
  <2>1. Len(p) \in Nat /\ Len(p) # 0
    BY <1>2
  <2> QED
    BY <1>1, <2>1 DEF IsPrefix
<1>3. /\ \A x \in m.unified : ~IsPrefix(x.path, <<>>)
      /\ \A p \in m.lists : ~IsPrefix(p, <<>>)
  <2>1. \A x \in m.unified : x.path \in Seq(AllSteps) /\ x.path # <<>>
    BY MergeTrees DEF PatchesOK, PatchOK
  <2>2. \A p \in m.lists : p \in Seq(AllSteps) /\ p # <<>>
    BY KeysAreSteps DEF MergeOf, Apart
  <2> QED
    BY <1>2, <2>1, <2>2
<1>4. IsDict(Get(m.merged, <<>>)) <=> IsDict(Get(m.cut, <<>>))
  BY <1>1, <1>3 DEF MergeOf, Effect, Restored, OneShape
<1>5. IsDict(m.merged)
  BY <1>4, MergeTrees, GetEmpty
<1> QED
  BY <1>5 DEF IsDict, Missing

(* MergeObjects.                                                           *)
MergedAs(in, head, update, root, m) ==
  /\ Stands([head |-> head, update |-> update], m.root)
  /\ \A f \in m.skipped : f # <<>> /\ f \in Seq(Keys) /\ IsDict(Get(m.root, Front(f)))
  /\ \A f \in m.skipped : Get(m.root, f) \in (Roots(in) \cap {Get(root, f)}) \cup {Missing}

LEMMA BaseMerged ==
  ASSUME NEW in \in Inputs, NEW head \in Objects(in), NEW update \in Objects(in), NEW root, NEW path,
         ~MergeBaseValues(root, head, update, path).raised
  PROVE  MergedAs(in, head, update, root, MergeBaseValues(root, head, update, path))
<1> DEFINE m == MergeBaseValues(root, head, update, path)
<1>1. m.skipped = {} /\ head # Missing /\ update # Missing
  BY ObjectsClosed DEF MergeBaseValues, Outcome, Objects, NOTHING, Missing
<1>2. CASE Agreed(root, head, update)
  <2>1. m.root = IF UpdateWins(root, head, update) THEN update ELSE head
    BY <1>2 DEF MergeBaseValues, Outcome
  <2> QED
    BY <1>1, <2>1 DEF MergedAs, Stands, EntityOf, UpdateWins
<1>3. CASE ~Agreed(root, head, update)
  <2>1. head # update /\ NOTHING \notin {head, update}
    BY <1>3 DEF Agreed
  <2> QED
    BY <1>1, <1>3, <2>1 DEF MergedAs, Stands, EntityOf, MergeBaseValues, Outcome
<1> QED
  BY <1>2, <1>3

LEMMA DictsMerged ==
  ASSUME NEW in \in Inputs, NEW head \in Objects(in), IsDict(head),
         NEW update \in Objects(in), IsDict(update), NEW root \in Roots(in), NEW path,
         ~MergeDicts(root, head, update, path).raised
  PROVE  MergedAs(in, head, update, root, MergeDicts(root, head, update, path))
<1> DEFINE t == TheMerge(root, head, update, path)
           m == MergeDicts(root, head, update, path)
<1>1. head # NOTHING /\ update # NOTHING /\ (IsDict(root) => root \in Values(in))
  BY RootsClosed DEF NOTHING, IsDict, IsContainer
<1>2. Tree(head) /\ Tree(update) /\ (IsDict(root) => Tree(root))
  BY <1>1, ValuesTree DEF Objects
<1>3. MergeOf(t)
  BY <1>2, TheMergeIs
<1>4. m.root = t.merged /\ m.skipped = t.lists
  <2>1. m = Outcome(NOTHING, {}, {}, TRUE) \/ m = Outcome(t.merged, ShownBy(t), t.lists, FALSE)
    BY MergeDictsMeans
  <2> HIDE DEF t
  <2> QED
    BY <2>1 DEF Outcome
<1>5. t.oldroot = OldRootOf(root) /\ t.oldhead = head /\ t.oldupdate = update
  BY DEF TheMerge
<1>50. t.lists = SkippedLists(head, update, path)
  BY DEF TheMerge
<1> HIDE DEF t, m
<1>6. Stands([head |-> head, update |-> update], m.root)
  <2> SUFFICES ASSUME head = update, ~HasLists(head) PROVE m.root = head
    BY <1>1, <1>3, <1>4, MergedThere DEF Stands, EntityOf
  <2>1. t.lists = {}
    BY <1>50 DEF SkippedLists, ListFields, HasLists
  <2>2. t.head = head /\ t.update = update /\ t.seen = t.merged
    BY <1>3, <1>5, <2>1, NothingCut DEF MergeOf
  <2>3. t.seen = t.head
    BY <1>3, <2>2, OneSidedMerge
  <2> QED
    BY <1>4, <2>2, <2>3
<1>7. ASSUME NEW f \in t.lists
      PROVE  /\ f # <<>> /\ f \in Seq(Keys) /\ IsDict(Get(t.merged, Front(f)))
             /\ Get(t.merged, f) \in (Roots(in) \cap {Get(root, f)}) \cup {Missing}
  <2>1. f # <<>> /\ f \in Seq(Keys)
    BY <1>3, <1>7 DEF MergeOf, Apart
  <2>2. IsDict(Get(t.merged, Front(f))) /\ Get(t.merged, f) \in {Get(OldRootOf(root), f), Missing}
    BY <1>3, <1>5, <1>7, ParentMerged, ListsRestored
  <2>3. CASE IsDict(root)
    <3>1. Get(root, f) \in Roots(in) \cup {Missing}
      BY <2>1, RootsClosed, GetClosed
    <3> QED
      BY <2>1, <2>2, <2>3, <3>1 DEF OldRootOf
  <2>4. CASE ~IsDict(root)
    <3>1. Get(EmptyDict, f) = Missing
      <4> SUFFICES ASSUME Get(EmptyDict, f) # Missing PROVE FALSE
        OBVIOUS
      <4>1. 0 \in Nat /\ 0 < Len(f)
        BY <2>1
      <4>2. f[0 + 1] \in Steps(Get(EmptyDict, SubSeq(f, 1, 0)))
        BY <2>1, <4>1, FoundOn
      <4>3. SubSeq(f, 1, 0) = <<>>
        BY <2>1, PrefixEnds
      <4>4. Steps(EmptyDict) = {}
        BY DEF Steps, Children, EmptyDict, Dict, IsDict
      <4> QED
        BY <4>2, <4>3, <4>4, GetEmpty
    <3> QED
      BY <2>1, <2>2, <2>4, <3>1 DEF OldRootOf
  <2> QED
    BY <2>3, <2>4
<1>8. MergedAs(in, head, update, root, m)
  BY <1>4, <1>6, <1>7 DEF MergedAs
<1> QED
  BY <1>8 DEF m

LEMMA ObjectsMerged ==
  ASSUME NEW in \in Inputs, NEW head \in Objects(in), NEW update \in Objects(in),
         NEW root \in Roots(in), NEW path, ~MergeObjects(root, head, update, path).raised
  PROVE  MergedAs(in, head, update, root, MergeObjects(root, head, update, path))
<1>1. CASE IsDict(head) /\ IsDict(update)
  BY <1>1, DictsMerged DEF MergeObjects
<1>2. CASE ~(IsDict(head) /\ IsDict(update))
  BY <1>2, BaseMerged DEF MergeObjects
<1> QED
  BY <1>1, <1>2

(* The keys of a dictionary as the entities of a list.                     *)
LEMMA KeysListed ==
  ASSUME NEW in \in Inputs, NEW obj \in Roots(in), IsDict(obj)
  PROVE  KeysAsList(obj).elems \in Seq({Base(k) : k \in Steps(obj)}) /\ Steps(obj) \subseteq Keys
<1> DEFINE K == Steps(obj)
           S == {Base(k) : k \in K}
           g == [k \in K |-> Base(k)]
<1>1. Tree(obj)
  BY RootsClosed, ValuesTree DEF IsContainer
<1>2. IsFiniteSet(K)
  <2>1. Get(obj, <<>>) = obj /\ <<>> \in Seq(AllSteps)
    BY GetEmpty
  <2> QED
    BY <1>1, <2>1, FiniteSteps DEF IsContainer
<1>3. g \in [K -> S] /\ \A x \in S : \E k \in K : g[k] = x
  OBVIOUS
<1>4. K \subseteq Keys
  <2>1. Get(obj, <<>>) = obj /\ <<>> \in Seq(AllSteps)
    BY GetEmpty
  <2> QED
    BY <1>1, <2>1 DEF Tree, Fitting, Fits
<1> HIDE DEF g, K, S
<1>5. IsFiniteSet(S)
  BY <1>2, <1>3, FiniteImage
<1>6. Cardinality(S) \in Nat /\ \E f : f \in [1 .. Cardinality(S) -> S] /\ IsInjective(f)
  BY <1>5, FS_CardinalityType DEF ExistsBijection, Bijection, Injection
<1>7. SetToSeq(S) \in [1 .. Cardinality(S) -> S]
  BY <1>6 DEF SetToSeq
<1>8. SetToSeq(S) \in Seq(S)
  BY <1>6, <1>7
<1> QED
  BY <1>4, <1>8 DEF KeysAsList, List, S, K

---------------------------------------------------------------------------
(* Where the merged objects and the unified lists are while merging goes   *)
(* on.                                                                     *)

(* The list at a path of an object, its entities those of the triples.     *)
IsPlaced(obj, path, made) ==
  LET list == Get(obj, path)
  IN /\ IsList(list) /\ Len(list.elems) = Len(made) /\ DOMAIN list.elems = DOMAIN made
     /\ \A i \in DOMAIN made : Stands(made[i], list.elems[i])

(* The lists still to be unified have a place, and what root has there is  *)
(* of the inputs.                                                          *)
RootReady(in, c) ==
  /\ Stands(c, c.root)
  /\ \A f \in c.lists : f # <<>> => IsDict(Get(c.root, Front(f)))
  /\ \A f \in c.lists : Get(c.root, f) \in Roots(in) \cup {Missing, List(<<>>)}

UnifierRoot(in, c) ==
  /\ c.unifier.lists["root"].elems \in Seq(Roots(in))
  /\ c.unifier.len["root"] = Len(c.unifier.lists["root"].elems)

ElementsPlaced(in, c) ==
  /\ \A i \in DOMAIN c.unified : c.unified[i].root \in Roots(in)
  /\ Len(c.new_list) <= Len(c.unified)
  /\ \A i \in 1 .. Len(c.new_list) : Stands(c.unified[i], c.new_list[i])

CallReady(in, c) ==
  /\ c.at = "entry" => c.root \in Roots(in)
  /\ c.at # "entry" => RootReady(in, c)
  /\ c.at = "unify" => UnifierRoot(in, c)
  /\ c.at = "elements" => ElementsPlaced(in, c)

CallsReady(in, cl) == \A k \in DOMAIN cl : CallReady(in, cl[k])

(* A call merges the next triple of the list of the call around it.        *)
NextTriple(c) == c.unified[Len(c.new_list) + 1]

CallsEntered(cl) ==
  \A k \in 2 .. Len(cl) :
    /\ Len(cl[k].new_list) < Len(cl[k].unified)
    /\ cl[k - 1].head = NextTriple(cl[k]).head /\ cl[k - 1].update = NextTriple(cl[k]).update

(* A list that was unified is at its path in the object of a call, or in   *)
(* an entity that a call has merged.                                       *)
InRoot(c, p, made) ==
  /\ c.at # "entry"
  /\ \E f \in Seq(Keys), r \in PathSet :
       /\ p = c.path \o (f \o r) /\ f \notin c.lists /\ IsList(Get(c.head, f))
       /\ IsPlaced(Get(c.root, f), r, made)

InNew(c, p, made) ==
  /\ c.at = "elements"
  /\ \E i \in 1 .. Len(c.new_list), r \in PathSet :
       p = AbsolutePath(c) \o (<<i>> \o r) /\ IsPlaced(c.new_list[i], r, made)

InCall(c, p, made) == InRoot(c, p, made) \/ InNew(c, p, made)

ListsPlaced(cl, st) ==
  \A p \in DOMAIN st : Listed(st[p]) /\ \E k \in DOMAIN cl : InCall(cl[k], p, st[p])

PlacedInv ==
  /\ CallsReady(inputs, calls) /\ CallsEntered(calls) /\ ListsPlaced(calls, stats)
  /\ Merged => merged_root = calls[1].root

---------------------------------------------------------------------------
(* The running call goes on.                                               *)
Inherits(c, d) == \A p, made : InCall(c, p, made) => InCall(d, p, made)

LEMMA PlacedReplaced ==
  ASSUME NEW in, NEW cl, CallsOK(in, cl), CallsReady(in, cl), CallsEntered(cl), NEW st, ListsPlaced(cl, st),
         NEW c, CallReady(in, c), c.head = cl[1].head, c.update = cl[1].update, Inherits(cl[1], c)
  PROVE  LET t == <<c>> \o Tail(cl) IN CallsReady(in, t) /\ CallsEntered(t) /\ ListsPlaced(t, st)
<1> DEFINE t == <<c>> \o Tail(cl)
<1>1. /\ Listed(cl) /\ cl # <<>>
  BY DEF CallsOK
<1>2. /\ Listed(t) /\ Len(t) = Len(cl) /\ Len(cl) \in Nat \ {0} /\ t[1] = c
      /\ \A k \in 2 .. Len(cl) : t[k] = cl[k]
  BY <1>1, ReplaceEffect
<1> HIDE DEF t
<1>3. DOMAIN t = 1 .. Len(cl) /\ DOMAIN cl = 1 .. Len(cl)
  BY <1>1, <1>2, ListedDomain
<1>4. \A k \in 1 .. Len(cl) : k = 1 \/ k \in 2 .. Len(cl)
  BY <1>2
<1>5. CallsReady(in, t)
  BY <1>2, <1>3, <1>4 DEF CallsReady
<1>6. CallsEntered(t)
  <2> SUFFICES ASSUME NEW k \in 2 .. Len(t)
               PROVE  /\ Len(t[k].new_list) < Len(t[k].unified)
                      /\ t[k - 1].head = NextTriple(t[k]).head /\ t[k - 1].update = NextTriple(t[k]).update
    BY DEF CallsEntered
  <2>1. k \in 2 .. Len(cl) /\ (k - 1 = 1 \/ k - 1 \in 2 .. Len(cl))
    BY <1>2
  <2>2. t[k - 1].head = cl[k - 1].head /\ t[k - 1].update = cl[k - 1].update
    BY <1>2, <2>1
  <2> QED
    BY <1>2, <2>1, <2>2 DEF CallsEntered
<1>7. ListsPlaced(t, st)
  <2> SUFFICES ASSUME NEW p \in DOMAIN st PROVE \E k \in DOMAIN t : InCall(t[k], p, st[p])
    BY DEF ListsPlaced
  <2>1. PICK k \in DOMAIN cl : InCall(cl[k], p, st[p])
    BY DEF ListsPlaced
  <2>2. InCall(t[k], p, st[p])
    BY <1>2, <1>3, <1>4, <2>1 DEF Inherits
  <2> QED
    BY <1>3, <2>1, <2>2
<1> QED
  BY <1>5, <1>6, <1>7 DEF t

(* What is not placed in a list of its own anew stays where it is.         *)
LEMMA SameInherits ==
  ASSUME NEW c, NEW d, d.path = c.path, d.head = c.head, d.lists = c.lists, d.root = c.root,
         c.at \notin {"entry", "elements"}, d.at # "entry"
  PROVE  Inherits(c, d)
BY DEF Inherits, InCall, InRoot, InNew

LEMMA EntryInherits ==
  ASSUME NEW c, NEW d, c.at = "entry"
  PROVE  Inherits(c, d)
BY DEF Inherits, InCall, InRoot, InNew

(* A new call.                                                             *)
LEMMA PlacedPushed ==
  ASSUME NEW in, NEW cl, CallsOK(in, cl), CallsReady(in, cl), CallsEntered(cl), NEW st, ListsPlaced(cl, st),
         NEW c, CallReady(in, c), Len(cl[1].new_list) < Len(cl[1].unified),
         c.head = NextTriple(cl[1]).head, c.update = NextTriple(cl[1]).update
  PROVE  LET t == <<c>> \o cl IN CallsReady(in, t) /\ CallsEntered(t) /\ ListsPlaced(t, st)
<1> DEFINE t == <<c>> \o cl
<1>1. /\ Listed(cl) /\ cl # <<>>
  BY DEF CallsOK
<1>2. /\ Listed(t) /\ Len(t) = Len(cl) + 1 /\ t[1] = c
      /\ \A k \in 1 .. Len(cl) : t[k + 1] = cl[k]
  BY <1>1, PushEffect
<1> HIDE DEF t
<1>3. /\ DOMAIN t = 1 .. Len(cl) + 1 /\ DOMAIN cl = 1 .. Len(cl) /\ Len(cl) \in Nat
  BY <1>1, <1>2, ListedDomain
<1>4. \A k \in 1 .. Len(cl) + 1 : k = 1 \/ (k - 1 \in 1 .. Len(cl) /\ t[k] = cl[k - 1])
  <2> SUFFICES ASSUME NEW k \in 1 .. Len(cl) + 1, k # 1
               PROVE  k - 1 \in 1 .. Len(cl) /\ t[k] = cl[k - 1]
    OBVIOUS
  <2>1. k - 1 \in 1 .. Len(cl) /\ (k - 1) + 1 = k
    BY <1>3
  <2> QED
    BY <1>2, <2>1
<1>5. CallsReady(in, t)
  BY <1>2, <1>3, <1>4 DEF CallsReady
<1>6. CallsEntered(t)
  <2> SUFFICES ASSUME NEW k \in 2 .. Len(t)
               PROVE  /\ Len(t[k].new_list) < Len(t[k].unified)
                      /\ t[k - 1].head = NextTriple(t[k]).head /\ t[k - 1].update = NextTriple(t[k]).update
    BY DEF CallsEntered
  <2>1. k \in 1 .. Len(cl) + 1 /\ k # 1 /\ k - 1 \in 1 .. Len(cl) + 1
    BY <1>2, <1>3
  <2>2. t[k] = cl[k - 1]
    BY <1>4, <2>1
  <2>3. CASE k - 1 = 1
    BY <1>2, <2>2, <2>3
  <2>4. CASE k - 1 # 1
    <3>1. t[k - 1] = cl[(k - 1) - 1] /\ k - 1 \in 2 .. Len(cl)
      BY <1>3, <1>4, <2>1, <2>4
    <3> QED
      BY <2>2, <3>1 DEF CallsEntered
  <2> QED
    BY <2>3, <2>4
<1>7. ListsPlaced(t, st)
  <2> SUFFICES ASSUME NEW p \in DOMAIN st PROVE \E k \in DOMAIN t : InCall(t[k], p, st[p])
    BY DEF ListsPlaced
  <2>1. PICK k \in DOMAIN cl : InCall(cl[k], p, st[p])
    BY DEF ListsPlaced
  <2>2. k + 1 \in DOMAIN t /\ t[k + 1] = cl[k]
    BY <1>2, <1>3, <2>1
  <2> QED
    BY <2>1, <2>2
<1> QED
  BY <1>5, <1>6, <1>7 DEF t

(* A call returns: what its object has is in the entity that it merged.    *)
LEMMA RootReturned ==
  ASSUME NEW c, NEW d, IsEntityPath(c.path), c.at = "lists",
         NEW i \in 1 .. Len(d.new_list), d.new_list[i] = c.root, d.at = "elements",
         AbsolutePath(d) \in PathSet, c.path = AbsolutePath(d) \o <<i>>, Len(d.new_list) \in Nat
  PROVE  Inherits(c, d)
<1> SUFFICES ASSUME NEW p, NEW made, InCall(c, p, made) PROVE InNew(d, p, made)
  BY DEF Inherits, InCall
<1>1. PICK f \in Seq(Keys), r \in PathSet :
        p = c.path \o (f \o r) /\ IsPlaced(Get(c.root, f), r, made)
  BY DEF InCall, InRoot, InNew
<1> DEFINE X == Keys \cup Nat
           A == AbsolutePath(d)
           q == f \o r
<1>2. /\ f \in Seq(X) /\ r \in Seq(X) /\ A \in Seq(X) /\ i \in X
  BY KeyPaths DEF PathSet
<1>3. q \in Seq(X) /\ q \in PathSet
  BY <1>2 DEF PathSet
<1>4. Get(c.root, q) = Get(Get(c.root, f), r)
  BY <1>2, GetConcat
<1>5. IsPlaced(d.new_list[i], q, made)
  BY <1>1, <1>4 DEF IsPlaced
<1> HIDE DEF X, A, q
<1>6. p = A \o (<<i>> \o q)
  <2>1. p = (A \o <<i>>) \o q
    BY <1>1 DEF A, q
  <2>2. A \in Seq(X) /\ i \in X /\ q \in Seq(X)
    BY <1>2, <1>3
  <2>3. A \o (<<i>> \o q) = Append(A, i) \o q
    BY ONLY <2>2, ConcatAppend
  <2>4. A \o <<i>> = Append(A, i)
    BY ONLY <2>2
  <2> QED
    BY <2>1, <2>3, <2>4
<1> QED
  BY <1>3, <1>5, <1>6 DEF InNew, A

LEMMA ConcatTwice ==
  ASSUME NEW X, NEW p \in Seq(X), NEW q \in Seq(X), NEW r \in Seq(X)
  PROVE  (p \o q) \o r = p \o (q \o r)
<1> DEFINE s == p \o q
           t == q \o r
<1>1. /\ s \in Seq(X) /\ Len(s) = Len(p) + Len(q)
      /\ \A i \in 1 .. Len(p) : s[i] = p[i]
      /\ \A i \in 1 .. Len(q) : s[Len(p) + i] = q[i]
  BY ConcatPrefix
<1>2. /\ t \in Seq(X) /\ Len(t) = Len(q) + Len(r)
      /\ \A i \in 1 .. Len(q) : t[i] = q[i]
      /\ \A i \in 1 .. Len(r) : t[Len(q) + i] = r[i]
  BY ConcatPrefix
<1>3. Len(p) \in Nat /\ Len(q) \in Nat /\ Len(r) \in Nat
  OBVIOUS
<1> HIDE DEF s, t
<1> DEFINE a == s \o r
           b == p \o t
<1>4. /\ a \in Seq(X) /\ Len(a) = Len(s) + Len(r)
      /\ \A i \in 1 .. Len(s) : a[i] = s[i]
      /\ \A i \in 1 .. Len(r) : a[Len(s) + i] = r[i]
  <2>1. s \in Seq(X) /\ r \in Seq(X)
    BY <1>1
  <2> QED
    BY ONLY <2>1, ConcatPrefix
<1>5. /\ b \in Seq(X) /\ Len(b) = Len(p) + Len(t)
      /\ \A i \in 1 .. Len(p) : b[i] = p[i]
      /\ \A i \in 1 .. Len(t) : b[Len(p) + i] = t[i]
  <2>1. p \in Seq(X) /\ t \in Seq(X)
    BY <1>2
  <2> QED
    BY ONLY <2>1, ConcatPrefix
<1> HIDE DEF a, b
<1>6. Len(a) = Len(b)
  BY <1>1, <1>2, <1>3, <1>4, <1>5
<1>7. ASSUME NEW i \in 1 .. Len(a) PROVE a[i] = b[i]
  <2>1. CASE i <= Len(p)
    <3>1. i \in 1 .. Len(p) /\ i \in 1 .. Len(s)
      BY <1>1, <1>3, <1>4, <2>1
    <3> QED
      BY <1>1, <1>4, <1>5, <3>1
  <2>2. CASE ~(i <= Len(p)) /\ i <= Len(p) + Len(q)
    <3> DEFINE j == i - Len(p)
    <3>1. j \in 1 .. Len(q) /\ i = Len(p) + j /\ j \in 1 .. Len(t) /\ i \in 1 .. Len(s)
      BY <1>1, <1>2, <1>3, <1>4, <2>2
    <3> HIDE DEF j
    <3>2. a[i] = s[i] /\ s[i] = q[j] /\ b[i] = t[j] /\ t[j] = q[j]
      BY <1>1, <1>2, <1>4, <1>5, <3>1
    <3> QED
      BY <3>2
  <2>3. CASE ~(i <= Len(p) + Len(q))
    <3> DEFINE j == i - (Len(p) + Len(q))
    <3>1. j \in 1 .. Len(r) /\ i = Len(s) + j /\ Len(q) + j \in 1 .. Len(t) /\ i = Len(p) + (Len(q) + j)
      BY <1>1, <1>2, <1>3, <1>4, <2>3
    <3> HIDE DEF j
    <3>2. a[i] = r[j] /\ t[Len(q) + j] = r[j] /\ b[Len(p) + (Len(q) + j)] = t[Len(q) + j]
      BY <1>2, <1>4, <1>5, <3>1
    <3> QED
      BY <3>1, <3>2
  <2> QED
    BY <2>1, <2>2, <2>3
<1>8. a = b
  BY <1>4, <1>5, <1>6, <1>7, SeqEqual
<1> QED
  BY <1>8 DEF a, b, s, t

(* A list ends: it is in its call's object, its entities with their own    *)
(* lists below it.                                                         *)
ListEnd(in, c, d) ==
  /\ in \in Inputs /\ CallOK(in, c) /\ c.at = "elements" /\ CallReady(in, c)
  /\ Len(c.new_list) = Len(c.unified)
  /\ d.path = c.path /\ d.head = c.head /\ d.update = c.update /\ d.at = "lists"
  /\ d.lists = c.lists \ {c.field} /\ d.root = Set(c.root, c.field, List(c.new_list))

LEMMA ListEndSets ==
  ASSUME NEW in, NEW c, NEW d, ListEnd(in, c, d)
  PROVE  /\ Get(d.root, c.field) = List(c.new_list)
         /\ \A f \in Seq(Keys) : IsList(Get(c.head, f)) =>
              /\ f # c.field => Get(d.root, f) = Get(c.root, f)
              /\ f # <<>> /\ IsDict(Get(c.root, Front(f))) => IsDict(Get(d.root, Front(f)))
<1> DEFINE g == c.field
           h == c.head
           o == c.root
           v == List(c.new_list)
           n == d.root
<1>1. /\ g \in Seq(Keys) /\ h \in Objects(in) /\ IsList(Get(h, g)) /\ in \in Inputs
      /\ n = Set(o, g, v)
      /\ g = <<>> \/ IsDict(Get(o, Front(g)))
  BY DEF ListEnd, CallOK, CallReady, RootReady
<1> HIDE DEF g, h, o, v, n
<1>2. Settable(o, g)
  BY <1>1 DEF Settable
<1>3. Get(n, g) = v
  BY <1>1, <1>2, SetThere
<1>4. ASSUME NEW f \in Seq(Keys), IsList(Get(h, f))
      PROVE  /\ f # g => Get(n, f) = Get(o, f)
             /\ f # <<>> /\ IsDict(Get(o, Front(f))) => IsDict(Get(n, Front(f)))
  <2>1. n = SetIfSettable(o, g, v)
    BY <1>1, <1>2 DEF SetIfSettable
  <2>2. /\ in \in Inputs /\ h \in Objects(in) /\ g \in Seq(Keys) /\ IsList(Get(h, g))
        /\ f \in Seq(Keys) /\ IsList(Get(h, f)) /\ (g = g \/ InList(g, g))
    BY <1>1, <1>4
  <2>3. /\ f # g => Get(SetIfSettable(o, g, v), f) = Get(o, f)
        /\ f # <<>> /\ IsDict(Get(o, Front(f))) => IsDict(Get(SetIfSettable(o, g, v), Front(f)))
    BY ONLY <2>2, SetInList
  <2> QED
    BY <2>1, <2>3
<1> QED
  BY <1>3, <1>4 DEF g, h, o, v, n

LEMMA ListEndReady ==
  ASSUME NEW in, NEW c, NEW d, ListEnd(in, c, d)
  PROVE  CallReady(in, d)
<1>1. /\ in \in Inputs /\ c.head \in Objects(in) /\ c.update \in Objects(in)
      /\ c.field \in Seq(Keys) /\ IsList(Get(c.head, c.field)) /\ IsList(Get(c.update, c.field))
      /\ RootReady(in, c) /\ \A f \in d.lists : f \in c.lists /\ f # c.field
      /\ \A f \in c.lists : f \in Seq(Keys) /\ IsList(Get(c.head, f))
  BY DEF ListEnd, CallOK, CallReady
<1>2. c.head # NOTHING /\ c.update # NOTHING /\ HasLists(c.head)
  BY <1>1, ListThere
<1>3. d.head = c.head /\ d.update = c.update /\ d.at = "lists"
  BY DEF ListEnd
<1>4. Stands(d, d.root)
  <2>1. Get(d.root, c.field) # Missing
    <3>1. Get(d.root, c.field) = List(c.new_list)
      BY ListEndSets
    <3>2. List(c.new_list) # Missing
      BY DEF List, Missing
    <3> QED
      BY <3>1, <3>2
  <2>2. d.root # Missing
    BY <1>1, <2>1, GetOfMissing
  <2> QED
    BY <1>2, <1>3, <2>2 DEF Stands, EntityOf
<1>5. \A f \in d.lists : f # <<>> => IsDict(Get(d.root, Front(f)))
  BY <1>1, ListEndSets DEF RootReady
<1>6. \A f \in d.lists : Get(d.root, f) \in Roots(in) \cup {Missing, List(<<>>)}
  BY <1>1, ListEndSets DEF RootReady
<1> QED
  BY <1>3, <1>4, <1>5, <1>6 DEF CallReady, RootReady

LEMMA ListEndInherits ==
  ASSUME NEW in, NEW c, NEW d, ListEnd(in, c, d)
  PROVE  Inherits(c, d) /\ InRoot(d, AbsolutePath(c), c.unified)
<1> DEFINE g == c.field
           l == List(c.new_list)
<1>1. /\ in \in Inputs /\ g \in Seq(Keys) /\ g \in PathSet /\ c.path \in PathSet
      /\ IsList(Get(d.head, g)) /\ g \notin d.lists
      /\ d.at # "entry" /\ d.path = c.path /\ d.head = c.head
      /\ \A f : f \in d.lists => f \in c.lists
      /\ Listed(c.new_list) /\ Listed(c.unified) /\ g \in c.lists
  BY KeyPaths DEF ListEnd, CallOK, IsEntityPath
<1>2. /\ Get(d.root, g) = l
      /\ \A f \in Seq(Keys) : IsList(Get(c.head, f)) /\ f # g => Get(d.root, f) = Get(c.root, f)
  BY ListEndSets
<1>20. IsList(l) /\ ~IsDict(l) /\ l.elems = c.new_list
  BY DEF List, IsList, IsDict
<1>3. Len(c.new_list) \in Nat /\ DOMAIN c.new_list = 1 .. Len(c.new_list) /\ DOMAIN c.unified = 1 .. Len(c.unified)
  BY <1>1, ListedDomain
<1>4. InRoot(d, AbsolutePath(c), c.unified)
  <2>1. <<>> \in PathSet /\ g \o <<>> = g
    BY <1>1 DEF PathSet
  <2>2. AbsolutePath(c) = d.path \o (g \o <<>>)
    BY <1>1, <2>1 DEF AbsolutePath
  <2>3. Len(c.new_list) = Len(c.unified) /\ \A i \in 1 .. Len(c.new_list) : Stands(c.unified[i], c.new_list[i])
    BY DEF ListEnd, CallReady, ElementsPlaced
  <2>4. IsPlaced(l, <<>>, c.unified)
    BY <1>20, <1>3, <2>3, GetEmpty DEF IsPlaced
  <2> HIDE DEF g, l
  <2> QED
    BY <1>1, <1>2, <2>1, <2>2, <2>4 DEF InRoot
<1>5. ASSUME NEW p, NEW made, InRoot(c, p, made) PROVE InRoot(d, p, made)
  <2>1. PICK f \in Seq(Keys), r \in PathSet :
          /\ p = c.path \o (f \o r) /\ f \notin c.lists /\ IsList(Get(c.head, f))
          /\ IsPlaced(Get(c.root, f), r, made)
    BY <1>5 DEF InRoot
  <2>2. f # g /\ Get(d.root, f) = Get(c.root, f)
    BY <1>1, <1>2, <2>1
  <2> QED
    BY <1>1, <2>1, <2>2 DEF InRoot
<1>6. ASSUME NEW p, NEW made, InNew(c, p, made) PROVE InRoot(d, p, made)
  <2>1. PICK i \in 1 .. Len(c.new_list), r \in PathSet :
          p = AbsolutePath(c) \o (<<i>> \o r) /\ IsPlaced(c.new_list[i], r, made)
    BY <1>6 DEF InNew
  <2> DEFINE X == Keys \cup Nat
             q == <<i>> \o r
  <2>2. c.path \in Seq(X) /\ g \in Seq(X) /\ r \in Seq(X) /\ i \in X
    BY <1>1, <1>3, <2>1 DEF PathSet
  <2>3. q \in Seq(X)
    BY <2>2
  <2>4. Get(l, q) = Get(c.new_list[i], r)
    <3>1. Get(l, <<i>> \o r) = Get(Step(l, i), r)
      <4> HIDE DEF X, l
      <4> QED
        BY ONLY <2>2, GetFirst
    <3>2. Step(l, i) = c.new_list[i]
      BY <1>20, <1>3, <2>1 DEF Step, Steps, Children
    <3> QED
      BY <3>1, <3>2
  <2>5. IsPlaced(l, q, made)
    BY <2>1, <2>4 DEF IsPlaced
  <2>6. p = c.path \o (g \o q)
    <3>1. p = (c.path \o g) \o q
      BY <2>1 DEF AbsolutePath
    <3> HIDE DEF X, g, q
    <3> DEFINE e == c.path
    <3>2. e \in Seq(X) /\ g \in Seq(X) /\ q \in Seq(X)
      BY <2>2, <2>3
    <3>3. p = (e \o g) \o q
      BY <3>1
    <3> HIDE DEF e
    <3>4. p = e \o (g \o q)
      BY ONLY <3>2, <3>3, ConcatTwice
    <3> QED
      BY <3>4 DEF e
  <2>7. q \in PathSet
    BY <2>3 DEF PathSet
  <2> HIDE DEF g, q, l, X
  <2> QED
    BY <1>1, <1>2, <2>5, <2>6, <2>7 DEF InRoot
<1> QED
  BY <1>4, <1>5, <1>6 DEF Inherits, InCall

(* A call returns its object into the list of the call around it.          *)
Returned(cl, d) ==
  /\ Len(cl) > 1 /\ cl[1].at = "lists"
  /\ d.at = cl[2].at /\ d.path = cl[2].path /\ d.head = cl[2].head /\ d.update = cl[2].update
  /\ d.root = cl[2].root /\ d.lists = cl[2].lists /\ d.field = cl[2].field /\ d.unified = cl[2].unified
  /\ d.new_list = Append(cl[2].new_list, cl[1].root)

LEMMA ReturnedIs ==
  ASSUME NEW in, NEW cl, CallsOK(in, cl), CallsNest(cl), CallsReady(in, cl), CallsEntered(cl),
         NEW d, Returned(cl, d)
  PROVE  /\ CallReady(in, d) /\ Inherits(cl[1], d) /\ Inherits(cl[2], d)
<1> DEFINE e == cl[2]
           c == cl[1]
           n == Len(e.new_list)
<1>1. Listed(cl) /\ Len(cl) \in Nat /\ DOMAIN cl = 1 .. Len(cl) /\ 1 \in DOMAIN cl /\ 2 \in DOMAIN cl /\ 2 \in 2 .. Len(cl)
  BY ListedDomain DEF CallsOK, Returned
<1>2. /\ CallOK(in, c) /\ CallOK(in, e) /\ CallReady(in, c) /\ CallReady(in, e)
  BY <1>1 DEF CallsOK, CallsReady
<1>3. /\ e.at = "elements" /\ c.path = ElementPath(e)
      /\ n < Len(e.unified) /\ c.head = NextTriple(e).head /\ c.update = NextTriple(e).update
  BY <1>1 DEF CallsNest, CallsEntered
<1>4. /\ d.at = e.at /\ d.path = e.path /\ d.head = e.head /\ d.update = e.update
      /\ d.root = e.root /\ d.lists = e.lists /\ d.field = e.field /\ d.unified = e.unified
      /\ d.new_list = Append(e.new_list, c.root) /\ c.at = "lists"
  BY DEF Returned
<1>40. AbsolutePath(d) = AbsolutePath(e)
  BY <1>4 DEF AbsolutePath
<1>5. /\ n \in Nat /\ Listed(e.new_list) /\ Listed(e.unified) /\ Len(e.unified) \in Nat
  BY <1>2, <1>3, ListedDomain DEF CallOK
<1>6. /\ Len(d.new_list) = n + 1 /\ d.new_list[n + 1] = c.root
      /\ \A i \in 1 .. n : d.new_list[i] = e.new_list[i]
  <2> DEFINE s == e.new_list
             x == c.root
             Y == Range(s) \cup {x}
  <2>1. s \in Seq(Range(s)) /\ Range(s) \subseteq Y
    BY <1>5 DEF Listed
  <2>2. x \in Y
    OBVIOUS
  <2> HIDE DEF Y, s, x
  <2>3. s \in Seq(Y) /\ x \in Y
    BY <2>1, <2>2
  <2>4. /\ Len(Append(s, x)) = Len(s) + 1 /\ Append(s, x)[Len(s) + 1] = x
        /\ \A i \in 1 .. Len(s) : Append(s, x)[i] = s[i]
    BY ONLY <2>3, AppendEffect
  <2> QED
    BY <1>4, <2>4 DEF s, x
<1>60. n + 1 \in 1 .. n + 1 /\ n + 1 \in Nat /\ \A i \in 1 .. n + 1 : i = n + 1 \/ i \in 1 .. n
  BY <1>5
<1>61. \A i \in 1 .. n : i \in 1 .. n + 1
  BY <1>5
<1> HIDE DEF e, c, n
<1>7. CallReady(in, d)
  <2>1. RootReady(in, d)
    BY <1>2, <1>3, <1>4 DEF CallReady, RootReady, Stands, EntityOf
  <2>2. Stands(NextTriple(e), c.root)
    BY <1>2, <1>3, <1>4 DEF CallReady, RootReady, Stands, EntityOf
  <2>3. NextTriple(e) = d.unified[n + 1]
    BY <1>4 DEF NextTriple, n
  <2>4. \A i \in 1 .. n : Stands(d.unified[i], d.new_list[i])
    BY <1>2, <1>3, <1>4, <1>6 DEF CallReady, ElementsPlaced, n
  <2>5. \A i \in 1 .. Len(d.new_list) : Stands(d.unified[i], d.new_list[i])
    BY <1>6, <1>60, <2>2, <2>3, <2>4
  <2>6. Len(d.new_list) <= Len(d.unified)
    BY <1>3, <1>4, <1>5, <1>6
  <2>7. \A i \in DOMAIN d.unified : d.unified[i].root \in Roots(in)
    BY <1>2, <1>3, <1>4 DEF CallReady, ElementsPlaced
  <2> QED
    BY <1>3, <1>4, <2>1, <2>5, <2>6, <2>7 DEF CallReady, ElementsPlaced
<1>8. Inherits(c, d)
  <2> DEFINE i == n + 1
  <2>1. AbsolutePath(d) \in PathSet
    BY <1>2, <1>40, AbsolutePathIs
  <2>2. c.path = AbsolutePath(d) \o <<i>>
    BY <1>3, <1>40 DEF ElementPath, n
  <2>3. i \in 1 .. Len(d.new_list) /\ d.new_list[i] = c.root /\ Len(d.new_list) \in Nat
    BY <1>6, <1>60
  <2>4. IsEntityPath(c.path) /\ c.at = "lists" /\ d.at = "elements"
    BY <1>2, <1>3, <1>4 DEF CallOK
  <2> HIDE DEF i
  <2> QED
    BY <2>1, <2>2, <2>3, <2>4, RootReturned
<1>9. Inherits(e, d)
  <2> SUFFICES ASSUME NEW p, NEW made, InCall(e, p, made) PROVE InCall(d, p, made)
    BY DEF Inherits
  <2>1. CASE InRoot(e, p, made)
    BY <1>4, <2>1 DEF InCall, InRoot
  <2>2. CASE InNew(e, p, made)
    <3>1. PICK i \in 1 .. n, r \in PathSet :
            p = AbsolutePath(e) \o (<<i>> \o r) /\ IsPlaced(e.new_list[i], r, made)
      BY <2>2 DEF InNew, n
    <3>2. i \in 1 .. Len(d.new_list) /\ d.new_list[i] = e.new_list[i]
      BY <1>6, <1>61
    <3>3. p = AbsolutePath(d) \o (<<i>> \o r) /\ IsPlaced(d.new_list[i], r, made)
      BY <1>40, <3>1, <3>2
    <3> QED
      BY <1>3, <1>4, <3>2, <3>3 DEF InCall, InNew
  <2> QED
    BY <2>1, <2>2 DEF InCall
<1> QED
  BY <1>7, <1>8, <1>9 DEF e, c

LEMMA PlacedReturned ==
  ASSUME NEW in, NEW cl, CallsOK(in, cl), CallsNest(cl), CallsReady(in, cl), CallsEntered(cl),
         NEW st, ListsPlaced(cl, st), NEW d, Returned(cl, d)
  PROVE  LET t == <<d>> \o Tail(Tail(cl)) IN CallsReady(in, t) /\ CallsEntered(t) /\ ListsPlaced(t, st)
<1> DEFINE t == <<d>> \o Tail(Tail(cl))
<1>1. CallReady(in, d) /\ Inherits(cl[1], d) /\ Inherits(cl[2], d)
  BY ReturnedIs
<1>2. /\ Listed(cl) /\ Len(cl) > 1 /\ d.head = cl[2].head /\ d.update = cl[2].update
  BY DEF CallsOK, Returned
<1>3. /\ Listed(t) /\ Len(t) = Len(cl) - 1 /\ Len(cl) \in Nat /\ t[1] = d
      /\ \A k \in 2 .. Len(cl) - 1 : t[k] = cl[k + 1]
  BY <1>2, ReturnEffect
<1> HIDE DEF t
<1>4. /\ DOMAIN t = 1 .. Len(cl) - 1 /\ DOMAIN cl = 1 .. Len(cl)
      /\ \A k \in 1 .. Len(cl) - 1 : k = 1 \/ k \in 2 .. Len(cl) - 1
      /\ \A k \in 2 .. Len(cl) - 1 : k + 1 \in 1 .. Len(cl)
      /\ 1 \in 1 .. Len(cl) - 1
  BY <1>2, <1>3, ListedDomain
<1>5. CallsReady(in, t)
  BY <1>1, <1>3, <1>4 DEF CallsReady
<1>6. CallsEntered(t)
  <2> SUFFICES ASSUME NEW k \in 2 .. Len(t)
               PROVE  /\ Len(t[k].new_list) < Len(t[k].unified)
                      /\ t[k - 1].head = NextTriple(t[k]).head /\ t[k - 1].update = NextTriple(t[k]).update
    BY DEF CallsEntered
  <2>1. k \in 2 .. Len(cl) - 1 /\ k + 1 \in 2 .. Len(cl) /\ (k + 1) - 1 = k
        /\ (k - 1 = 1 \/ (k - 1 \in 2 .. Len(cl) - 1 /\ (k - 1) + 1 = k))
    BY <1>3
  <2>2. t[k] = cl[k + 1]
    BY <1>3, <2>1
  <2>3. t[k - 1].head = cl[k].head /\ t[k - 1].update = cl[k].update
    <3>1. CASE k - 1 = 1
      <4>1. k = 2
        BY <2>1, <3>1
      <4> QED
        BY <1>2, <1>3, <3>1, <4>1
    <3>2. CASE k - 1 \in 2 .. Len(cl) - 1
      BY <1>3, <2>1, <3>2
    <3> QED
      BY <2>1, <3>1, <3>2
  <2>4. /\ Len(cl[k + 1].new_list) < Len(cl[k + 1].unified)
        /\ cl[(k + 1) - 1].head = NextTriple(cl[k + 1]).head /\ cl[(k + 1) - 1].update = NextTriple(cl[k + 1]).update
    BY <2>1 DEF CallsEntered
  <2> QED
    BY <2>1, <2>2, <2>3, <2>4
<1>7. ListsPlaced(t, st)
  <2> SUFFICES ASSUME NEW p \in DOMAIN st PROVE \E k \in DOMAIN t : InCall(t[k], p, st[p])
    BY DEF ListsPlaced
  <2>1. PICK k \in DOMAIN cl : InCall(cl[k], p, st[p])
    BY DEF ListsPlaced
  <2>2. CASE k = 1 \/ k = 2
    <3>1. InCall(t[1], p, st[p])
      BY <1>1, <1>3, <2>1, <2>2 DEF Inherits
    <3> QED
      BY <1>4, <3>1
  <2>3. CASE k # 1 /\ k # 2
    <3>1. k - 1 \in 2 .. Len(cl) - 1 /\ k - 1 \in 1 .. Len(cl) - 1 /\ (k - 1) + 1 = k
      BY <1>3, <1>4, <2>1, <2>3
    <3>2. t[k - 1] = cl[k]
      BY <1>3, <3>1
    <3> QED
      BY <1>4, <2>1, <3>1, <3>2
  <2> QED
    BY <2>2, <2>3
<1> QED
  BY <1>5, <1>6, <1>7 DEF t

---------------------------------------------------------------------------
(* Every action keeps the lists in place.                                  *)

LEMMA PlacedTop ==
  ASSUME KeptInv, PlacedInv
  PROVE  /\ inputs \in Inputs /\ CallOK(inputs, Top) /\ CallReady(inputs, Top) /\ 1 \in DOMAIN calls
         /\ CallsOK(inputs, calls) /\ CallsNest(calls) /\ Listed(calls)
BY TopIs DEF KeptInv, StackInv, CallsOK, PlacedInv, CallsReady, Top

LEMMA PlacedGoesOn ==
  ASSUME KeptInv, PlacedInv, NEW c, calls' = <<c>> \o Tail(calls), CallReady(inputs, c),
         c.head = Top.head, c.update = Top.update, Inherits(Top, c),
         stats' = stats, inputs' = inputs, outcome' = "running"
  PROVE  PlacedInv'
<1>1. /\ CallsOK(inputs, calls) /\ CallsReady(inputs, calls) /\ CallsEntered(calls) /\ ListsPlaced(calls, stats)
      /\ c.head = calls[1].head /\ c.update = calls[1].update /\ Inherits(calls[1], c)
  BY PlacedTop DEF PlacedInv, Top
<1>2. CallsReady(inputs, calls') /\ CallsEntered(calls') /\ ListsPlaced(calls', stats)
  BY <1>1, PlacedReplaced
<1> QED
  BY <1>2 DEF PlacedInv, Merged

LEMMA InitPlaced == Init => PlacedInv
<1> SUFFICES ASSUME Init PROVE PlacedInv
  OBVIOUS
<1>1. /\ inputs \in Inputs /\ calls = <<Call(<<>>, inputs)>> /\ stats = <<>> /\ outcome = "running"
  BY DEF Init
<1>2. /\ Len(calls) = 1 /\ DOMAIN calls = {1} /\ calls[1].at = "entry" /\ calls[1].root = inputs.root
      /\ DOMAIN stats = {}
  BY <1>1 DEF Call
<1>3. inputs.root \in Roots(inputs)
  BY <1>1, ObjectsClosed, RootsClosed DEF Objects, Sides
<1> QED
  BY <1>1, <1>2, <1>3
  DEF PlacedInv, CallsReady, CallReady, CallsEntered, ListsPlaced, Merged

LEMMA RaisePlaces ==
  ASSUME PlacedInv, NEW error \in {"rule_error", "shifting", "threshold", "root_error"}, Raise(error)
  PROVE  PlacedInv'
BY DEF PlacedInv, Raise, Merged

LEMMA MergeListsPlaces == KeptInv /\ PlacedInv /\ MergeLists => PlacedInv'
<1> SUFFICES ASSUME KeptInv, PlacedInv, MergeLists PROVE PlacedInv'
  OBVIOUS
<1> DEFINE r == IF IsList(Top.root) THEN Top.root ELSE List(<<>>)
           c == [Top EXCEPT !.at = "lists", !.lists = {<<>>}, !.root = r]
<1>1. calls' = <<c>> \o Tail(calls)
  <2>1. calls' = <<[Top EXCEPT !.at = "lists", !.lists = {<<>>}, !.root = IF IsList(@) THEN @ ELSE List(<<>>)]>> \o Tail(calls)
    BY DEF MergeLists, SetTop
  <2> QED
    BY <2>1
<1>2. /\ CallOK(inputs, Top) /\ CallReady(inputs, Top) /\ inputs \in Inputs /\ Top.at = "entry"
      /\ IsList(Top.head) /\ IsList(Top.update)
      /\ outcome' = "running" /\ stats' = stats /\ inputs' = inputs
  BY PlacedTop DEF MergeLists, At, BothLists
<1>3. r \in Roots(inputs) \cup {Missing, List(<<>>)} /\ r # Missing
  BY <1>2 DEF CallReady, List, IsList, Missing
<1> HIDE DEF r
<1>4. /\ c.head = Top.head /\ c.update = Top.update /\ c.at = "lists" /\ c.lists = {<<>>} /\ c.root = r
  BY <1>2 DEF CallOK, Call
<1> HIDE DEF c
<1>5. CallReady(inputs, c)
  <2>1. /\ Top.head \in Objects(inputs) /\ Top.update \in Objects(inputs) /\ <<>> \in Seq(Keys)
        /\ IsList(Get(Top.head, <<>>)) /\ IsList(Get(Top.update, <<>>))
    BY <1>2, GetEmpty DEF CallOK
  <2>2. Top.head # NOTHING /\ Top.update # NOTHING /\ HasLists(Top.head)
    BY <1>2, <2>1, ListThere
  <2>3. Stands(c, c.root)
    BY <1>3, <1>4, <2>2 DEF Stands, EntityOf
  <2>4. Get(c.root, <<>>) = r
    BY <1>4, GetEmpty
  <2> QED
    BY <1>3, <1>4, <2>3, <2>4 DEF CallReady, RootReady
<1> QED
  BY <1>1, <1>2, <1>4, <1>5, EntryInherits, PlacedGoesOn

LEMMA MergeObjectPlaces == KeptInv /\ PlacedInv /\ MergeObject => PlacedInv'
<1> SUFFICES ASSUME KeptInv, PlacedInv, MergeObject PROVE PlacedInv'
  OBVIOUS
<1> DEFINE m == MergeObjects(Top.root, Top.head, Top.update, Top.path)
           c == [Top EXCEPT !.at = "lists", !.root = m.root, !.lists = m.skipped]
<1>1. CASE Raise("rule_error") \/ Raise("shifting")
  BY <1>1, RaisePlaces
<1>2. CASE ~Raise("rule_error") /\ ~Raise("shifting")
  <2>1. /\ Top.at = "entry" /\ calls' = <<c>> \o Tail(calls) /\ ~m.raised
        /\ outcome' = "running" /\ stats' = stats /\ inputs' = inputs
    BY <1>2, ObjectMerged
  <2>2. CallOK(inputs, Top) /\ CallReady(inputs, Top) /\ inputs \in Inputs
    BY PlacedTop
  <2>3. MergedAs(inputs, Top.head, Top.update, Top.root, m)
    <3>1. Top.head \in Objects(inputs) /\ Top.update \in Objects(inputs) /\ Top.root \in Roots(inputs)
      BY <2>1, <2>2 DEF CallOK, CallReady
    <3> QED
      BY <2>1, <2>2, <3>1, ObjectsMerged
  <2> HIDE DEF m
  <2>4. /\ c.head = Top.head /\ c.update = Top.update /\ c.at = "lists"
        /\ c.lists = m.skipped /\ c.root = m.root
    BY <2>2 DEF CallOK, Call
  <2> HIDE DEF c
  <2>5. CallReady(inputs, c)
    BY <2>3, <2>4 DEF MergedAs, Stands, EntityOf, CallReady, RootReady
  <2> QED
    BY <2>1, <2>4, <2>5, EntryInherits, PlacedGoesOn
<1> QED
  BY <1>1, <1>2

LEMMA StartListPlaces == KeptInv /\ PlacedInv /\ StartList => PlacedInv'
<1> SUFFICES ASSUME KeptInv, PlacedInv, StartList PROVE PlacedInv'
  OBVIOUS
<1>1. PICK field \in Top.lists :
        /\ IsList(ListsAt(Top, field).root)
        /\ SetTop([Top EXCEPT !.at = "unify", !.field = field,
                              !.unifier = Unifier(ListsAt(Top, field), Top.path \o field)])
  <2>1. PICK field \in Top.lists : \E lists \in {ListsAt(Top, field)} :
          /\ IsList(lists.root)
          /\ SetTop([Top EXCEPT !.at = "unify", !.field = field,
                                !.unifier = Unifier(lists, Top.path \o field)])
    BY Zenon DEF StartList
  <2> QED
    BY <2>1, Zenon
<1> DEFINE u == Unifier(ListsAt(Top, field), Top.path \o field)
           c == [Top EXCEPT !.at = "unify", !.field = field, !.unifier = u]
<1>2. /\ CallOK(inputs, Top) /\ CallReady(inputs, Top) /\ Top.at = "lists" /\ inputs \in Inputs
      /\ outcome' = "running" /\ stats' = stats /\ inputs' = inputs
  BY PlacedTop DEF StartList, At
<1>3. /\ u.lists["root"].elems \in Seq(Roots(inputs))
      /\ u.len["root"] = Len(u.lists["root"].elems)
  <2> DEFINE l == ListAt(Top.root, field)
  <2>1. ListsAt(Top, field)["root"] = l
    BY DEF ListsAt, Sides
  <2>2. u.lists["root"] = l /\ u.len["root"] = Len(l.elems)
    BY <2>1 DEF Unifier, Sides
  <2>3. IsList(l)
    BY <1>1, <2>1
  <2> DEFINE found == Get(Top.root, field)
  <2>4. found \in Roots(inputs) \cup {Missing, List(<<>>)}
    BY <1>2 DEF CallReady, RootReady
  <2>5. l = IF found = Missing THEN List(<<>>) ELSE IF IsDict(found) THEN KeysAsList(found) ELSE found
    BY DEF ListAt
  <2> HIDE DEF l, found
  <2>6. ASSUME l = List(<<>>) PROVE l.elems \in Seq(Roots(inputs))
    BY <2>6 DEF List
  <2>7. ASSUME found \in Roots(inputs), IsDict(found), l = KeysAsList(found)
        PROVE  l.elems \in Seq(Roots(inputs))
    <3>1. l.elems \in Seq({Base(k) : k \in Steps(found)}) /\ Steps(found) \subseteq Keys
      BY <1>2, <2>7, KeysListed
    <3> QED
      BY <3>1 DEF Roots
  <2>8. ASSUME found \in Roots(inputs), l = found PROVE l.elems \in Seq(Roots(inputs))
    <3>1. l \in Values(inputs)
      BY <1>2, <2>3, <2>8, RootsClosed DEF IsContainer
    <3>2. l.elems \in Seq(Values(inputs))
      BY <1>2, <2>3, <3>1, ObjectsClosed
    <3> QED
      BY <3>2 DEF Roots, Objects
  <2>9. ~IsDict(List(<<>>))
    BY DEF IsDict, List
  <2>10. l.elems \in Seq(Roots(inputs))
    BY <2>4, <2>5, <2>6, <2>7, <2>8, <2>9
  <2> QED
    BY <2>2, <2>10
<1> HIDE DEF u
<1>4. /\ c.path = Top.path /\ c.head = Top.head /\ c.update = Top.update /\ c.at = "unify"
      /\ c.lists = Top.lists /\ c.root = Top.root /\ c.unifier = u
  BY <1>2 DEF CallOK, Call
<1>40. calls' = <<c>> \o Tail(calls)
  BY <1>1 DEF u, SetTop
<1> HIDE DEF c
<1>5. RootReady(inputs, Top)
  BY <1>2 DEF CallReady
<1>6. CallReady(inputs, c)
  BY <1>3, <1>4, <1>5 DEF CallReady, RootReady, Stands, EntityOf, UnifierRoot
<1>7. Inherits(Top, c)
  BY <1>2, <1>4, SameInherits
<1> QED
  BY <1>2, <1>4, <1>40, <1>6, <1>7, PlacedGoesOn

LEMMA UnifyListsPlaces == KeptInv /\ PlacedInv /\ UnifyLists => PlacedInv'
<1> SUFFICES ASSUME KeptInv, PlacedInv, UnifyLists PROVE PlacedInv'
  OBVIOUS
<1> DEFINE lists == Top.unifier.lists
           A     == AbsolutePath(Top)
<1>1. PICK placed \in U!Orders :
        /\ SetTop([Top EXCEPT !.at = "elements", !.unified = Unified(lists, placed),
                              !.new_list = <<>>])
        /\ conflicts' = conflicts \cup Prefixed(ListConflicts(lists, placed), A)
  BY Zenon DEF UnifyLists
<1> DEFINE made == Unified(lists, placed)
           c    == [Top EXCEPT !.at = "elements", !.unified = made, !.new_list = <<>>]
<1>2. /\ CallOK(inputs, Top) /\ CallReady(inputs, Top) /\ Top.at = "unify" /\ Top.field \in Top.lists
      /\ CallKept(inputs, config, calls, stats, conflicts, Top) /\ inputs \in Inputs
      /\ outcome' = "running" /\ stats' = stats /\ inputs' = inputs
  BY TopIs, PlacedTop DEF UnifyLists, At, CallOK
<1>3. UnifierOK
  <2>1. Top.unifier.op \in AllowedOps
    BY <1>2 DEF CallKept
  <2>2. ASSUME NEW side \in {"head", "update"} PROVE Top.unifier.len[side] \in Nat
    <3>1. Top[side] \in Objects(inputs) /\ Top.field \in Seq(Keys) /\ IsList(Get(Top[side], Top.field))
      BY <1>2 DEF CallOK
    <3>2. Get(Top[side], Top.field).elems \in Seq(Values(inputs))
      BY <1>2, <3>1, ListGot
    <3>3. Top.unifier.len[side] = Len(Get(Top[side], Top.field).elems)
      BY <1>2 DEF CallOK
    <3> QED
      BY <3>2, <3>3
  <2> QED
    BY <2>1, <2>2 DEF UnifierOK
<1>4. /\ \E n \in Nat : DOMAIN made = 1 .. n
      /\ \A k \in DOMAIN made :
           \E t : \A side \in Sides :
             /\ t[side] \in (0 .. Top.unifier.len[side] - 1) \cup {-1}
             /\ made[k][side] = ObjectOf(lists, <<side, t[side]>>)
  BY <1>3, UnifiedKeeps
<1>5. /\ c.path = Top.path /\ c.head = Top.head /\ c.update = Top.update /\ c.at = "elements"
      /\ c.lists = Top.lists /\ c.root = Top.root /\ c.new_list = <<>> /\ c.unified = made
  <2>1. DOMAIN Top = DOMAIN Call(<<>>, inputs)
    BY <1>2 DEF CallOK
  <2> HIDE DEF made
  <2> QED
    BY <2>1 DEF Call
<1>6. Listed(made)
  <2>1. made = [k \in DOMAIN made |-> made[k]]
    BY DEF Unified
  <2> HIDE DEF made
  <2> QED
    BY <1>4, <2>1, ListedIs
<1>7. calls' = <<c>> \o Tail(calls)
  BY <1>1 DEF SetTop
<1> HIDE DEF made, c
<1>8. /\ lists["root"].elems \in Seq(Roots(inputs)) /\ Top.unifier.len["root"] = Len(lists["root"].elems)
  BY <1>2 DEF CallReady, UnifierRoot
<1> HIDE DEF lists
<1>9. ASSUME NEW k \in DOMAIN made PROVE made[k].root \in Roots(inputs)
  <2>1. PICK t : /\ t["root"] \in (0 .. Top.unifier.len["root"] - 1) \cup {-1}
                 /\ made[k]["root"] = ObjectOf(lists, <<"root", t["root"]>>)
    BY <1>4 DEF Sides
  <2>2. CASE t["root"] = -1
    BY <2>1, <2>2 DEF ObjectOf, Roots, Objects
  <2>3. CASE t["root"] \in 0 .. Top.unifier.len["root"] - 1
    <3> DEFINE i == t["root"]
               s == lists["root"].elems
    <3>1. s \in Seq(Roots(inputs)) /\ i \in 0 .. Len(s) - 1
      BY <1>8, <2>3
    <3>2. made[k]["root"] = IF i < 0 THEN NOTHING ELSE s[i + 1]
      BY <2>1 DEF ObjectOf
    <3> HIDE DEF s, i
    <3>3. i + 1 \in 1 .. Len(s) /\ ~(i < 0)
      BY <3>1
    <3>4. s[i + 1] \in Roots(inputs)
      BY <3>1, <3>3
    <3> QED
      BY <3>2, <3>3, <3>4
  <2> QED
    BY <2>1, <2>2, <2>3
<1>10. RootReady(inputs, Top)
  BY <1>2 DEF CallReady
<1>11. RootReady(inputs, c)
  BY <1>5, <1>10 DEF RootReady, Stands, EntityOf
<1>12. ElementsPlaced(inputs, c)
  <2>1. Len(<<>>) = 0 /\ Len(made) \in Nat
    BY <1>6, ListedDomain
  <2> QED
    BY <1>5, <1>9, <2>1 DEF ElementsPlaced
<1>13. CallReady(inputs, c)
  BY <1>5, <1>11, <1>12 DEF CallReady
<1>14. Inherits(Top, c)
  BY <1>2, <1>5, SameInherits
<1> QED
  BY <1>2, <1>5, <1>7, <1>13, <1>14, PlacedGoesOn

LEMMA MergeElementPlaces == KeptInv /\ PlacedInv /\ MergeElement => PlacedInv'
<1> SUFFICES ASSUME KeptInv, PlacedInv, MergeElement PROVE PlacedInv'
  OBVIOUS
<1> DEFINE t == NextTriple(Top)
           c == Call(ElementPath(Top), t)
<1>1. /\ calls' = <<c>> \o calls /\ Top.at = "elements" /\ Len(Top.new_list) < Len(Top.unified)
      /\ outcome' = "running" /\ stats' = stats /\ inputs' = inputs
  BY DEF MergeElement, At, NextTriple
<1>2. CallOK(inputs, Top) /\ CallReady(inputs, Top) /\ CallsOK(inputs, calls)
  BY PlacedTop
<1>3. t.root \in Roots(inputs)
  <2>1. /\ Len(Top.new_list) \in Nat /\ Len(Top.unified) \in Nat
        /\ DOMAIN Top.unified = 1 .. Len(Top.unified)
    BY <1>1, <1>2, ListedDomain DEF CallOK
  <2>2. Len(Top.new_list) + 1 \in DOMAIN Top.unified
    BY <1>1, <2>1
  <2> QED
    BY <1>1, <1>2, <2>2 DEF CallReady, ElementsPlaced, NextTriple
<1>4. c.at = "entry" /\ c.root = t.root /\ c.head = t.head /\ c.update = t.update
  BY DEF Call
<1> HIDE DEF c
<1>5. CallReady(inputs, c)
  BY <1>3, <1>4 DEF CallReady
<1>6. CallsReady(inputs, calls') /\ CallsEntered(calls') /\ ListsPlaced(calls', stats)
  BY <1>1, <1>2, <1>4, <1>5, PlacedPushed DEF PlacedInv, Top
<1> QED
  BY <1>1, <1>6 DEF PlacedInv, Merged

LEMMA ReturnElementPlaces == KeptInv /\ PlacedInv /\ ReturnElement => PlacedInv'
<1> SUFFICES ASSUME KeptInv, PlacedInv, ReturnElement PROVE PlacedInv'
  OBVIOUS
<1> DEFINE d == [calls[2] EXCEPT !.new_list = Append(@, Top.root)]
<1>1. /\ calls' = <<d>> \o Tail(Tail(calls)) /\ Len(calls) > 1 /\ Top.at = "lists"
      /\ outcome' = "running" /\ stats' = stats /\ inputs' = inputs
  BY DEF ReturnElement, Appended, At
<1>2. CallsOK(inputs, calls) /\ CallsNest(calls) /\ Listed(calls)
  BY PlacedTop
<1>3. CallOK(inputs, calls[2])
  <2>1. 2 \in DOMAIN calls
    BY <1>1, <1>2, ListedDomain
  <2> QED
    BY <1>2, <2>1 DEF CallsOK
<1>4. Returned(calls, d)
  <2> DEFINE e == calls[2]
             n == Append(calls[2].new_list, Top.root)
  <2>1. d = [e EXCEPT !.new_list = n]
    OBVIOUS
  <2>2. DOMAIN e = DOMAIN Call(<<>>, inputs)
    BY <1>3 DEF CallOK
  <2> HIDE DEF d, e, n
  <2>3. /\ d.at = e.at /\ d.path = e.path /\ d.head = e.head /\ d.update = e.update
        /\ d.root = e.root /\ d.lists = e.lists /\ d.field = e.field /\ d.unified = e.unified
        /\ d.new_list = n
    BY <2>1, <2>2 DEF Call
  <2> QED
    BY <1>1, <2>3 DEF Returned, e, n, Top
<1> HIDE DEF d
<1>5. CallsReady(inputs, calls') /\ CallsEntered(calls') /\ ListsPlaced(calls', stats)
  BY <1>1, <1>2, <1>4, PlacedReturned DEF PlacedInv
<1> QED
  BY <1>1, <1>5 DEF PlacedInv, Merged

LEMMA FinishListPlaces == KeptInv /\ PlacedInv /\ FinishList => PlacedInv'
<1> SUFFICES ASSUME KeptInv, PlacedInv, FinishList PROVE PlacedInv'
  OBVIOUS
<1> DEFINE r == Set(Top.root, Top.field, List(Top.new_list))
           c == [Top EXCEPT !.at = "lists", !.lists = ListsLeft(Top), !.root = r]
           A == AbsolutePath(Top)
<1>1. /\ calls' = <<c>> \o Tail(calls) /\ Top.at = "elements" /\ Len(Top.new_list) = Len(Top.unified)
      /\ outcome' = "running" /\ inputs' = inputs
      /\ stats' = [p \in DOMAIN stats \cup {A} |-> IF p = A THEN Top.unified ELSE stats[p]]
  BY DEF FinishList, SetTop, At
<1>2. CallOK(inputs, Top) /\ CallReady(inputs, Top) /\ CallsOK(inputs, calls) /\ inputs \in Inputs /\ 1 \in DOMAIN calls
  BY PlacedTop
<1>3. /\ c.path = Top.path /\ c.head = Top.head /\ c.update = Top.update /\ c.at = "lists"
      /\ c.lists = Top.lists \ {Top.field} /\ c.root = r
  <2> HIDE DEF r
  <2> QED
    BY <1>2 DEF CallOK, Call, ListsLeft
<1>4. ListEnd(inputs, Top, c)
  <2> HIDE DEF c
  <2> QED
    BY <1>1, <1>2, <1>3 DEF ListEnd
<1> HIDE DEF r, c, A
<1>5. CallReady(inputs, c) /\ Inherits(Top, c) /\ InRoot(c, A, Top.unified)
  BY <1>4, ListEndReady, ListEndInherits DEF A
<1>6. CallsReady(inputs, calls') /\ CallsEntered(calls') /\ ListsPlaced(calls', stats)
  BY <1>1, <1>2, <1>3, <1>5, PlacedReplaced DEF PlacedInv, Top
<1>7. ListsPlaced(calls', stats')
  <2> SUFFICES ASSUME NEW p \in DOMAIN stats'
               PROVE  Listed(stats'[p]) /\ \E k \in DOMAIN calls' : InCall(calls'[k], p, stats'[p])
    BY DEF ListsPlaced
  <2>1. CASE p = A
    <3>1. stats'[p] = Top.unified /\ Listed(Top.unified)
      BY <1>1, <1>2, <2>1 DEF CallOK
    <3>2. calls'[1] = c /\ 1 \in DOMAIN calls'
      <4>1. Listed(calls) /\ calls # <<>>
        BY <1>2 DEF CallsOK
      <4>2. Listed(calls') /\ Len(calls') = Len(calls) /\ Len(calls) \in Nat \ {0} /\ calls'[1] = c
        BY <1>1, <4>1, ReplaceEffect
      <4>3. DOMAIN calls' = 1 .. Len(calls')
        BY <4>2, ListedDomain
      <4> QED
        BY <4>2, <4>3
    <3> QED
      BY <1>5, <2>1, <3>1, <3>2 DEF InCall
  <2>2. CASE p # A
    <3>1. p \in DOMAIN stats /\ stats'[p] = stats[p]
      BY <1>1, <2>2
    <3> QED
      BY <1>6, <3>1 DEF ListsPlaced
  <2> QED
    BY <2>1, <2>2
<1> QED
  BY <1>1, <1>6, <1>7 DEF PlacedInv, Merged

LEMMA StepKeepsPlaced == KeptInv /\ PlacedInv /\ [Next]_vars => PlacedInv'
<1> SUFFICES ASSUME KeptInv, PlacedInv, [Next]_vars PROVE PlacedInv'
  OBVIOUS
<1>1. CASE UNCHANGED vars
  BY <1>1 DEF PlacedInv, Merged, vars
<1>2. CASE TooManyToUnify
  BY <1>2, RaisePlaces DEF TooManyToUnify
<1>3. CASE RootNotAList
  BY <1>3, RaisePlaces DEF RootNotAList
<1>4. CASE RootKeyError
  BY <1>4, RaisePlaces DEF RootKeyError
<1>5. CASE Return
  BY <1>5 DEF Return, PlacedInv, Top
<1> QED
  BY <1>1, <1>2, <1>3, <1>4, <1>5, MergeListsPlaces, MergeObjectPlaces, StartListPlaces, UnifyListsPlaces,
     MergeElementPlaces, ReturnElementPlaces, FinishListPlaces
  DEF Next, Merge, Done

LEMMA ListsInMerged ==
  ASSUME KeptInv, AlignedInv, PlacedInv, Merged
  PROVE  /\ DOMAIN calls = {1} /\ calls[1].path = <<>> /\ calls[1].at = "lists"
         /\ merged_root = calls[1].root
         /\ \A p \in DOMAIN stats : IsPlaced(merged_root, p, stats[p])
<1>1. DOMAIN calls = {1} /\ calls[1].path = <<>> /\ calls[1].at = "lists" /\ merged_root = calls[1].root
  <2>1. Len(calls) = 1 /\ Listed(calls)
    BY PlacedTop DEF KeptInv
  <2>2. DOMAIN calls = 1 .. 1
    BY <2>1, ListedDomain
  <2> QED
    BY <2>1, <2>2 DEF KeptInv, AlignedInv, CallsBelow, First, PlacedInv
<1>2. ASSUME NEW p \in DOMAIN stats PROVE IsPlaced(merged_root, p, stats[p])
  <2>1. InCall(calls[1], p, stats[p])
    BY <1>1 DEF PlacedInv, ListsPlaced
  <2>2. PICK f \in Seq(Keys), r \in PathSet : p = <<>> \o (f \o r) /\ IsPlaced(Get(merged_root, f), r, stats[p])
    BY <1>1, <2>1 DEF InCall, InRoot, InNew
  <2>3. f \in PathSet
    BY KeyPaths
  <2>4. p = f \o r /\ Get(merged_root, f \o r) = Get(Get(merged_root, f), r)
    BY <2>2, <2>3, GetConcat DEF PathSet
  <2> QED
    BY <2>2, <2>4 DEF IsPlaced
<1> QED
  BY <1>1, <1>2

(* When the merge ends, every list that was unified is in the merged       *)
(* object at its path, as long as its triples and the entities of them in  *)
(* their places: an entity of one side alone is that side's, one on which  *)
(* both agree is theirs.  No list that is unified later, and no entity     *)
(* that is merged later, moves it.                                         *)
THEOREM EntitiesAlwaysInPlace == Spec => []EntitiesInPlace
<1>1. KeptInv /\ AlignedInv /\ PlacedInv => EntitiesInPlace
  BY ListsInMerged DEF EntitiesInPlace, IsPlaced, Stands
<1> QED
  BY <1>1, InitKept, StepKeepsKept, InitAligned, StepKeepsAligned, InitPlaced, StepKeepsPlaced, PTL DEF Spec

---------------------------------------------------------------------------
(* What the conflicts are about.                                           *)

(* The triples that the entity of a path is merged from, or the inputs.    *)
OriginsOf(in, st, cl, path) ==
  IF path = <<>> THEN {in}
  ELSE {made[Last(path)] : made \in {m \in UnifiedAt(st, cl, Front(path)) : Last(path) \in DOMAIN m}}

IsFieldConflict(c) == c.type \in {"SET_FIELD", "REMOVE_FIELD"}

(* A field as one side wants it, the lists that are unified apart.         *)
FieldMeant(t, entity, field, c) ==
  LET lists == SkippedLists(t.head, t.update, entity)
  IN /\ \A list \in lists : ~IsPrefix(list, field)
     /\ \E side \in {"head", "update"} :
          (IF c.type = "SET_FIELD" THEN c.body ELSE Missing) = Get(CutLists(t[side], lists), field)

(* The path of the list that a conflict is about, and its entities.        *)
ListOf(c) == IF c.type = "INSERT" THEN Front(c.path) ELSE c.path

ListMeant(t, c) ==
  /\ c.type \in {"REORDER", "MANUAL_MERGE", "ADD_BACK_TO_HEAD", "INSERT"}
  /\ c.type = "MANUAL_MERGE" => \A side \in Sides :
       c.body[side] \in ElementsAt(t[side], Field(ListOf(c))) \cup {NOTHING}
  /\ c.type = "ADD_BACK_TO_HEAD" => c.body \in ElementsAt(t.head, Field(ListOf(c)))
  /\ c.type = "INSERT" => c.body \in ElementsAt(t.update, Field(ListOf(c)))

ConflictMeant(in, st, cl, c) ==
  IF IsFieldConflict(c)
  THEN \E entity \in PathSet, field \in PathSet :
         /\ c.path = entity \o field
         /\ \E t \in OriginsOf(in, st, cl, entity) : FieldMeant(t, entity, field, c)
  ELSE /\ UnifiedAt(st, cl, ListOf(c)) # {}
       /\ \E t \in OriginsOf(in, st, cl, EntityPath(ListOf(c))) : ListMeant(t, c)

(* A call merges the objects of such a triple, and what is left of root's  *)
(* lists is as it was.                                                     *)
RootLists(c, root) ==
  /\ c.at = "entry" => c.root = root
  /\ c.at # "entry" => \A f \in c.lists : Get(c.root, f) \in {Missing, List(<<>>), Get(root, f)}
  /\ c.at = "unify" => Range(c.unifier.lists["root"].elems) \subseteq ElementsAt(root, c.field)

CallMeant(in, st, cl, c) ==
  \E t \in OriginsOf(in, st, cl, c.path) :
    c.head = t.head /\ c.update = t.update /\ RootLists(c, t.root)

CallsMeant(in, st, cl) == \A k \in DOMAIN cl : CallMeant(in, st, cl, cl[k])

MeantInv ==
  /\ \A c \in conflicts : ConflictMeant(inputs, stats, calls, c)
  /\ CallsMeant(inputs, stats, calls)

---------------------------------------------------------------------------
(* The conflicts of a list.                                                *)

LEMMA TripleOfIndices ==
  ASSUME NEW S, NEW t \in U!Triples(S), NEW side \in Sides
  PROVE  t[side] \in (0 .. Top.unifier.len[side] - 1) \cup {-1}
<1>1. t[side] \in U!Candidates(S, side)
  BY DEF U!Triples, Sides
<1> QED
  BY <1>1 DEF U!Candidates, U!Hits, U!NONE

LEMMA ObjectsInLists ==
  ASSUME NEW lists, NEW side, Listed(lists[side].elems),
         Top.unifier.len[side] = Len(lists[side].elems),
         NEW i \in (0 .. Top.unifier.len[side] - 1) \cup {-1}
  PROVE  /\ ObjectOf(lists, <<side, i>>) \in Range(lists[side].elems) \cup {NOTHING}
         /\ i # -1 => ObjectOf(lists, <<side, i>>) \in Range(lists[side].elems)
<1>1. CASE i = -1
  BY <1>1 DEF ObjectOf
<1>2. CASE i \in 0 .. Top.unifier.len[side] - 1
  <2>1. Len(lists[side].elems) \in Nat
    BY ListedDomain
  <2>2. i + 1 \in 1 .. Len(lists[side].elems) /\ ~(i < 0)
    BY <1>2, <2>1
  <2>3. ObjectOf(lists, <<side, i>>) = lists[side].elems[i + 1]
    BY <2>2 DEF ObjectOf
  <2> QED
    BY <2>2, <2>3, ListedDomain
<1> QED
  BY <1>1, <1>2

(* A conflict of the unifier and what it says of its list.                 *)
SaysOf(lists, d) ==
  /\ d.type \in {"REORDER", "MANUAL_MERGE", "ADD_BACK_TO_HEAD", "INSERT"}
  /\ IF d.type = "INSERT" THEN \E i \in Nat : d.path = <<i>> ELSE d.path = <<>>
  /\ d.type = "MANUAL_MERGE" => \A side \in Sides :
       d.body[side] \in Range(lists[side].elems) \cup {NOTHING}
  /\ d.type = "ADD_BACK_TO_HEAD" => d.body \in Range(lists["head"].elems)
  /\ d.type = "INSERT" => d.body \in Range(lists["update"].elems)
  /\ DOMAIN d = {"type", "path", "body"}

LEMMA ListConflictsSay ==
  ASSUME UnifierOK, NEW placed \in U!Orders, NEW lists,
         \A side \in Sides : /\ Listed(lists[side].elems)
                             /\ Top.unifier.len[side] = Len(lists[side].elems),
         NEW d \in ListConflicts(lists, placed)
  PROVE  SaysOf(lists, d)
<1>1. PICK c \in U!ConflictsOf(placed) : d = AsConflict(lists, c)
  BY DEF ListConflicts
<1> DEFINE b == ObjectsOf(lists, c.body)
<1>2. \A side \in Sides : b[side] = ObjectOf(lists, <<side, c.body[side]>>)
  BY DEF ObjectsOf
<1>3. "head" \in Sides /\ "update" \in Sides
  BY DEF Sides
<1>4. ASSUME NEW side \in Sides, NEW i \in (0 .. Top.unifier.len[side] - 1) \cup {-1}
      PROVE  /\ ObjectOf(lists, <<side, i>>) \in Range(lists[side].elems) \cup {NOTHING}
             /\ i # -1 => ObjectOf(lists, <<side, i>>) \in Range(lists[side].elems)
  BY ObjectsInLists
<1>5. DOMAIN d = {"type", "path", "body"} /\ d.type = c.type
  BY <1>1 DEF AsConflict, Conflict
<1>6. CASE \E t \in U!Ambiguous : c = U!Report("MANUAL_MERGE", U!NONE, t)
  <2>1. PICK t \in U!Ambiguous : c = U!Report("MANUAL_MERGE", U!NONE, t)
    BY <1>6
  <2>2. c.type = "MANUAL_MERGE" /\ c.idx = -1 /\ c.body = t
    BY <2>1 DEF U!Report, U!NONE
  <2>3. PICK x : t \in U!Triples(U!Class(x))
    BY NodesAre
  <2>4. \A side \in Sides : t[side] \in (0 .. Top.unifier.len[side] - 1) \cup {-1}
    BY <2>3, TripleOfIndices
  <2>5. \A side \in Sides : b[side] \in Range(lists[side].elems) \cup {NOTHING}
    BY <1>2, <1>4, <2>2, <2>4
  <2> HIDE DEF b
  <2>6. d.path = <<>> /\ d.body = b
    BY <1>1, <2>2 DEF AsConflict, Conflict, b
  <2> QED
    BY <1>5, <2>2, <2>5, <2>6 DEF SaysOf
<1>7. CASE c \in {U!Report("REORDER", U!NONE, U!Nothing)}
  <2>1. c.type = "REORDER" /\ c.idx = -1
    BY <1>7 DEF U!Report, U!NONE
  <2>2. d.path = <<>>
    BY <1>1, <2>1 DEF AsConflict, Conflict
  <2> QED
    BY <1>5, <2>1, <2>2 DEF SaysOf
<1>8. CASE \E i \in 0 .. Top.unifier.len["head"] - 1 : c = U!Report("ADD_BACK_TO_HEAD", U!NONE, U!Only("head", i))
  <2>1. PICK i \in 0 .. Top.unifier.len["head"] - 1 : c = U!Report("ADD_BACK_TO_HEAD", U!NONE, U!Only("head", i))
    BY <1>8
  <2>2. c.type = "ADD_BACK_TO_HEAD" /\ c.idx = -1 /\ c.body = U!Only("head", i)
    BY <2>1 DEF U!Report, U!NONE
  <2>3. c.body["head"] = i /\ i # -1
    BY <2>2 DEF U!Only, U!Lists, UnifierOK
  <2>4. b["head"] \in Range(lists["head"].elems)
    BY <1>2, <1>3, <1>4, <2>3
  <2> HIDE DEF b
  <2>5. d.path = <<>> /\ d.body = b.head
    BY <1>1, <2>2 DEF AsConflict, Conflict, b
  <2> QED
    BY <1>5, <2>2, <2>4, <2>5 DEF SaysOf
<1>9. CASE \E k \in DOMAIN placed : U!IsNewUpdate(placed[k]) /\ c = U!Report("INSERT", k - 1, placed[k])
  <2>1. PICK k \in DOMAIN placed : U!IsNewUpdate(placed[k]) /\ c = U!Report("INSERT", k - 1, placed[k])
    BY <1>9
  <2>2. PICK n \in Nat : placed \in [1 .. n -> U!Nodes]
    BY PlacedAre
  <2>3. k \in Nat /\ k - 1 >= 0 /\ (k - 1) + 1 = k /\ placed[k] \in U!Nodes
    BY <2>1, <2>2
  <2>4. PICK x : placed[k] \in U!Triples(U!Class(x))
    BY <2>3, NodesAre
  <2>5. placed[k]["update"] \in (0 .. Top.unifier.len["update"] - 1) \cup {-1}
    BY <1>3, <2>4, TripleOfIndices
  <2>6. c.type = "INSERT" /\ c.idx = k - 1 /\ c.body = placed[k] /\ placed[k]["update"] # -1
    BY <2>1 DEF U!Report, U!NONE, U!IsNewUpdate
  <2>7. b["update"] \in Range(lists["update"].elems)
    BY <1>2, <1>3, <1>4, <2>5, <2>6
  <2> HIDE DEF b
  <2>8. d.path = <<k>> /\ d.body = b.update
    BY <1>1, <2>3, <2>6 DEF AsConflict, Conflict, b
  <2> QED
    BY <1>5, <2>3, <2>6, <2>7, <2>8 DEF SaysOf
<1>10. \/ \E t \in U!Ambiguous : c = U!Report("MANUAL_MERGE", U!NONE, t)
       \/ c \in {U!Report("REORDER", U!NONE, U!Nothing)}
       \/ \E i \in 0 .. Top.unifier.len["head"] - 1 : c = U!Report("ADD_BACK_TO_HEAD", U!NONE, U!Only("head", i))
       \/ \E k \in DOMAIN placed : U!IsNewUpdate(placed[k]) /\ c = U!Report("INSERT", k - 1, placed[k])
  BY DEF U!ConflictsOf, U!LostFromHead
<1> QED
  BY <1>6, <1>7, <1>8, <1>9, <1>10

---------------------------------------------------------------------------
(* What is unified stays known: in its call, then in the stats.            *)
LEMMA UnifiedGrows ==
  ASSUME NEW cl, NEW st, NEW cl2, NEW st2,
         \A p \in DOMAIN st : p \in DOMAIN st2 /\ st2[p] = st[p],
         \A k \in DOMAIN cl : cl[k].at = "elements" =>
           \/ \E j \in DOMAIN cl2 :
                /\ cl2[j].at = "elements" /\ cl2[j].unified = cl[k].unified
                /\ AbsolutePath(cl2[j]) = AbsolutePath(cl[k])
           \/ AbsolutePath(cl[k]) \in DOMAIN st2 /\ st2[AbsolutePath(cl[k])] = cl[k].unified,
         NEW path
  PROVE  UnifiedAt(st, cl, path) \subseteq UnifiedAt(st2, cl2, path)
<1> SUFFICES ASSUME NEW made \in UnifiedAt(st, cl, path)
             PROVE  made \in UnifiedAt(st2, cl2, path)
  OBVIOUS
<1>1. CASE path \in DOMAIN st /\ made = st[path]
  BY <1>1 DEF UnifiedAt
<1>2. ASSUME NEW k \in DOMAIN cl, cl[k].at = "elements", AbsolutePath(cl[k]) = path,
             made = cl[k].unified
      PROVE  made \in UnifiedAt(st2, cl2, path)
  <2>1. CASE \E j \in DOMAIN cl2 :
               /\ cl2[j].at = "elements" /\ cl2[j].unified = cl[k].unified
               /\ AbsolutePath(cl2[j]) = AbsolutePath(cl[k])
    BY <1>2, <2>1 DEF UnifiedAt
  <2>2. CASE AbsolutePath(cl[k]) \in DOMAIN st2 /\ st2[AbsolutePath(cl[k])] = cl[k].unified
    BY <1>2, <2>2 DEF UnifiedAt
  <2> QED
    BY <1>2, <2>1, <2>2
<1> QED
  BY <1>1, <1>2 DEF UnifiedAt

LEMMA MeantCarried ==
  ASSUME NEW in, NEW st, NEW cl, NEW st2, NEW cl2,
         \A path : UnifiedAt(st, cl, path) \subseteq UnifiedAt(st2, cl2, path)
  PROVE  /\ \A path : OriginsOf(in, st, cl, path) \subseteq OriginsOf(in, st2, cl2, path)
         /\ \A c : ConflictMeant(in, st, cl, c) => ConflictMeant(in, st2, cl2, c)
         /\ \A c : CallMeant(in, st, cl, c) => CallMeant(in, st2, cl2, c)
<1>1. \A path : OriginsOf(in, st, cl, path) \subseteq OriginsOf(in, st2, cl2, path)
  BY DEF OriginsOf
<1>2. ASSUME NEW c, ConflictMeant(in, st, cl, c) PROVE ConflictMeant(in, st2, cl2, c)
  <2>1. CASE IsFieldConflict(c)
    BY <1>1, <1>2, <2>1 DEF ConflictMeant
  <2>2. CASE ~IsFieldConflict(c)
    BY <1>1, <1>2, <2>2 DEF ConflictMeant
  <2> QED
    BY <2>1, <2>2
<1>3. \A c : CallMeant(in, st, cl, c) => CallMeant(in, st2, cl2, c)
  BY <1>1 DEF CallMeant
<1> QED
  BY <1>1, <1>2, <1>3

LEMMA MeantReplaced ==
  ASSUME NEW in, NEW st, NEW cl, Listed(cl), cl # <<>>, CallsMeant(in, st, cl), cl[1].at # "elements",
         NEW c, c.path = cl[1].path, c.head = cl[1].head, c.update = cl[1].update,
         \A root : RootLists(cl[1], root) => RootLists(c, root)
  PROVE  LET cl2 == <<c>> \o Tail(cl)
         IN /\ CallsMeant(in, st, cl2)
            /\ \A path : UnifiedAt(st, cl, path) \subseteq UnifiedAt(st, cl2, path)
<1> DEFINE cl2 == <<c>> \o Tail(cl)
<1>1. /\ Listed(cl2) /\ cl2 # <<>> /\ Len(cl2) = Len(cl) /\ Len(cl) \in Nat \ {0} /\ cl2[1] = c
      /\ \A k \in 2 .. Len(cl) : cl2[k] = cl[k]
  BY ReplaceEffect
<1> HIDE DEF cl2
<1>2. /\ DOMAIN cl = 1 .. Len(cl) /\ DOMAIN cl2 = 1 .. Len(cl) /\ 1 \in 1 .. Len(cl)
      /\ \A k \in 1 .. Len(cl) : k = 1 \/ k \in 2 .. Len(cl)
  BY <1>1, ListedDomain
<1>3. ASSUME NEW k \in DOMAIN cl, cl[k].at = "elements"
      PROVE  k \in DOMAIN cl2 /\ cl2[k] = cl[k]
  BY <1>1, <1>2, <1>3
<1>4. \A path : UnifiedAt(st, cl, path) \subseteq UnifiedAt(st, cl2, path)
  BY <1>3 DEF UnifiedAt
<1>5. /\ \A path : OriginsOf(in, st, cl, path) \subseteq OriginsOf(in, st, cl2, path)
      /\ \A d : CallMeant(in, st, cl, d) => CallMeant(in, st, cl2, d)
  BY <1>4, MeantCarried
<1>6. CallMeant(in, st, cl2, c)
  <2>1. CallMeant(in, st, cl2, cl[1])
    BY <1>2, <1>5 DEF CallsMeant
  <2> QED
    BY <2>1 DEF CallMeant
<1>7. CallsMeant(in, st, cl2)
  BY <1>1, <1>2, <1>5, <1>6 DEF CallsMeant
<1> QED
  BY <1>4, <1>7 DEF cl2

LEMMA MeantPushed ==
  ASSUME NEW in, NEW st, NEW cl, Listed(cl), CallsMeant(in, st, cl),
         NEW c, CallMeant(in, st, cl, c)
  PROVE  LET cl2 == <<c>> \o cl
         IN /\ CallsMeant(in, st, cl2)
            /\ \A path : UnifiedAt(st, cl, path) \subseteq UnifiedAt(st, cl2, path)
<1> DEFINE cl2 == <<c>> \o cl
<1>1. /\ Listed(cl2) /\ Len(cl2) = Len(cl) + 1 /\ cl2[1] = c
      /\ \A k \in 1 .. Len(cl) : cl2[k + 1] = cl[k]
  BY PushEffect
<1> HIDE DEF cl2
<1>2. Len(cl) \in Nat /\ DOMAIN cl = 1 .. Len(cl) /\ DOMAIN cl2 = 1 .. Len(cl) + 1
  BY <1>1, ListedDomain
<1>3. ASSUME NEW k \in DOMAIN cl
      PROVE  k + 1 \in DOMAIN cl2 /\ cl2[k + 1] = cl[k]
  BY <1>1, <1>2
<1>4. \A path : UnifiedAt(st, cl, path) \subseteq UnifiedAt(st, cl2, path)
  BY <1>3 DEF UnifiedAt
<1>5. \A d : CallMeant(in, st, cl, d) => CallMeant(in, st, cl2, d)
  BY <1>4, MeantCarried
<1>6. ASSUME NEW k \in DOMAIN cl2 PROVE CallMeant(in, st, cl2, cl2[k])
  <2>1. CASE k = 1
    BY <1>1, <1>5, <2>1
  <2>2. CASE k # 1
    <3>1. k - 1 \in DOMAIN cl /\ (k - 1) + 1 = k
      BY <1>2, <2>2
    <3>2. cl2[k] = cl[k - 1]
      BY <1>3, <3>1
    <3> QED
      BY <1>5, <3>1, <3>2 DEF CallsMeant
  <2> QED
    BY <2>1, <2>2
<1>7. CallsMeant(in, st, cl2)
  BY <1>6 DEF CallsMeant
<1> QED
  BY <1>4, <1>7 DEF cl2

LEMMA MeantReturned ==
  ASSUME NEW in, NEW st, NEW cl, Listed(cl), CallsMeant(in, st, cl), NEW d, Returned(cl, d),
         d.unifier = cl[2].unifier
  PROVE  LET cl2 == <<d>> \o Tail(Tail(cl))
         IN /\ CallsMeant(in, st, cl2)
            /\ \A path : UnifiedAt(st, cl, path) \subseteq UnifiedAt(st, cl2, path)
<1> DEFINE cl2 == <<d>> \o Tail(Tail(cl))
<1>1. /\ Listed(cl2) /\ Len(cl2) = Len(cl) - 1 /\ Len(cl) \in Nat /\ cl2[1] = d /\ Len(cl) > 1
      /\ \A k \in 2 .. Len(cl) - 1 : cl2[k] = cl[k + 1]
  BY ReturnEffect DEF Returned
<1> HIDE DEF cl2
<1>2. DOMAIN cl = 1 .. Len(cl) /\ DOMAIN cl2 = 1 .. Len(cl) - 1
  BY <1>1, ListedDomain
<1>3. /\ AbsolutePath(d) = AbsolutePath(cl[2]) /\ d.at = cl[2].at /\ d.unified = cl[2].unified
      /\ cl[1].at # "elements"
  BY DEF AbsolutePath, Returned
<1>4. ASSUME NEW k \in DOMAIN cl, k # 1
      PROVE  k - 1 \in DOMAIN cl2 /\ (cl2[k - 1] = cl[k] \/ (cl2[k - 1] = d /\ k = 2))
  <2>1. k - 1 \in 1 .. Len(cl) - 1 /\ (k - 1 = 1 \/ k - 1 \in 2 .. Len(cl) - 1) /\ (k - 1) + 1 = k
    BY <1>1, <1>2, <1>4
  <2> QED
    BY <1>1, <1>2, <2>1
<1>5. \A path : UnifiedAt(st, cl, path) \subseteq UnifiedAt(st, cl2, path)
  <2> SUFFICES ASSUME NEW path, NEW k \in DOMAIN cl, cl[k].at = "elements"
               PROVE  \E j \in DOMAIN cl2 :
                        /\ cl2[j].at = "elements" /\ cl2[j].unified = cl[k].unified
                        /\ AbsolutePath(cl2[j]) = AbsolutePath(cl[k])
    BY UnifiedGrows
  <2>1. k # 1
    BY <1>3
  <2> QED
    BY <1>3, <1>4, <2>1
<1>6. \A e : CallMeant(in, st, cl, e) => CallMeant(in, st, cl2, e)
  BY <1>5, MeantCarried
<1>7. ASSUME NEW k \in DOMAIN cl2 PROVE CallMeant(in, st, cl2, cl2[k])
  <2>1. CASE k = 1
    <3>1. CallMeant(in, st, cl2, cl[2])
      <4>1. 2 \in DOMAIN cl
        BY <1>1, <1>2
      <4> QED
        BY <1>6, <4>1 DEF CallsMeant
    <3>2. CallMeant(in, st, cl2, d)
      BY <3>1 DEF CallMeant, RootLists, Returned
    <3> QED
      BY <1>1, <2>1, <3>2
  <2>2. CASE k # 1
    <3>1. k + 1 \in DOMAIN cl /\ k \in 2 .. Len(cl) - 1
      BY <1>2, <2>2
    <3>2. cl2[k] = cl[k + 1]
      BY <1>1, <3>1
    <3> QED
      BY <1>6, <3>1, <3>2 DEF CallsMeant
  <2> QED
    BY <2>1, <2>2
<1>8. CallsMeant(in, st, cl2)
  BY <1>7 DEF CallsMeant
<1> QED
  BY <1>5, <1>8 DEF cl2

LEMMA MeantFinished ==
  ASSUME NEW in, NEW st, NEW cl, CallsOK(in, cl), ListsLeftNew(cl, st), CallsMeant(in, st, cl),
         NEW d, ListEnd(in, cl[1], d)
  PROVE  LET A   == AbsolutePath(cl[1])
             st2 == [p \in DOMAIN st \cup {A} |-> IF p = A THEN cl[1].unified ELSE st[p]]
             cl2 == <<d>> \o Tail(cl)
         IN /\ CallsMeant(in, st2, cl2)
            /\ \A path : UnifiedAt(st, cl, path) \subseteq UnifiedAt(st2, cl2, path)
<1> DEFINE A   == AbsolutePath(cl[1])
           st2 == [p \in DOMAIN st \cup {A} |-> IF p = A THEN cl[1].unified ELSE st[p]]
           cl2 == <<d>> \o Tail(cl)
<1>1. Listed(cl) /\ cl # <<>>
  BY DEF CallsOK
<1>2. /\ Listed(cl2) /\ Len(cl2) = Len(cl) /\ Len(cl) \in Nat \ {0} /\ cl2[1] = d
      /\ \A k \in 2 .. Len(cl) : cl2[k] = cl[k]
  BY <1>1, ReplaceEffect
<1> HIDE DEF cl2
<1>3. /\ DOMAIN cl = 1 .. Len(cl) /\ DOMAIN cl2 = 1 .. Len(cl) /\ 1 \in 1 .. Len(cl)
      /\ \A k \in 1 .. Len(cl) : k = 1 \/ k \in 2 .. Len(cl)
  BY <1>1, <1>2, ListedDomain
<1>4. /\ in \in Inputs /\ CallOK(in, cl[1]) /\ cl[1].at = "elements" /\ cl[1].field \in cl[1].lists
      /\ d.path = cl[1].path /\ d.head = cl[1].head /\ d.update = cl[1].update /\ d.at = "lists"
      /\ d.lists = cl[1].lists \ {cl[1].field}
  BY DEF ListEnd, CallOK
<1>5. A \notin DOMAIN st
  <2>1. EntityPath(A) = cl[1].path /\ Field(A) = cl[1].field
    BY <1>4, AbsolutePathIs
  <2> QED
    BY <1>3, <1>4, <2>1 DEF ListsLeftNew
<1>6. /\ A \in DOMAIN st2 /\ st2[A] = cl[1].unified
      /\ \A p \in DOMAIN st : p \in DOMAIN st2 /\ st2[p] = st[p]
  BY <1>5
<1> HIDE DEF st2
<1>7. \A path : UnifiedAt(st, cl, path) \subseteq UnifiedAt(st2, cl2, path)
  <2> SUFFICES ASSUME NEW path, NEW k \in DOMAIN cl, cl[k].at = "elements"
               PROVE  \/ \E j \in DOMAIN cl2 :
                           /\ cl2[j].at = "elements" /\ cl2[j].unified = cl[k].unified
                           /\ AbsolutePath(cl2[j]) = AbsolutePath(cl[k])
                      \/ AbsolutePath(cl[k]) \in DOMAIN st2 /\ st2[AbsolutePath(cl[k])] = cl[k].unified
    BY <1>6, UnifiedGrows
  <2>1. CASE k = 1
    BY <1>6, <2>1
  <2>2. CASE k # 1
    <3>1. k \in DOMAIN cl2 /\ cl2[k] = cl[k]
      BY <1>2, <1>3, <2>2
    <3> QED
      BY <3>1
  <2> QED
    BY <2>1, <2>2
<1>8. \A e : CallMeant(in, st, cl, e) => CallMeant(in, st2, cl2, e)
  BY <1>7, MeantCarried
<1>9. CallMeant(in, st2, cl2, d)
  <2>1. PICK t \in OriginsOf(in, st2, cl2, cl[1].path) :
          cl[1].head = t.head /\ cl[1].update = t.update /\ RootLists(cl[1], t.root)
    BY <1>3, <1>8 DEF CallsMeant, CallMeant
  <2>2. ASSUME NEW f \in d.lists PROVE Get(d.root, f) \in {Missing, List(<<>>), Get(t.root, f)}
    <3>1. f \in cl[1].lists /\ f # cl[1].field /\ f \in Seq(Keys) /\ IsList(Get(cl[1].head, f))
      BY <1>4 DEF CallOK
    <3>2. Get(d.root, f) = Get(cl[1].root, f)
      BY <3>1, ListEndSets
    <3> QED
      BY <1>4, <2>1, <3>1, <3>2 DEF RootLists
  <2>3. RootLists(d, t.root)
    BY <1>4, <2>2 DEF RootLists
  <2> QED
    BY <1>4, <2>1, <2>3 DEF CallMeant
<1>10. CallsMeant(in, st2, cl2)
  BY <1>2, <1>3, <1>8, <1>9 DEF CallsMeant
<1> QED
  BY <1>7, <1>10 DEF st2, cl2

---------------------------------------------------------------------------
(* The conflicts of the fields of an entity.                               *)

(* The folds of Fields and Joined over no key.                             *)
Selected(f) ==
  f = [s \in SUBSET DOMAIN <<>> |->
         IF s = {} THEN <<>>
         ELSE LET i == Max(s) IN IF <<>>[i] \in Keys THEN Append(f[s \ {i}], <<>>[i]) ELSE f[s \ {i}]]

JoinedUp(f) ==
  f = [s \in SUBSET DOMAIN <<>> |->
         IF s = {} THEN <<>>
         ELSE LET i == Max(s)
              IN IF f[s \ {i}] = <<>> THEN Spelling[<<>>[i]] ELSE f[s \ {i}] \o Dot \o Spelling[<<>>[i]]]

LEMMA DottedEmpty == DottedPath(<<>>) = <<>>
<1>1. SUBSET DOMAIN <<>> = {{}} /\ DOMAIN <<>> = {}
  OBVIOUS
<1>2. Fields(<<>>) = <<>>
  <2> DEFINE F == CHOOSE f : Selected(f)
             e == [s \in SUBSET DOMAIN <<>> |-> <<>>]
  <2>1. Selected(e)
    BY <1>1 DEF Selected
  <2>2. Selected(F)
    BY <2>1
  <2>3. Fields(<<>>) = F[DOMAIN <<>>]
    BY DEF Fields, FoldLeft, MapThenFoldSet, Selected
  <2> HIDE DEF F
  <2> QED
    BY <1>1, <2>2, <2>3 DEF Selected
<1>3. Joined(<<>>) = <<>>
  <2> DEFINE F == CHOOSE f : JoinedUp(f)
             e == [s \in SUBSET DOMAIN <<>> |-> <<>>]
  <2>1. JoinedUp(e)
    BY <1>1 DEF JoinedUp
  <2>2. JoinedUp(F)
    BY <2>1
  <2>3. Joined(<<>>) = F[DOMAIN <<>>]
    BY DEF Joined, FoldLeft, MapThenFoldSet, JoinedUp
  <2> HIDE DEF F
  <2> QED
    BY <1>1, <2>2, <2>3 DEF JoinedUp
<1> QED
  BY <1>2, <1>3 DEF DottedPath

(* The whole of an object is a data list as seen from its root, if that is *)
(* what the empty string configures.                                       *)
LEMMA WholeInConfSet ==
  ASSUME <<>> \in DataLists
  PROVE  <<>> \in ConfSet(DataLists, <<>>)
<1>1. DottedPath(<<>>) = <<>>
  BY DottedEmpty
<1>2. IsPrefix(<<>>, <<>>)
  BY DEF IsPrefix
<1>3. Len(<<>>) = 0 /\ SubSeq(<<>>, 0 + 1, 0) = <<>>
  OBVIOUS
<1>4. RemovePrefix(<<>>, <<>>) = <<>>
  BY <1>3 DEF RemovePrefix
<1>5. LStripDots(<<>>) = <<>>
  <2> DEFINE dots == {n \in 0 .. Len(<<>>) : \A i \in 1 .. n : <<>>[i] = "."}
  <2>1. dots = {0}
    BY <1>3
  <2>2. Max({0}) = 0
    BY DEF Max
  <2> QED
    BY <1>3, <2>1, <2>2 DEF LStripDots
<1>6. <<>> \in {c \in DataLists : IsPrefix(<<>>, c)}
  BY <1>2
<1>7. LStripDots(RemovePrefix(<<>>, <<>>)) = <<>>
  BY <1>4, <1>5
<1> QED
  BY <1>1, <1>6, <1>7 DEF ConfSet

(* A value that a step leads into by a key is a dictionary.                *)
LEMMA DictAbove ==
  ASSUME NEW in \in Inputs, NEW obj \in Values(in), NEW f \in Seq(Keys), f # <<>>, IsList(Get(obj, f))
  PROVE  IsDict(obj)
<1>1. 0 \in Nat /\ 0 < Len(f) /\ Get(obj, f) # Missing
  BY DEF IsList, Missing
<1>2. SubSeq(f, 1, 0) = <<>> /\ Get(obj, <<>>) = obj
  BY PrefixEnds, GetEmpty
<1>3. IsDict(Get(obj, SubSeq(f, 1, 0)))
  BY <1>1, ValuesTree, KeysOnDicts
<1> QED
  BY <1>2, <1>3

(* A conflict of a field, from its entity: the value that one side has     *)
(* there, its lists apart.                                                 *)
FieldSaid(head, update, path, d) ==
  LET lists == SkippedLists(head, update, path)
  IN /\ DOMAIN d = {"type", "path", "body"} /\ IsFieldConflict(d) /\ d.path \in PathSet
     /\ \A list \in lists : ~IsPrefix(list, d.path)
     /\ \E obj \in {head, update} :
          (IF d.type = "SET_FIELD" THEN d.body ELSE Missing) = Get(CutLists(obj, lists), d.path)

LEMMA BaseSaid ==
  ASSUME NEW in \in Inputs, NEW head \in Objects(in), NEW update \in Objects(in), NEW root, NEW path,
         ~(IsDict(head) /\ IsDict(update)),
         ~(IsList(head) /\ IsList(update) /\ DottedPath(path) \notin DataLists),
         ~MergeBaseValues(root, head, update, path).raised,
         NEW d \in MergeBaseValues(root, head, update, path).conflicts
  PROVE  FieldSaid(head, update, path, d)
<1>1. ~Agreed(root, head, update) /\ path = <<>>
  BY DEF MergeBaseValues, Outcome
<1>2. PICK lost \in {head, update} : d = Conflict("SET_FIELD", <<>>, lost)
  BY <1>1 DEF MergeBaseValues, Outcome
<1>3. head \in Values(in) /\ update \in Values(in)
  BY <1>1 DEF Agreed, Objects
<1>4. SkippedLists(head, update, path) = {}
  <2> SUFFICES ASSUME NEW f \in SkippedLists(head, update, path) PROVE FALSE
    OBVIOUS
  <2>1. /\ f \in Seq(Keys) /\ IsList(Get(head, f)) /\ IsList(Get(update, f))
        /\ DottedPath(f) \notin ConfSet(DataLists, path)
    BY DEF SkippedLists, ListFields
  <2>2. f = <<>>
    BY <1>3, <2>1, DictAbove
  <2>3. IsList(head) /\ IsList(update)
    BY <2>1, <2>2, GetEmpty
  <2> QED
    BY <1>1, <2>1, <2>2, <2>3, DottedEmpty, WholeInConfSet
<1>5. CutLists(lost, {}) = lost
  <2>1. Apart({})
    BY FS_EmptySet DEF Apart
  <2>2. WellFormed(lost)
    BY <1>3, ValuesTree DEF Tree
  <2> QED
    BY <2>1, <2>2, CutEffect, NothingCut
<1>6. DOMAIN d = {"type", "path", "body"} /\ d.type = "SET_FIELD" /\ d.path = <<>> /\ d.body = lost
  BY <1>2 DEF Conflict
<1>7. <<>> \in PathSet
  BY DEF PathSet
<1> QED
  BY <1>4, <1>5, <1>6, <1>7, GetEmpty DEF FieldSaid, IsFieldConflict

LEMMA DictSaid ==
  ASSUME NEW in \in Inputs, NEW head \in Objects(in), IsDict(head),
         NEW update \in Objects(in), IsDict(update), NEW root \in Roots(in), NEW path,
         NEW d \in MergeDicts(root, head, update, path).conflicts
  PROVE  FieldSaid(head, update, path, d)
<1> DEFINE m == TheMerge(root, head, update, path)
<1>1. d \in ShownBy(m)
  BY MergeDictsMeans DEF Outcome
<1>2. MergeOf(m)
  <2>1. Tree(head) /\ Tree(update) /\ (IsDict(root) => Tree(root))
    BY ValuesTree, RootsClosed DEF NOTHING, IsDict, IsContainer, Objects
  <2> QED
    BY <2>1, TheMergeIs
<1>3. /\ m.head = CutLists(head, SkippedLists(head, update, path))
      /\ m.update = CutLists(update, SkippedLists(head, update, path))
      /\ m.lists = SkippedLists(head, update, path) /\ m.oldhead = head /\ m.oldupdate = update
  BY DEF TheMerge
<1> HIDE DEF m
<1>4. PICK c \in ConflictsOf(m.cut, m.head, m.update) :
        d = PatchConflict(Reported(c, Strategy(c, m.head, m.update, m.key_path)))
  BY <1>1 DEF ShownBy
<1>5. PICK x \in {c[1], c[2]} : d = PatchConflict(x)
  BY <1>4 DEF Reported
<1>6. c[1] \in Diff(m.cut, m.head) /\ c[2] \in Diff(m.cut, m.update)
  BY ConflictIs DEF ConflictsOf
<1>7. Tree(m.cut) /\ Tree(m.head) /\ Tree(m.update)
  BY <1>2, MergeTrees
<1>8. PICK b \in {m.head, m.update} : x \in Diff(m.cut, b)
  BY <1>5, <1>6
<1>9. PatchOK(x) /\ x.value = Get(b, x.path) /\ x.path \in Seq(AllSteps)
  <2>1. Tree(b)
    BY <1>7, <1>8
  <2>2. PatchOK(x) /\ x.value = Get(b, x.path)
    BY <1>7, <1>8, <2>1, DiffIs
  <2> QED
    BY <2>2 DEF PatchOK
<1>10. /\ DOMAIN d = {"type", "path", "body"} /\ d.path = x.path
       /\ d.type = IF x.type = "remove" THEN "REMOVE_FIELD" ELSE "SET_FIELD"
       /\ x.type # "remove" => d.body = x.value
  BY <1>5 DEF PatchConflict, Conflict
<1>12. ASSUME NEW p \in m.lists PROVE ~IsPrefix(p, x.path)
  <2> DEFINE L == m.lists
             r == m.oldroot
             a == m.cut
  <2>1. Apart(L) /\ p \in L /\ Tree(r) /\ Cut(L, r, a) /\ Tree(a) /\ Tree(b)
    BY <1>2, <1>7, <1>8 DEF MergeOf
  <2>2. \E old : Tree(old) /\ IsList(Get(old, p)) /\ Cut(L, old, b)
    BY <1>2, <1>8 DEF MergeOf
  <2>3. x \in Diff(a, b)
    BY <1>8
  <2> HIDE DEF L, r, a
  <2> QED
    BY ONLY <2>1, <2>2, <2>3, ChangeAndList
<1>11. (IF d.type = "SET_FIELD" THEN d.body ELSE Missing) = Get(b, d.path)
  BY <1>9, <1>10 DEF PatchOK
<1> QED
  BY <1>3, <1>8, <1>9, <1>10, <1>11, <1>12 DEF FieldSaid, IsFieldConflict, PathSet, AllSteps

LEMMA FieldsMeant ==
  ASSUME NEW in \in Inputs, NEW head \in Objects(in), NEW update \in Objects(in), NEW root \in Roots(in),
         NEW path, IsEntityPath(path),
         ~(IsList(head) /\ IsList(update) /\ DottedPath(path) \notin DataLists),
         ~MergeObjects(root, head, update, path).raised,
         NEW t, t.head = head, t.update = update,
         NEW d \in MergeObjects(root, head, update, path).conflicts
  PROVE  /\ IsFieldConflict(WithPrefix(d, path)) /\ path \in PathSet
         /\ \E field \in PathSet :
              WithPrefix(d, path).path = path \o field /\ FieldMeant(t, path, field, WithPrefix(d, path))
<1>1. FieldSaid(head, update, path, d)
  <2>1. CASE IsDict(head) /\ IsDict(update)
    BY <2>1, DictSaid DEF MergeObjects
  <2>2. CASE ~(IsDict(head) /\ IsDict(update))
    BY <2>2, BaseSaid DEF MergeObjects
  <2> QED
    BY <2>1, <2>2
<1> DEFINE c == WithPrefix(d, path)
<1>2. c.type = d.type /\ c.path = path \o d.path /\ c.body = d.body
  BY <1>1 DEF WithPrefix, FieldSaid
<1> HIDE DEF c
<1>3. FieldMeant(t, path, d.path, c) /\ d.path \in PathSet
  BY <1>1, <1>2 DEF FieldSaid, FieldMeant
<1>4. IsFieldConflict(c)
  BY <1>1, <1>2 DEF FieldSaid, IsFieldConflict
<1> QED
  BY <1>2, <1>3, <1>4 DEF c, IsEntityPath

---------------------------------------------------------------------------
(* Every action keeps the conflicts meant.                                 *)

LEMMA MeantGoesOn ==
  ASSUME KeptInv, MeantInv, NEW c, calls' = <<c>> \o Tail(calls), Top.at # "elements",
         c.path = Top.path, c.head = Top.head, c.update = Top.update,
         \A root : RootLists(Top, root) => RootLists(c, root),
         stats' = stats, inputs' = inputs,
         \A d \in conflicts' :
           \/ d \in conflicts
           \/ ConflictMeant(inputs, stats, calls, d) \/ ConflictMeant(inputs, stats, calls', d)
  PROVE  MeantInv'
<1>1. Listed(calls) /\ calls # <<>> /\ CallsMeant(inputs, stats, calls)
  BY DEF KeptInv, StackInv, CallsOK, MeantInv
<1>2. /\ CallsMeant(inputs, stats, calls')
      /\ \A path : UnifiedAt(stats, calls, path) \subseteq UnifiedAt(stats, calls', path)
  BY <1>1, MeantReplaced DEF Top
<1>3. \A d : ConflictMeant(inputs, stats, calls, d) => ConflictMeant(inputs, stats, calls', d)
  BY <1>2, MeantCarried
<1>4. \A d \in conflicts' : ConflictMeant(inputs, stats, calls', d)
  BY <1>3 DEF MeantInv
<1> QED
  BY <1>2, <1>4 DEF MeantInv

(* No conflict is added.                                                   *)
LEMMA MeantKept ==
  ASSUME MeantInv, CallsMeant(inputs, stats', calls'),
         \A path : UnifiedAt(stats, calls, path) \subseteq UnifiedAt(stats', calls', path),
         inputs' = inputs, conflicts' = conflicts
  PROVE  MeantInv'
<1>1. \A d : ConflictMeant(inputs, stats, calls, d) => ConflictMeant(inputs, stats', calls', d)
  BY MeantCarried
<1> QED
  BY <1>1 DEF MeantInv

LEMMA InitMeant == Init => MeantInv
<1> SUFFICES ASSUME Init PROVE MeantInv
  OBVIOUS
<1> DEFINE c == Call(<<>>, inputs)
<1>1. calls = <<c>> /\ conflicts = {} /\ DOMAIN calls = {1} /\ calls[1] = c
  BY DEF Init
<1>2. /\ c.path = <<>> /\ c.head = inputs.head /\ c.update = inputs.update /\ c.root = inputs.root
      /\ c.at = "entry"
  BY DEF Call
<1> HIDE DEF c
<1>3. inputs \in OriginsOf(inputs, stats, calls, <<>>)
  BY DEF OriginsOf
<1>4. CallMeant(inputs, stats, calls, c)
  BY <1>2, <1>3 DEF CallMeant, RootLists
<1> QED
  BY <1>1, <1>4 DEF MeantInv, CallsMeant

LEMMA MergeListsMeant == KeptInv /\ PlacedInv /\ MeantInv /\ MergeLists => MeantInv'
<1> SUFFICES ASSUME KeptInv, PlacedInv, MeantInv, MergeLists PROVE MeantInv'
  OBVIOUS
<1> DEFINE r == IF IsList(Top.root) THEN Top.root ELSE List(<<>>)
           c == [Top EXCEPT !.at = "lists", !.lists = {<<>>}, !.root = r]
<1>1. calls' = <<c>> \o Tail(calls)
  <2>1. calls' = <<[Top EXCEPT !.at = "lists", !.lists = {<<>>}, !.root = IF IsList(@) THEN @ ELSE List(<<>>)]>> \o Tail(calls)
    BY DEF MergeLists, SetTop
  <2> QED
    BY <2>1
<1>2. /\ CallOK(inputs, Top) /\ Top.at = "entry" /\ stats' = stats /\ inputs' = inputs /\ conflicts' = conflicts
  BY PlacedTop DEF MergeLists, At
<1>3. r \in {Top.root, List(<<>>)}
  OBVIOUS
<1> HIDE DEF r
<1>4. /\ c.path = Top.path /\ c.head = Top.head /\ c.update = Top.update /\ c.at = "lists"
      /\ c.lists = {<<>>} /\ c.root = r
  BY <1>2 DEF CallOK, Call
<1> HIDE DEF c
<1>5. ASSUME NEW root, RootLists(Top, root) PROVE RootLists(c, root)
  <2>1. Top.root = root
    BY <1>2, <1>5 DEF RootLists
  <2>2. Get(c.root, <<>>) = r /\ Get(root, <<>>) = root
    BY <1>4, GetEmpty
  <2> QED
    BY <1>3, <1>4, <2>1, <2>2 DEF RootLists
<1> QED
  BY <1>1, <1>2, <1>4, <1>5, MeantGoesOn

LEMMA MergeObjectMeant == KeptInv /\ PlacedInv /\ MeantInv /\ MergeObject => MeantInv'
<1> SUFFICES ASSUME KeptInv, PlacedInv, MeantInv, MergeObject PROVE MeantInv'
  OBVIOUS
<1> DEFINE m == MergeObjects(Top.root, Top.head, Top.update, Top.path)
           c == [Top EXCEPT !.at = "lists", !.root = m.root, !.lists = m.skipped]
<1>1. CASE Raise("rule_error") \/ Raise("shifting")
  BY <1>1 DEF MeantInv, Raise
<1>2. CASE ~Raise("rule_error") /\ ~Raise("shifting")
  <2>1. /\ Top.at = "entry" /\ calls' = <<c>> \o Tail(calls) /\ ~m.raised /\ ~BothLists
        /\ stats' = stats /\ inputs' = inputs /\ conflicts' = conflicts \cup Prefixed(m.conflicts, Top.path)
    BY <1>2, ObjectMerged
  <2>2. CallOK(inputs, Top) /\ CallReady(inputs, Top) /\ inputs \in Inputs /\ 1 \in DOMAIN calls
    BY PlacedTop
  <2>3. Top.head \in Objects(inputs) /\ Top.update \in Objects(inputs) /\ Top.root \in Roots(inputs)
    BY <2>1, <2>2 DEF CallOK, CallReady
  <2>4. MergedAs(inputs, Top.head, Top.update, Top.root, m)
    BY <2>1, <2>2, <2>3, ObjectsMerged
  <2>5. PICK t \in OriginsOf(inputs, stats, calls, Top.path) : Top.head = t.head /\ Top.update = t.update
    BY <2>2 DEF MeantInv, CallsMeant, CallMeant, Top
  <2>6. ASSUME NEW d \in Prefixed(m.conflicts, Top.path)
        PROVE  ConflictMeant(inputs, stats, calls, d)
    <3>1. PICK e \in m.conflicts : d = WithPrefix(e, Top.path)
      BY DEF Prefixed
    <3>2. /\ IsFieldConflict(d) /\ Top.path \in PathSet
          /\ \E field \in PathSet : d.path = Top.path \o field /\ FieldMeant(t, Top.path, field, d)
      BY <2>1, <2>2, <2>3, <2>5, <3>1, FieldsMeant DEF BothLists, CallOK
    <3> QED
      BY <2>5, <3>2 DEF ConflictMeant
  <2> HIDE DEF m
  <2>7. /\ c.path = Top.path /\ c.head = Top.head /\ c.update = Top.update /\ c.at = "lists"
        /\ c.lists = m.skipped /\ c.root = m.root
    BY <2>2 DEF CallOK, Call
  <2> HIDE DEF c
  <2>8. ASSUME NEW root, RootLists(Top, root) PROVE RootLists(c, root)
    <3>1. Top.root = root
      BY <2>1, <2>8 DEF RootLists
    <3> QED
      BY <2>4, <2>7, <3>1 DEF MergedAs, RootLists
  <2> QED
    BY <2>1, <2>6, <2>7, <2>8, MeantGoesOn
<1> QED
  BY <1>1, <1>2

LEMMA StartListMeant == KeptInv /\ PlacedInv /\ MeantInv /\ StartList => MeantInv'
<1> SUFFICES ASSUME KeptInv, PlacedInv, MeantInv, StartList PROVE MeantInv'
  OBVIOUS
<1>1. PICK field \in Top.lists :
        /\ IsList(ListsAt(Top, field).root)
        /\ SetTop([Top EXCEPT !.at = "unify", !.field = field,
                              !.unifier = Unifier(ListsAt(Top, field), Top.path \o field)])
  <2>1. PICK field \in Top.lists : \E lists \in {ListsAt(Top, field)} :
          /\ IsList(lists.root)
          /\ SetTop([Top EXCEPT !.at = "unify", !.field = field,
                                !.unifier = Unifier(lists, Top.path \o field)])
    BY Zenon DEF StartList
  <2> QED
    BY <2>1, Zenon
<1> DEFINE u == Unifier(ListsAt(Top, field), Top.path \o field)
           c == [Top EXCEPT !.at = "unify", !.field = field, !.unifier = u]
<1>2. /\ CallOK(inputs, Top) /\ CallReady(inputs, Top) /\ inputs \in Inputs /\ Top.at = "lists" /\ stats' = stats /\ inputs' = inputs /\ conflicts' = conflicts
  BY PlacedTop DEF StartList, At
<1>3. Range(u.lists["root"].elems) \subseteq ElementsOf(Get(Top.root, field))
  <2> DEFINE l == ListAt(Top.root, field)
             found == Get(Top.root, field)
  <2>1. u.lists["root"] = l
    BY DEF Unifier, ListsAt, Sides
  <2>2. IsList(l)
    BY <1>1 DEF ListsAt, Sides
  <2>3. found \in Roots(inputs) \cup {Missing, List(<<>>)}
    BY <1>2 DEF CallReady, RootReady
  <2>4. l = IF found = Missing THEN List(<<>>) ELSE IF IsDict(found) THEN KeysAsList(found) ELSE found
    BY DEF ListAt
  <2> HIDE DEF l, found
  <2>5. ~IsDict(List(<<>>)) /\ Range(List(<<>>).elems) = {} /\ \A o : IsDict(o) => ~IsList(o)
    BY DEF IsDict, IsList, List, Range
  <2>6. ASSUME found \in Roots(inputs), IsDict(found), l = KeysAsList(found)
        PROVE  Range(l.elems) \subseteq ElementsOf(found)
    <3>1. l.elems \in Seq({Base(k) : k \in Steps(found)})
      BY <1>2, <2>6, KeysListed
    <3>2. Range(l.elems) \subseteq {Base(k) : k \in Steps(found)}
      BY <3>1 DEF Range
    <3> QED
      BY <2>5, <2>6, <3>2 DEF ElementsOf
  <2>7. Range(l.elems) \subseteq ElementsOf(found)
    BY <2>2, <2>3, <2>4, <2>5, <2>6 DEF ElementsOf
  <2> QED
    BY <2>1, <2>7 DEF found
<1> HIDE DEF u
<1>4. /\ c.path = Top.path /\ c.head = Top.head /\ c.update = Top.update /\ c.at = "unify"
      /\ c.lists = Top.lists /\ c.root = Top.root /\ c.unifier = u /\ c.field = field
  BY <1>2 DEF CallOK, Call
<1>5. calls' = <<c>> \o Tail(calls)
  BY <1>1 DEF u, SetTop
<1> HIDE DEF c
<1>6. ASSUME NEW root, RootLists(Top, root) PROVE RootLists(c, root)
  <2>1. \A f \in Top.lists : Get(Top.root, f) \in {Missing, List(<<>>), Get(root, f)}
    BY <1>2, <1>6 DEF RootLists
  <2>2. ElementsOf(Missing) = {} /\ ElementsOf(List(<<>>)) = {}
    BY DEF ElementsOf, Missing, List, IsList, IsDict, Range
  <2>3. Range(c.unifier.lists["root"].elems) \subseteq ElementsAt(root, field)
    BY <1>3, <1>4, <2>1, <2>2 DEF ElementsAt
  <2> QED
    BY <1>4, <2>1, <2>3 DEF RootLists
<1> QED
  BY <1>2, <1>4, <1>5, <1>6, MeantGoesOn

(* The lists that a call unifies are those of the triple it merges.        *)
LEMMA UnifierLists ==
  ASSUME KeptInv, PlacedInv, Top.at = "unify",
         NEW t, Top.head = t.head, Top.update = t.update, RootLists(Top, t.root)
  PROVE  /\ UnifierOK
         /\ \A side \in Sides :
              /\ Listed(Top.unifier.lists[side].elems)
              /\ Top.unifier.len[side] = Len(Top.unifier.lists[side].elems)
              /\ Range(Top.unifier.lists[side].elems) \subseteq ElementsAt(t[side], Top.field)
<1> DEFINE lists == Top.unifier.lists
<1>1. /\ CallOK(inputs, Top) /\ CallReady(inputs, Top) /\ Top.field \in Top.lists
      /\ CallKept(inputs, config, calls, stats, conflicts, Top) /\ inputs \in Inputs
  BY TopIs, PlacedTop DEF CallOK
<1>2. ASSUME NEW side \in {"head", "update"}
      PROVE  /\ Listed(lists[side].elems) /\ Top.unifier.len[side] = Len(lists[side].elems)
             /\ Top.unifier.len[side] \in Nat
             /\ Range(lists[side].elems) = ElementsAt(t[side], Top.field)
  <2>1. Top[side] \in Objects(inputs) /\ Top.field \in Seq(Keys) /\ IsList(Get(Top[side], Top.field))
        /\ Top[side] = t[side]
    BY <1>1 DEF CallOK
  <2>2. /\ Get(Top[side], Top.field) # Missing
        /\ Get(Top[side], Top.field).elems \in Seq(Values(inputs))
    BY <1>1, <2>1, ListGot
  <2>3. lists[side] = Get(Top[side], Top.field) /\ Top.unifier.len[side] = Len(Get(Top[side], Top.field).elems)
    BY <1>1 DEF CallOK
  <2>4. Listed(lists[side].elems) /\ Top.unifier.len[side] \in Nat
    BY <2>2, <2>3, ListedIn
  <2> QED
    BY <2>1, <2>2, <2>3, <2>4 DEF ElementsAt, ElementsOf
<1>3. UnifierOK
  <2>1. Top.unifier.op \in AllowedOps
    BY <1>1 DEF CallKept
  <2> QED
    BY <1>2, <2>1 DEF UnifierOK
<1>4. /\ Listed(lists["root"].elems) /\ Top.unifier.len["root"] = Len(lists["root"].elems)
      /\ Range(lists["root"].elems) \subseteq ElementsAt(t["root"], Top.field)
  <2>1. lists["root"].elems \in Seq(Roots(inputs)) /\ Top.unifier.len["root"] = Len(lists["root"].elems)
    BY <1>1 DEF CallReady, UnifierRoot
  <2>2. Listed(lists["root"].elems)
    BY <2>1, ListedIn
  <2> QED
    BY <2>1, <2>2 DEF RootLists
<1> QED
  BY <1>2, <1>3, <1>4 DEF Sides

LEMMA SaidAtPath ==
  ASSUME NEW lists, NEW d, SaysOf(lists, d), NEW path \in PathSet,
         NEW t, \A side \in Sides : Range(lists[side].elems) \subseteq ElementsAt(t[side], Field(path))
  PROVE  /\ ~IsFieldConflict(WithPrefix(d, path)) /\ ListOf(WithPrefix(d, path)) = path
         /\ ListMeant(t, WithPrefix(d, path))
<1> DEFINE c == WithPrefix(d, path)
<1>1. c.type = d.type /\ c.path = path \o d.path /\ c.body = d.body
  BY DEF WithPrefix, SaysOf
<1> HIDE DEF c
<1>2. ListOf(c) = path
  <2>1. CASE d.type = "INSERT"
    <3>1. PICK i \in Nat : d.path = <<i>>
      BY <2>1 DEF SaysOf
    <3>2. Front(path \o <<i>>) = path
      BY ElementPathIs
    <3> QED
      BY <1>1, <2>1, <3>1, <3>2 DEF ListOf
  <2>2. CASE d.type # "INSERT"
    <3>1. path \o <<>> = path
      BY DEF PathSet
    <3>2. d.path = <<>>
      BY <2>2 DEF SaysOf
    <3> QED
      BY <1>1, <2>2, <3>1, <3>2 DEF ListOf
  <2> QED
    BY <2>1, <2>2
<1>3. "head" \in Sides /\ "update" \in Sides
  BY DEF Sides
<1>4. ~IsFieldConflict(c)
  BY <1>1 DEF IsFieldConflict, SaysOf
<1>5. ListMeant(t, c)
  BY <1>1, <1>2, <1>3 DEF ListMeant, SaysOf
<1> QED
  BY <1>2, <1>4, <1>5 DEF c

LEMMA UnifyListsMeant == KeptInv /\ PlacedInv /\ MeantInv /\ UnifyLists => MeantInv'
<1> SUFFICES ASSUME KeptInv, PlacedInv, MeantInv, UnifyLists PROVE MeantInv'
  OBVIOUS
<1> DEFINE lists == Top.unifier.lists
           A     == AbsolutePath(Top)
<1>1. PICK placed \in U!Orders :
        /\ SetTop([Top EXCEPT !.at = "elements", !.unified = Unified(lists, placed),
                              !.new_list = <<>>])
        /\ conflicts' = conflicts \cup Prefixed(ListConflicts(lists, placed), A)
  BY Zenon DEF UnifyLists
<1> DEFINE made == Unified(lists, placed)
           c    == [Top EXCEPT !.at = "elements", !.unified = made, !.new_list = <<>>]
<1>2. /\ CallOK(inputs, Top) /\ Top.at = "unify" /\ 1 \in DOMAIN calls /\ Listed(calls) /\ calls # <<>>
      /\ stats' = stats /\ inputs' = inputs
  BY PlacedTop DEF UnifyLists, At, CallsOK
<1>3. PICK t \in OriginsOf(inputs, stats, calls, Top.path) :
        Top.head = t.head /\ Top.update = t.update /\ RootLists(Top, t.root)
  BY <1>2 DEF MeantInv, CallsMeant, CallMeant, Top
<1>4. A \in PathSet /\ EntityPath(A) = Top.path /\ Field(A) = Top.field
  BY <1>2, AbsolutePathIs
<1>5. /\ UnifierOK
      /\ \A side \in Sides :
           /\ Listed(lists[side].elems) /\ Top.unifier.len[side] = Len(lists[side].elems)
           /\ Range(lists[side].elems) \subseteq ElementsAt(t[side], Field(A))
  BY <1>2, <1>3, <1>4, UnifierLists
<1>6. /\ c.path = Top.path /\ c.head = Top.head /\ c.update = Top.update /\ c.at = "elements"
      /\ c.lists = Top.lists /\ c.root = Top.root /\ c.field = Top.field /\ c.unified = made
  <2>1. DOMAIN Top = DOMAIN Call(<<>>, inputs)
    BY <1>2 DEF CallOK
  <2> HIDE DEF made
  <2> QED
    BY <2>1 DEF Call
<1>7. calls' = <<c>> \o Tail(calls)
  BY <1>1 DEF SetTop
<1> HIDE DEF made, c
<1>8. \A root : RootLists(Top, root) => RootLists(c, root)
  BY <1>2, <1>6 DEF RootLists
<1>9. \A path : UnifiedAt(stats, calls, path) \subseteq UnifiedAt(stats, calls', path)
  BY <1>2, <1>6, <1>7, <1>8, MeantReplaced DEF MeantInv, Top
<1>10. t \in OriginsOf(inputs, stats, calls', Top.path)
  BY <1>3, <1>9, MeantCarried
<1>11. UnifiedAt(stats, calls', A) # {}
  <2>1. calls'[1] = c /\ 1 \in DOMAIN calls'
    <3>1. Listed(calls') /\ Len(calls') = Len(calls) /\ Len(calls) \in Nat \ {0} /\ calls'[1] = c
      BY <1>2, <1>7, ReplaceEffect
    <3>2. DOMAIN calls' = 1 .. Len(calls')
      BY <3>1, ListedDomain
    <3> QED
      BY <3>1, <3>2
  <2>2. AbsolutePath(c) = A
    BY <1>6 DEF AbsolutePath
  <2>3. c.unified \in UnifiedAt(stats, calls', A)
    BY <1>6, <2>1, <2>2 DEF UnifiedAt
  <2> QED
    BY <2>3
<1>12. ASSUME NEW d \in Prefixed(ListConflicts(lists, placed), A)
       PROVE  ConflictMeant(inputs, stats, calls', d)
  <2>1. PICK e \in ListConflicts(lists, placed) : d = WithPrefix(e, A)
    BY DEF Prefixed
  <2>2. SaysOf(lists, e)
    BY <1>5, <2>1, ListConflictsSay
  <2>3. /\ A \in PathSet /\ d = WithPrefix(e, A) /\ SaysOf(lists, e)
        /\ \A side \in Sides : Range(lists[side].elems) \subseteq ElementsAt(t[side], Field(A))
    BY <1>4, <1>5, <2>1, <2>2
  <2> HIDE DEF lists, A
  <2>4. ~IsFieldConflict(d) /\ ListOf(d) = A /\ ListMeant(t, d)
    BY ONLY <2>3, SaidAtPath
  <2> QED
    BY <1>4, <1>10, <1>11, <2>4 DEF ConflictMeant
<1>13. \A d \in conflicts' : d \in conflicts \/ ConflictMeant(inputs, stats, calls', d)
  BY <1>1, <1>12
<1>14. Top.at # "elements"
  BY <1>2
<1> QED
  BY <1>2, <1>6, <1>7, <1>8, <1>13, <1>14, MeantGoesOn

LEMMA MergeElementMeant == KeptInv /\ PlacedInv /\ MeantInv /\ MergeElement => MeantInv'
<1> SUFFICES ASSUME KeptInv, PlacedInv, MeantInv, MergeElement PROVE MeantInv'
  OBVIOUS
<1> DEFINE A == AbsolutePath(Top)
           i == Len(Top.new_list) + 1
           t == Top.unified[i]
           c == Call(A \o <<i>>, t)
<1>1. /\ calls' = <<c>> \o calls /\ Top.at = "elements" /\ Len(Top.new_list) < Len(Top.unified)
      /\ stats' = stats /\ inputs' = inputs /\ conflicts' = conflicts
  BY DEF MergeElement, At, ElementPath
<1>2. CallOK(inputs, Top) /\ Listed(calls) /\ 1 \in DOMAIN calls
  BY PlacedTop
<1>3. i \in Nat /\ i \in DOMAIN Top.unified
  <2>1. /\ Len(Top.new_list) \in Nat /\ Len(Top.unified) \in Nat
        /\ DOMAIN Top.unified = 1 .. Len(Top.unified)
    BY <1>1, <1>2, ListedDomain DEF CallOK
  <2> QED
    BY <1>1, <2>1
<1>4. /\ c.path = A \o <<i>> /\ c.head = t.head /\ c.update = t.update /\ c.root = t.root /\ c.at = "entry"
  BY DEF Call
<1>5. A \in PathSet
  BY <1>2, AbsolutePathIs
<1>6. Top.unified \in UnifiedAt(stats, calls, A)
  BY <1>1, <1>2 DEF UnifiedAt, Top
<1> HIDE DEF c, A, i
<1>7. c.path # <<>> /\ Front(c.path) = A /\ Last(c.path) = i
  BY <1>3, <1>4, <1>5, ElementPathIs
<1>8. t \in OriginsOf(inputs, stats, calls, c.path)
  BY <1>3, <1>6, <1>7 DEF OriginsOf
<1> HIDE DEF t
<1>9. CallMeant(inputs, stats, calls, c)
  BY <1>4, <1>8 DEF CallMeant, RootLists
<1>10. /\ CallsMeant(inputs, stats, calls')
       /\ \A path : UnifiedAt(stats, calls, path) \subseteq UnifiedAt(stats, calls', path)
  BY <1>1, <1>2, <1>9, MeantPushed DEF MeantInv
<1> QED
  BY <1>1, <1>10, MeantKept

LEMMA ReturnElementMeant == KeptInv /\ PlacedInv /\ MeantInv /\ ReturnElement => MeantInv'
<1> SUFFICES ASSUME KeptInv, PlacedInv, MeantInv, ReturnElement PROVE MeantInv'
  OBVIOUS
<1> DEFINE d == [calls[2] EXCEPT !.new_list = Append(@, Top.root)]
<1>1. /\ calls' = <<d>> \o Tail(Tail(calls)) /\ Len(calls) > 1 /\ Top.at = "lists"
      /\ stats' = stats /\ inputs' = inputs /\ conflicts' = conflicts
  BY DEF ReturnElement, Appended, At
<1>2. CallsOK(inputs, calls) /\ Listed(calls)
  BY PlacedTop
<1>3. CallOK(inputs, calls[2])
  <2>1. 2 \in DOMAIN calls
    BY <1>1, <1>2, ListedDomain
  <2> QED
    BY <1>2, <2>1 DEF CallsOK
<1>4. Returned(calls, d) /\ d.unifier = calls[2].unifier
  <2> DEFINE e == calls[2]
             n == Append(calls[2].new_list, Top.root)
  <2>1. d = [e EXCEPT !.new_list = n]
    OBVIOUS
  <2>2. DOMAIN e = DOMAIN Call(<<>>, inputs)
    BY <1>3 DEF CallOK
  <2> HIDE DEF d, e, n
  <2>3. /\ d.at = e.at /\ d.path = e.path /\ d.head = e.head /\ d.update = e.update
        /\ d.root = e.root /\ d.lists = e.lists /\ d.field = e.field /\ d.unified = e.unified
        /\ d.new_list = n /\ d.unifier = e.unifier
    BY <2>1, <2>2 DEF Call
  <2> QED
    BY <1>1, <2>3 DEF Returned, e, n, Top
<1> HIDE DEF d
<1>5. /\ CallsMeant(inputs, stats, calls')
      /\ \A path : UnifiedAt(stats, calls, path) \subseteq UnifiedAt(stats, calls', path)
  BY <1>1, <1>2, <1>4, MeantReturned DEF MeantInv
<1> QED
  BY <1>1, <1>5, MeantKept

LEMMA FinishListMeant == KeptInv /\ PlacedInv /\ MeantInv /\ FinishList => MeantInv'
<1> SUFFICES ASSUME KeptInv, PlacedInv, MeantInv, FinishList PROVE MeantInv'
  OBVIOUS
<1> DEFINE r == Set(Top.root, Top.field, List(Top.new_list))
           c == [Top EXCEPT !.at = "lists", !.lists = ListsLeft(Top), !.root = r]
           A == AbsolutePath(Top)
<1>1. /\ calls' = <<c>> \o Tail(calls) /\ Top.at = "elements" /\ Len(Top.new_list) = Len(Top.unified)
      /\ inputs' = inputs /\ conflicts' = conflicts
      /\ stats' = [p \in DOMAIN stats \cup {A} |-> IF p = A THEN Top.unified ELSE stats[p]]
  BY DEF FinishList, SetTop, At
<1>2. CallOK(inputs, Top) /\ CallReady(inputs, Top) /\ CallsOK(inputs, calls) /\ inputs \in Inputs
  BY PlacedTop
<1>3. /\ c.path = Top.path /\ c.head = Top.head /\ c.update = Top.update /\ c.at = "lists"
      /\ c.lists = Top.lists \ {Top.field} /\ c.root = r
  <2> HIDE DEF r
  <2> QED
    BY <1>2 DEF CallOK, Call, ListsLeft
<1>4. ListEnd(inputs, Top, c)
  <2> HIDE DEF c
  <2> QED
    BY <1>1, <1>2, <1>3 DEF ListEnd
<1> HIDE DEF c
<1>5. ListsLeftNew(calls, stats) /\ CallsMeant(inputs, stats, calls) /\ ListEnd(inputs, calls[1], c)
  BY <1>4 DEF KeptInv, StackInv, MeantInv, Top
<1>6. /\ CallsMeant(inputs, stats', calls')
      /\ \A path : UnifiedAt(stats, calls, path) \subseteq UnifiedAt(stats', calls', path)
  BY <1>1, <1>2, <1>5, MeantFinished DEF Top
<1> QED
  BY <1>1, <1>6, MeantKept

LEMMA StepKeepsMeant == KeptInv /\ PlacedInv /\ MeantInv /\ [Next]_vars => MeantInv'
<1> SUFFICES ASSUME KeptInv, PlacedInv, MeantInv, [Next]_vars PROVE MeantInv'
  OBVIOUS
<1>1. CASE UNCHANGED vars
  BY <1>1 DEF MeantInv, vars
<1>2. CASE TooManyToUnify
  BY <1>2 DEF TooManyToUnify, Raise, MeantInv
<1>3. CASE RootNotAList
  BY <1>3 DEF RootNotAList, Raise, MeantInv
<1>4. CASE RootKeyError
  BY <1>4 DEF RootKeyError, Raise, MeantInv
<1>5. CASE Return
  BY <1>5 DEF Return, MeantInv
<1> QED
  BY <1>1, <1>2, <1>3, <1>4, <1>5, MergeListsMeant, MergeObjectMeant, StartListMeant, UnifyListsMeant,
     MergeElementMeant, ReturnElementMeant, FinishListMeant
  DEF Next, Merge, Done

---------------------------------------------------------------------------
(* At the end the stats alone know what was unified.                       *)

LEMMA OriginsAtEnd ==
  ASSUME KeptInv, AlignedInv, PlacedInv, Merged
  PROVE  /\ \A path : \A made \in UnifiedAt(stats, calls, path) : path \in DOMAIN stats /\ made = stats[path]
         /\ \A path : \A t \in OriginsOf(inputs, stats, calls, path) :
              /\ t = IF path = <<>> THEN inputs ELSE stats[Front(path)][Last(path)]
              /\ path # <<>> => Front(path) \in DOMAIN stats /\ Last(path) \in DOMAIN stats[Front(path)]
<1>1. \A k \in DOMAIN calls : calls[k].at # "elements"
  BY ListsInMerged
<1>2. \A path : \A made \in UnifiedAt(stats, calls, path) : path \in DOMAIN stats /\ made = stats[path]
  BY <1>1 DEF UnifiedAt
<1>3. ASSUME NEW path, NEW t \in OriginsOf(inputs, stats, calls, path), path # <<>>
      PROVE  /\ t = stats[Front(path)][Last(path)]
             /\ Front(path) \in DOMAIN stats /\ Last(path) \in DOMAIN stats[Front(path)]
  <2>1. PICK made \in UnifiedAt(stats, calls, Front(path)) : Last(path) \in DOMAIN made /\ t = made[Last(path)]
    BY <1>3 DEF OriginsOf
  <2> QED
    BY <1>2, <2>1
<1>4. \A path : \A t \in OriginsOf(inputs, stats, calls, path) : path = <<>> => t = inputs
  BY DEF OriginsOf
<1> QED
  BY <1>2, <1>3, <1>4

LEMMA EntityThere ==
  ASSUME KeptInv, AlignedInv, PlacedInv, Merged, NEW e \in PathSet,
         e # <<>> => Front(e) \in DOMAIN stats /\ Last(e) \in DOMAIN stats[Front(e)]
  PROVE  Has(merged_root, e)
<1>1. CASE e = <<>>
  <2>1. /\ merged_root = calls[1].root /\ calls[1].at # "entry" /\ 1 \in DOMAIN calls
    BY ListsInMerged
  <2>2. merged_root # Missing
    BY <2>1 DEF PlacedInv, CallsReady, CallReady, RootReady, Stands
  <2> QED
    BY <1>1, <2>2, GetEmpty DEF Has
<1>2. CASE e # <<>>
  <2> DEFINE list == Get(merged_root, Front(e))
  <2>1. IsPlaced(merged_root, Front(e), stats[Front(e)])
    BY <1>2, ListsInMerged
  <2>2. /\ IsList(list) /\ Last(e) \in DOMAIN list.elems
        /\ list.elems[Last(e)] # Missing
    BY <1>2, <2>1 DEF IsPlaced, Stands
  <2>3. Step(list, Last(e)) = list.elems[Last(e)]
    BY <2>2 DEF Step, Steps, Children, IsList, IsDict
  <2>4. /\ Front(e) \in Seq(Keys \cup Nat) /\ Last(e) \in Keys \cup Nat /\ e = Append(Front(e), Last(e))
    BY <1>2, FrontLast DEF PathSet
  <2>5. Get(merged_root, Append(Front(e), Last(e))) = Step(list, Last(e))
    BY <2>4, GetAppend
  <2> QED
    BY <2>2, <2>3, <2>4, <2>5 DEF Has
<1> QED
  BY <1>1, <1>2

LEMMA BehindOrigin ==
  ASSUME KeptInv, AlignedInv, PlacedInv, Merged, NEW path,
         NEW t \in OriginsOf(inputs, stats, calls, EntityPath(path)), NEW side
  PROVE  Behind(path, side) = Get(t[side], Field(path))
BY OriginsAtEnd DEF Behind, TripleAt, Field

LEMMA FieldLocated ==
  ASSUME KeptInv, AlignedInv, PlacedInv, MeantInv, Merged, NEW c \in conflicts, IsFieldConflict(c)
  PROVE  \E e \in EntitiesOn(c.path) : WantedThere(c, e, SubSeq(c.path, Len(e) + 1, Len(c.path)))
<1>1. PICK e \in PathSet, f \in PathSet :
        /\ c.path = e \o f
        /\ \E t \in OriginsOf(inputs, stats, calls, e) : FieldMeant(t, e, f, c)
  BY DEF MeantInv, ConflictMeant
<1>2. PICK t \in OriginsOf(inputs, stats, calls, e) : FieldMeant(t, e, f, c)
  BY <1>1
<1>3. /\ c.path \in PathSet /\ Len(e) \in 0 .. Len(c.path) /\ SubSeq(c.path, 1, Len(e)) = e
      /\ SubSeq(c.path, Len(e) + 1, Len(c.path)) = f
  BY <1>1, PartsOf
<1>4. /\ t = TripleAt(e)
      /\ e # <<>> => Front(e) \in DOMAIN stats /\ Last(e) \in DOMAIN stats[Front(e)]
  BY <1>2, OriginsAtEnd DEF TripleAt
<1>5. Has(merged_root, e)
  BY <1>4, EntityThere
<1>6. e \in EntitiesOn(c.path)
  <2> DEFINE n == Len(e)
  <2>1. n = 0 \/ SubSeq(c.path, 1, n - 1) \in DOMAIN stats
    <3> SUFFICES ASSUME n # 0 PROVE SubSeq(c.path, 1, n - 1) \in DOMAIN stats
      OBVIOUS
    <3>1. e # <<>> /\ n - 1 \in 0 .. n
      BY <1>3
    <3>2. Front(e) = SubSeq(e, 1, n - 1)
      BY DEF Front
    <3>3. SubSeq(SubSeq(c.path, 1, n), 1, n - 1) = SubSeq(c.path, 1, n - 1)
      BY <1>3, <3>1, PrefixOfPrefix DEF PathSet
    <3> QED
      BY <1>3, <1>4, <3>1, <3>2, <3>3
  <2> QED
    BY <1>3, <2>1 DEF EntitiesOn
<1>7. WantedThere(c, e, f)
  <2>1. PICK side \in {"head", "update"} :
          (IF c.type = "SET_FIELD" THEN c.body ELSE Missing) =
            Get(CutLists(t[side], SkippedLists(t.head, t.update, e)), f)
    BY <1>2 DEF FieldMeant
  <2>2. \A list \in SkippedLists(t.head, t.update, e) : ~IsPrefix(list, f)
    BY <1>2 DEF FieldMeant
  <2> QED
    BY <1>4, <1>5, <2>1, <2>2 DEF WantedThere
<1> QED
  BY <1>3, <1>6, <1>7

LEMMA ListLocated ==
  ASSUME KeptInv, AlignedInv, PlacedInv, MeantInv, Merged, NEW c \in conflicts, ~IsFieldConflict(c)
  PROVE  /\ c.type \in {"REORDER", "MANUAL_MERGE", "ADD_BACK_TO_HEAD", "INSERT"}
         /\ ListOf(c) \in DOMAIN stats
         /\ c.type = "MANUAL_MERGE" =>
              \A side \in Sides : c.body[side] \in EntitiesBehind(ListOf(c), side) \cup {NOTHING}
         /\ c.type = "ADD_BACK_TO_HEAD" => c.body \in EntitiesBehind(ListOf(c), "head")
         /\ c.type = "INSERT" => c.body \in EntitiesBehind(ListOf(c), "update")
<1> DEFINE l == ListOf(c)
<1>1. UnifiedAt(stats, calls, l) # {}
  BY DEF MeantInv, ConflictMeant
<1>2. PICK t \in OriginsOf(inputs, stats, calls, EntityPath(l)) : ListMeant(t, c)
  BY DEF MeantInv, ConflictMeant
<1>3. l \in DOMAIN stats
  BY <1>1, OriginsAtEnd
<1>4. ASSUME NEW side PROVE EntitiesBehind(l, side) = ElementsAt(t[side], Field(l))
  <2>1. Behind(l, side) = Get(t[side], Field(l))
    BY <1>2, BehindOrigin
  <2> QED
    BY <2>1 DEF EntitiesBehind, ElementsAt, ElementsOf
<1> QED
  BY <1>2, <1>3, <1>4 DEF ListMeant

(* When the merge ends, every conflict points into the merged object at    *)
(* what it is about: at a field of an entity that is there, or a place in  *)
(* one of its lists of data, which head or update wanted to be what the    *)
(* conflict says, unified lists apart; at a list that was unified, whose   *)
(* entities the conflict holds; at a place in such a list, for an entity   *)
(* of update.  What is merged later leaves the paths of earlier conflicts  *)
(* as they are.                                                            *)
THEOREM ConflictsAlwaysLocated == Spec => []ConflictsLocated
<1>1. KeptInv /\ AlignedInv /\ PlacedInv /\ MeantInv => ConflictsLocated
  <2> SUFFICES ASSUME KeptInv, AlignedInv, PlacedInv, MeantInv, Merged
               PROVE  ConflictsLocated
    BY DEF ConflictsLocated
  <2>1. ASSUME NEW c \in conflicts, c.type \in {"SET_FIELD", "REMOVE_FIELD"}
        PROVE  \E e \in EntitiesOn(c.path) : WantedThere(c, e, SubSeq(c.path, Len(e) + 1, Len(c.path)))
    BY <2>1, FieldLocated DEF IsFieldConflict
  <2>2. ASSUME NEW c \in conflicts, c.type = "REORDER"
        PROVE  c.path \in DOMAIN stats
    BY <2>2, ListLocated DEF IsFieldConflict, ListOf
  <2>3. ASSUME NEW c \in conflicts, c.type = "MANUAL_MERGE"
        PROVE  /\ c.path \in DOMAIN stats
               /\ \A side \in Sides : c.body[side] \in EntitiesBehind(c.path, side) \cup {NOTHING}
    BY <2>3, ListLocated DEF IsFieldConflict, ListOf
  <2>4. ASSUME NEW c \in conflicts, c.type = "ADD_BACK_TO_HEAD"
        PROVE  c.path \in DOMAIN stats /\ c.body \in EntitiesBehind(c.path, "head")
    BY <2>4, ListLocated DEF IsFieldConflict, ListOf
  <2>5. ASSUME NEW c \in conflicts, c.type = "INSERT"
        PROVE  Front(c.path) \in DOMAIN stats /\ c.body \in EntitiesBehind(Front(c.path), "update")
    BY <2>5, ListLocated DEF IsFieldConflict, ListOf
  <2>6. \A c \in conflicts :
          c.type \in {"SET_FIELD", "REMOVE_FIELD", "REORDER", "MANUAL_MERGE", "ADD_BACK_TO_HEAD", "INSERT"}
    BY ListLocated DEF IsFieldConflict
  <2> QED
    BY <2>1, <2>2, <2>3, <2>4, <2>5, <2>6 DEF ConflictsLocated
<1> QED
  BY <1>1, InitKept, StepKeepsKept, InitAligned, StepKeepsAligned, InitPlaced, StepKeepsPlaced,
     InitMeant, StepKeepsMeant, PTL DEF Spec
=============================================================================
