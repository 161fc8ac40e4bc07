---------------------- MODULE MatchGraphBuilderProofs ----------------------
(***************************************************************************)
(* Theorems of MatchGraphBuilder, for lists of any length, any comparators *)
(* and any of the sets of kept lists.                                      *)
(***************************************************************************)
EXTENDS MatchGraphBuilder, WellFoundedInduction, TLAPS

---------------------------------------------------------------------------
(* Entities and their classes.                                             *)

(* An entity is an index in one of the lists.                              *)
LEMMA ElementsAreIndices ==
  ASSUME InputTypeOK
  PROVE  /\ \A l \in Lists : \A i \in Int : <<l, i>> \in Elements <=> i \in 0 .. len[l] - 1
         /\ \A x \in Elements : /\ x = <<x[1], x[2]>> /\ x[1] \in Lists
                                /\ x[2] \in 0 .. len[x[1]] - 1
BY DEF Elements, Lists, InputTypeOK

(* The comparators only compare entities of two different lists, in one    *)
(* direction or the other (get_matches of the BFS asks both).              *)
LEMMA MatchedIsAcross ==
  ASSUME InputTypeOK, NEW x \in Elements, NEW y \in Elements, Matched(x, y)
  PROVE  y[1] \in OtherTwo[x[1]] /\ Matched(y, x)
BY DEF InputTypeOK, ComparedPairs, Comparators, Matched, OtherTwo

(* A class contains its entity, is closed, and is the least such set.      *)
LEMMA ClassIsClosure ==
  ASSUME NEW x \in Elements
  PROVE  /\ x \in Class(x) /\ Class(x) \subseteq Elements
         /\ Closed(Class(x))
         /\ \A S \in SUBSET Elements : x \in S /\ Closed(S) => Class(x) \subseteq S
<1>1. x \in Class(x) /\ Class(x) \subseteq Elements
  BY DEF Class
<1>2. ASSUME NEW y \in Class(x), NEW z \in Elements, Matched(y, z)
      PROVE  z \in Class(x)
  BY <1>2 DEF Class, Closed
<1>3. \A S \in SUBSET Elements : x \in S /\ Closed(S) => Class(x) \subseteq S
  BY DEF Class
<1> QED
  BY <1>1, <1>2, <1>3 DEF Closed

(* The entities of a class have that class: being the same entity is an    *)
(* equivalence, whatever the comparators do.                               *)
LEMMA SameClass ==
  ASSUME InputTypeOK, NEW x \in Elements, NEW y \in Class(x)
  PROVE  Class(y) = Class(x)
<1>1. y \in Elements
  BY ClassIsClosure
<1>2. Class(y) \subseteq Class(x)
  BY <1>1, ClassIsClosure
<1>3. x \in Class(y)
  <2> SUFFICES ASSUME x \notin Class(y) PROVE FALSE
    OBVIOUS
  <2> DEFINE rest == Class(x) \ Class(y)
  <2>1. ASSUME NEW a \in rest, NEW b \in Elements, Matched(a, b)
        PROVE  b \in rest
    <3>1. a \in Elements /\ b \in Class(x)
      BY <2>1, ClassIsClosure DEF Closed
    <3>2. Matched(b, a)
      BY <2>1, <3>1, MatchedIsAcross
    <3>3. b \notin Class(y)
      BY <1>1, <2>1, <3>1, <3>2, ClassIsClosure DEF Closed
    <3> QED
      BY <3>1, <3>3
  <2>2. rest \in SUBSET Elements /\ x \in rest /\ Closed(rest)
    BY <2>1, ClassIsClosure DEF Closed
  <2>3. Class(x) \subseteq rest
    BY <2>2, ClassIsClosure
  <2> QED
    BY <1>1, <2>3, ClassIsClosure
<1>4. Class(x) \subseteq Class(y)
  BY <1>1, <1>3, ClassIsClosure
<1> QED
  BY <1>2, <1>4

---------------------------------------------------------------------------
(* The triples made of a set of entities.                                  *)

(* Each list offers a candidate, "nothing" if it has no entity.            *)
LEMMA TriplesAreTriples ==
  ASSUME InputTypeOK, NEW S \in SUBSET Elements
  PROVE  Triples(S) \subseteq TripleSet /\ Triples(S) # {}
<1>1. \A l \in Lists : Candidates(S, l) \subseteq Indices(l) /\ Candidates(S, l) # {}
  BY DEF Candidates, Hits, Indices
<1>2. PICK r \in Candidates(S, "root") : TRUE
  BY <1>1 DEF Lists
<1>3. PICK h \in Candidates(S, "head") : TRUE
  BY <1>1 DEF Lists
<1>4. PICK u \in Candidates(S, "update") : TRUE
  BY <1>1 DEF Lists
<1>5. [root |-> r, head |-> h, update |-> u] \in Triples(S)
  BY <1>2, <1>3, <1>4 DEF Triples
<1> QED
  BY <1>1, <1>5 DEF Triples, TripleSet, Lists

(* A triple stands for entities of the set, and for those of a list that   *)
(* it has an index in.                                                     *)
LEMMA TripleMembers ==
  ASSUME InputTypeOK, NEW S \in SUBSET Elements, NEW t \in Triples(S)
  PROVE  Members(t) \subseteq S
<1> SUFFICES ASSUME NEW l \in Lists, t[l] # NONE
             PROVE  <<l, t[l]>> \in S
  BY DEF Members
<1>1. t[l] \in Candidates(S, l)
  BY DEF Triples, Lists
<1> QED
  BY <1>1 DEF Candidates, Hits

(* Every entity of the set is in one of its triples: put to the user, an   *)
(* ambiguous class is put to the user in full.                             *)
LEMMA TriplesCover ==
  ASSUME InputTypeOK, NEW S \in SUBSET Elements, NEW x \in S
  PROVE  \E t \in Triples(S) : x \in Members(t)
<1>1. x[1] \in Lists /\ x = <<x[1], x[2]>> /\ x[2] \in 0 .. len[x[1]] - 1
  BY ElementsAreIndices
<1>2. x[2] \in Candidates(S, x[1]) /\ x[2] # NONE
  BY <1>1 DEF Candidates, Hits, NONE
<1>3. PICK t \in Triples(S) : TRUE
  BY TriplesAreTriples
<1> DEFINE v == [root   |-> IF x[1] = "root" THEN x[2] ELSE t.root,
                 head   |-> IF x[1] = "head" THEN x[2] ELSE t.head,
                 update |-> IF x[1] = "update" THEN x[2] ELSE t.update]
<1>4. v \in Triples(S)
  BY <1>2, <1>3 DEF Triples
<1>5. v[x[1]] = x[2]
  BY <1>1 DEF Lists
<1>6. x \in Members(v)
  BY <1>1, <1>2, <1>5 DEF Members
<1> QED
  BY <1>4, <1>6

(* An unambiguous set has one triple, which stands for all of the set.     *)
LEMMA UnambiguousTriple ==
  ASSUME InputTypeOK, NEW S \in SUBSET Elements, Unambiguous(S), NEW t \in Triples(S)
  PROVE  Triples(S) = {t} /\ Members(t) = S
<1>1. Triples(S) = {t}
  BY DEF Unambiguous
<1>2. S \subseteq Members(t)
  BY <1>1, TriplesCover
<1> QED
  BY <1>1, <1>2, TripleMembers

---------------------------------------------------------------------------
(* Type correctness.                                                       *)

(* What is said of the inputs carries over steps that leave them alone.    *)
LEMMA InputsUnchanged ==
  ASSUME UNCHANGED inputs
  PROVE  /\ InputTypeOK => InputTypeOK'
         /\ Elements' = Elements
         /\ \A x : Class(x)' = Class(x)
         /\ \A l : Indices(l)' = Indices(l)
         /\ \A l : StatsOf(l)' = StatsOf(l)
         /\ TripleSet' = TripleSet
         /\ \A x, l : Hits(Class(x), l)' = Hits(Class(x), l)
         /\ \A x : Triples(Class(x))' = Triples(Class(x))
         /\ \A x : Unambiguous(Class(x))' <=> Unambiguous(Class(x))
<1>1. Elements' = Elements /\ ComparedPairs' = ComparedPairs
  BY DEF inputs, Elements, ComparedPairs
<1>2. \A x : Class(x)' = Class(x)
  BY <1>1 DEF Class, Closed, Matched, inputs
<1>3. \A l : Indices(l)' = Indices(l)
  BY DEF Indices, inputs
<1>4. \A l : StatsOf(l)' = StatsOf(l)
  BY <1>3 DEF StatsOf, inputs
<1>5. ASSUME NEW x
      PROVE  /\ \A l : Hits(Class(x), l)' = Hits(Class(x), l)
             /\ Triples(Class(x))' = Triples(Class(x))
             /\ Unambiguous(Class(x))' <=> Unambiguous(Class(x))
  <2>1. Class(x)' = Class(x)
    BY <1>2
  <2>2. \A l : Hits(Class(x), l)' = Hits(Class(x), l)
    BY <2>1 DEF Hits, inputs
  <2>3. \A l : Candidates(Class(x), l)' = Candidates(Class(x), l)
    BY <2>2 DEF Candidates
  <2>4. Triples(Class(x))' = Triples(Class(x))
    <3>1. \A t : t \in Triples(Class(x))' <=> t \in Triples(Class(x))
      BY <2>3 DEF Triples
    <3> QED
      BY <3>1
  <2> QED
    BY <2>2, <2>4 DEF Unambiguous
<1> QED
  BY <1>1, <1>2, <1>3, <1>4, <1>5 DEF InputTypeOK, TripleSet, inputs

(* A node is a triple of indices.                                          *)
LEMMA NodeType ==
  ASSUME TypeOK, NEW n \in NodeIds
  PROVE  /\ node_src_indices[n] \in TripleSet
         /\ \A l \in Lists : node_src_indices[n][l] \in Indices(l)
<1>1. node_src_indices[n] \in TripleSet
  BY DEF TypeOK, NodeIds
<1> QED
  BY <1>1 DEF TripleSet, Lists

(* Adding a node keeps the node table and the index maps well-typed        *)
(* (_push_node).                                                           *)
LEMMA PushNodeType ==
  ASSUME TypeOK, UNCHANGED inputs, NEW t \in TripleSet, PushNode(t)
  PROVE  /\ node_src_indices' \in Seq(TripleSet)
         /\ DOMAIN idx_to_node' = Sides
         /\ \A l \in Sides : idx_to_node'[l] \in [0 .. len[l] - 1 -> NodeIds' \cup {NONE}]
         /\ NodeIds \subseteq NodeIds'
<1>1. /\ node_src_indices' \in Seq(TripleSet)
      /\ Len(node_src_indices') = Len(node_src_indices) + 1
  BY DEF PushNode, TypeOK
<1>2. NodeIds \subseteq NodeIds' /\ Len(node_src_indices) + 1 \in NodeIds'
  BY <1>1 DEF NodeIds, TypeOK
<1> QED
  BY <1>1, <1>2 DEF PushNode, TypeOK

(* The stats stay well-typed.                                              *)
LEMMA StatsType ==
  ASSUME InputTypeOK, NEW l \in Lists, NEW st \in StatsOf(l)
  PROVE  /\ \A i \in 0 .. len[l] - 1, r \in Indices("root") : AddRootMatch(st, i, r) \in StatsOf(l)
         /\ \A S \in SUBSET (0 .. len[l] - 1) : MoveToResult(st, S) \in StatsOf(l)
<1>1. st = [lst                          |-> st.lst,
            in_result_idx                |-> st.in_result_idx,
            not_in_result_root_match_idx |-> st.not_in_result_root_match_idx,
            root_matches                 |-> st.root_matches]
  BY DEF StatsOf
<1>2. ASSUME NEW i \in 0 .. len[l] - 1, NEW r \in Indices("root")
      PROVE  AddRootMatch(st, i, r) \in StatsOf(l)
  <2>1. [st.root_matches EXCEPT ![i] = r] \in [0 .. len[l] - 1 -> Indices("root")]
    BY DEF StatsOf
  <2> QED
    BY <1>1, <2>1 DEF AddRootMatch, StatsOf
<1>3. ASSUME NEW S \in SUBSET (0 .. len[l] - 1)
      PROVE  MoveToResult(st, S) \in StatsOf(l)
  BY <1>1, <1>3 DEF MoveToResult, StatsOf
<1> QED
  BY <1>2, <1>3

(* The loop of _get_next_node stops at the least index that has a node.    *)
LEMMA LeastIndex ==
  ASSUME NEW S \in SUBSET Nat, S # {}
  PROVE  \E i \in S : \A j \in S : i <= j
<1>1. PICK i \in S : \A j \in S : ~(<<j, i>> \in OpToRel(<, Nat))
  BY NatLessThanWellFounded, WFMin
<1>2. \A j \in S : ~(j < i)
  BY <1>1 DEF OpToRel
<1> QED
  BY <1>2

(* The indices after those of a node.                                      *)
LEMMA FollowingType ==
  ASSUME TypeOK, NEW n \in {FIRST} \cup NodeIds, NEW l \in Sides
  PROVE  Following(n, l) \subseteq 0 .. len[l] - 1
<1>1. len[l] \in Nat
  BY DEF TypeOK, InputTypeOK, Lists, Sides
<1>2. CASE n = FIRST
  BY <1>2 DEF Following
<1>3. CASE n # FIRST
  <2>1. node_src_indices[n][l] \in Indices(l)
    BY <1>3, NodeType DEF Sides, Lists
  <2> QED
    BY <1>1, <1>3, <2>1 DEF Following, Indices
<1> QED
  BY <1>2, <1>3

(* The next node of a node is a node, or none.                             *)
LEMMA NextNodeType ==
  ASSUME TypeOK, NEW n \in {FIRST} \cup NodeIds, NEW l \in Sides
  PROVE  GetNextNode(l, Following(n, l)) \in NodeIds \cup {NONE}
<1> DEFINE linked == {i \in Following(n, l) : idx_to_node[l][i] # NONE}
<1>1. Following(n, l) \subseteq 0 .. len[l] - 1
  BY FollowingType
<1>2. CASE linked # {}
  <2>1. linked \subseteq 0 .. len[l] - 1 /\ linked \in SUBSET Nat
    BY <1>1
  <2> DEFINE least == CHOOSE i \in linked : \A j \in linked : i <= j
  <2> HIDE DEF linked
  <2>2. least \in linked
    BY <1>2, <2>1, LeastIndex
  <2>3. idx_to_node[l][least] \in NodeIds \cup {NONE}
    BY <2>1, <2>2 DEF TypeOK
  <2> QED
    BY <2>3 DEF GetNextNode, linked
<1>3. CASE linked = {}
  BY <1>3 DEF GetNextNode
<1> QED
  BY <1>2, <1>3

(* The variables have their types.                                         *)
THEOREM TypeCorrect == Spec => []TypeOK
<1>1. Init => TypeOK
  <2> SUFFICES ASSUME Init PROVE TypeOK
    OBVIOUS
  <2>1. InputTypeOK
    BY LengthsAssumption DEF Init, InputInit, InputTypeOK
  <2>2. \A l \in Sides : NewStats(len[l]) \in StatsOf(l)
    BY DEF NewStats, StatsOf, Indices, NONE
  <2>3. node_src_indices \in Seq(TripleSet) /\ Len(node_src_indices) = 0
    BY DEF Init
  <2>4. \A l \in Sides : idx_to_node[l] \in [0 .. len[l] - 1 -> NodeIds \cup {NONE}]
    BY DEF Init
  <2>5. phase \in Sides => pos <= len[phase]
    BY <2>1 DEF Init, InputTypeOK, Lists
  <2> QED
    BY <2>1, <2>2, <2>3, <2>4, <2>5 DEF Init, TypeOK, Sides
<1>2. TypeOK /\ [Next]_vars => TypeOK'
  <2> SUFFICES ASSUME TypeOK, [Next]_vars PROVE TypeOK'
    OBVIOUS
  <2> USE DEF Sides
  <2>1. CASE StartSearch
    <3>1. <<phase, pos>> \in Elements
      BY <2>1, ElementsAreIndices DEF StartSearch, TypeOK, InputTypeOK, Lists
    <3> QED
      BY <2>1, <3>1, InputsUnchanged DEF StartSearch, inputs, TypeOK, NodeIds
  <2>2. CASE Expand
    <3>1. \A x : NewlyFound(x) \subseteq Elements
      BY DEF NewlyFound, GetMatches
    <3> QED
      BY <2>2, <3>1, InputsUnchanged DEF Expand, inputs, TypeOK, NodeIds
  <2>3. CASE FinishSearch
    <3>1. /\ InputTypeOK' /\ UNCHANGED inputs
          /\ phase \in Sides /\ pos \in 0 .. len[phase] - 1 /\ found \in SUBSET Elements
      BY <2>3, InputsUnchanged DEF FinishSearch, TypeOK, InputTypeOK, Lists
    <3>2. pos' \in Nat /\ pos' <= len'[phase'] /\ found' = {} /\ queue' = {}
      BY <2>3, <3>1 DEF FinishSearch, TypeOK, inputs, InputTypeOK, Lists
    <3>3. /\ node_src_indices' \in Seq(TripleSet)
          /\ DOMAIN idx_to_node' = Sides
          /\ \A l \in Sides : idx_to_node'[l] \in [0 .. len[l] - 1 -> NodeIds' \cup {NONE}]
          /\ choices' \subseteq TripleSet
      <4>1. CASE WantsNode /\ Unambiguous(found)
        <5>1. PICK t \in TripleSet : PushNode(t)
          BY <2>3, <3>1, <4>1, TriplesAreTriples DEF FinishSearch, AddMatches, TypeOK
        <5>2. choices' = choices
          BY <2>3, <4>1 DEF FinishSearch, AddMatches
        <5> QED
          BY <3>1, <5>1, <5>2, PushNodeType DEF TypeOK
      <4>2. CASE ~(WantsNode /\ Unambiguous(found))
        <5>1. /\ UNCHANGED <<node_src_indices, idx_to_node>>
              /\ choices' \subseteq choices \cup Triples(found)
          BY <2>3, <4>2 DEF FinishSearch, AddMatches
        <5> QED
          BY <3>1, <5>1, TriplesAreTriples DEF TypeOK, NodeIds
      <4> QED
        BY <4>1, <4>2
    <3>4. DOMAIN stats' = Sides /\ \A l \in Sides : stats'[l] \in StatsOf(l)
      <4>1. CASE \E r \in Hits(found, "root") : Hits(found, "root") = {r}
        <5> DEFINE r0 == CHOOSE r \in Hits(found, "root") : TRUE
        <5>1. r0 \in Indices("root")
          BY <4>1 DEF Hits, Indices
        <5>2. AddRootMatch(stats[phase], pos, r0) \in StatsOf(phase)
          BY <3>1, <5>1, StatsType DEF TypeOK, Lists
        <5>3. stats' = [stats EXCEPT ![phase] = AddRootMatch(stats[phase], pos, r0)]
          BY <2>3, <4>1 DEF FinishSearch
        <5> QED
          BY <3>1, <5>2, <5>3 DEF TypeOK
      <4>2. CASE ~ \E r \in Hits(found, "root") : Hits(found, "root") = {r}
        BY <2>3, <4>2 DEF FinishSearch, TypeOK
      <4> QED
        BY <4>1, <4>2
    <3>5. UNCHANGED <<phase, graph>> /\ phase # "built"
      BY <2>3, <3>1 DEF FinishSearch
    <3> QED
      BY <3>1, <3>2, <3>3, <3>4, <3>5, InputsUnchanged DEF TypeOK, inputs
  <2>4. CASE EndLoop
    <3>1. phase' \in {"update", "stats"} /\ pos' = 0
      BY <2>4 DEF EndLoop
    <3>2. phase' \in Sides => pos' <= len'[phase']
      BY <2>4, <3>1 DEF EndLoop, TypeOK, inputs, InputTypeOK, Lists
    <3> QED
      BY <2>4, <3>1, <3>2, InputsUnchanged DEF EndLoop, inputs, TypeOK, NodeIds
  <2>5. CASE AddStats
    <3>1. \A l \in Sides : InNodes(l) \subseteq 0 .. len[l] - 1
      BY NodeType DEF InNodes, Indices, Lists
    <3>2. DOMAIN stats' = Sides /\ \A l \in Sides : stats'[l] \in StatsOf(l)
      BY <2>5, <3>1, StatsType DEF AddStats, TypeOK, Lists
    <3> QED
      BY <2>5, <3>2, InputsUnchanged DEF AddStats, inputs, TypeOK, NodeIds
  <2>6. CASE LinkNodes
    <3>1. \A n \in {FIRST} \cup NodeIds : \A l \in Sides :
             GetNextNode(l, Following(n, l)) \in NodeIds \cup {NONE}
      BY NextNodeType
    <3> QED
      BY <2>6, <3>1, InputsUnchanged DEF LinkNodes, inputs, TypeOK, NodeIds
  <2>7. CASE UNCHANGED vars
    BY <2>7, InputsUnchanged DEF vars, inputs, TypeOK, NodeIds
  <2> QED
    BY <2>1, <2>2, <2>3, <2>4, <2>5, <2>6, <2>7 DEF Next, BuildGraph, Built
<1> QED
  BY <1>1, <1>2, PTL DEF Spec

---------------------------------------------------------------------------
(* The search.                                                             *)

(* While a search is under way it holds the entity it started from, only   *)
(* entities of its class, and all the matches of those it has taken from   *)
(* the queue.                                                              *)
SearchInv ==
  found # {} =>
    /\ <<phase, pos>> \in found
    /\ found \subseteq Class(<<phase, pos>>)
    /\ \A x \in found \ queue, y \in Elements : Matched(x, y) => y \in found

(* The entity that a search is for.                                        *)
LEMMA SeedIsElement ==
  ASSUME TypeOK, phase \in Sides, pos < len[phase]
  PROVE  InputTypeOK /\ <<phase, pos>> \in Elements /\ pos \in 0 .. len[phase] - 1
BY ElementsAreIndices DEF TypeOK, InputTypeOK, Lists, Sides

LEMMA SearchInvStep ==
  ASSUME TypeOK, SearchInv, [Next]_vars
  PROVE  SearchInv'
<1>1. CASE StartSearch
  <2>1. InputTypeOK /\ <<phase, pos>> \in Elements
    BY <1>1, SeedIsElement DEF StartSearch
  <2>2. found' = {<<phase, pos>>} /\ queue' = found' /\ UNCHANGED <<inputs, phase, pos>>
    BY <1>1 DEF StartSearch
  <2>3. <<phase, pos>> \in Class(<<phase, pos>>)
    BY <2>1, ClassIsClosure
  <2>4. Class(<<phase, pos>>)' = Class(<<phase, pos>>)
    BY <2>2, InputsUnchanged
  <2> QED
    BY <2>2, <2>3, <2>4 DEF SearchInv
<1>2. CASE Expand
  <2>1. PICK x \in queue : /\ found' = found \cup NewlyFound(x)
                           /\ queue' = (queue \ {x}) \cup NewlyFound(x)
                           /\ UNCHANGED <<inputs, phase, pos>>
    BY <1>2 DEF Expand
  <2>2. /\ InputTypeOK /\ <<phase, pos>> \in Elements
        /\ x \in found /\ x \in Elements /\ found \subseteq Elements
    BY <2>1, SeedIsElement DEF TypeOK
  <2>3. \A y \in Elements : Matched(x, y) => y \in found'
    BY <2>1, <2>2, MatchedIsAcross DEF NewlyFound, GetMatches
  <2>4. NewlyFound(x) \subseteq Class(<<phase, pos>>)
    <3>1. x \in Class(<<phase, pos>>)
      BY <2>2 DEF SearchInv
    <3> QED
      BY <2>2, <3>1, ClassIsClosure DEF NewlyFound, GetMatches, Closed
  <2>5. Elements' = Elements /\ matches' = matches /\ Class(<<phase, pos>>)' = Class(<<phase, pos>>)
    BY <2>1, InputsUnchanged DEF inputs
  <2> QED
    BY <2>1, <2>2, <2>3, <2>4, <2>5 DEF SearchInv, Matched
<1>3. CASE FinishSearch
  BY <1>3 DEF FinishSearch, SearchInv
<1>4. CASE EndLoop \/ AddStats \/ LinkNodes
  <2>1. found' = found /\ (found = {} \/ phase \notin Sides)
    BY <1>4 DEF EndLoop, AddStats, LinkNodes, Sides
  <2> QED
    BY <2>1 DEF TypeOK, SearchInv
<1>5. CASE UNCHANGED vars
  <2>1. Elements' = Elements /\ matches' = matches /\ Class(<<phase, pos>>)' = Class(<<phase, pos>>)
    BY <1>5, InputsUnchanged DEF vars, inputs
  <2> QED
    BY <1>5, <2>1 DEF vars, SearchInv, Matched
<1> QED
  BY <1>1, <1>2, <1>3, <1>4, <1>5 DEF Next, BuildGraph, Built

(* When its queue is empty, the search has the class and nothing else.     *)
LEMMA SearchedClass ==
  ASSUME TypeOK, SearchInv, found # {}, queue = {}
  PROVE  found = Class(<<phase, pos>>)
<1>1. InputTypeOK /\ <<phase, pos>> \in Elements /\ found \in SUBSET Elements
  BY SeedIsElement DEF TypeOK
<1>2. <<phase, pos>> \in found /\ Closed(found)
  BY DEF SearchInv, Closed
<1> QED
  BY <1>1, <1>2, ClassIsClosure DEF SearchInv

(* _get_matches finds the whole class of an entity, and nothing else.      *)
THEOREM SearchCorrect == Spec => []SearchFindsClass
<1>1. Init => SearchInv
  BY DEF Init, SearchInv
<1>2. TypeOK /\ SearchInv => SearchFindsClass
  BY SearchedClass DEF SearchFindsClass
<1> QED
  BY <1>1, <1>2, TypeCorrect, SearchInvStep, PTL DEF Spec

---------------------------------------------------------------------------
(* The nodes and the index maps.                                           *)

(* Every node is the whole of an unambiguous class with an entity of a     *)
(* side; the index maps and the nodes agree; and the head loop only makes  *)
(* nodes of the head entities that it has been at.                         *)
NodesAreClasses ==
  \A n \in NodeIds :
    \E x \in Elements : /\ x[1] \in Sides
                        /\ Unambiguous(Class(x))
                        /\ Members(node_src_indices[n]) = Class(x)

IndexMapsNodes ==
  \A n \in NodeIds, l \in Sides :
    node_src_indices[n][l] # NONE => idx_to_node[l][node_src_indices[n][l]] = n

IndexFromNodes ==
  \A l \in Sides : \A i \in 0 .. len[l] - 1 :
    idx_to_node[l][i] # NONE => node_src_indices[idx_to_node[l][i]][l] = i

HeadLoopNodes ==
  phase = "head" =>
    \A n \in NodeIds : node_src_indices[n]["head"] \in 0 .. pos - 1

NodesInv == NodesAreClasses /\ IndexMapsNodes /\ IndexFromNodes /\ HeadLoopNodes

(* An entity of a triple is one of its members.                            *)
LEMMA MembersByIndex ==
  ASSUME NEW t, NEW l \in Lists, NEW i \in Int
  PROVE  <<l, i>> \in Members(t) <=> t[l] = i /\ i # NONE
BY DEF Members

(* Nodes that share an entity have the same entities...                    *)
LEMMA OverlapIsClass ==
  ASSUME TypeOK, NodesAreClasses, NEW n \in NodeIds, NEW x \in Elements,
         x \in Members(node_src_indices[n])
  PROVE  Members(node_src_indices[n]) = Class(x) /\ Unambiguous(Class(x))
<1>1. PICK y \in Elements : /\ Unambiguous(Class(y))
                            /\ Members(node_src_indices[n]) = Class(y)
  BY DEF NodesAreClasses
<1> QED
  BY <1>1, SameClass DEF TypeOK

(* ...and are one node, as that class has an entity of a side.             *)
LEMMA NodesDisjoint ==
  ASSUME TypeOK, NodesInv, NEW m \in NodeIds, NEW n \in NodeIds, NEW x \in Elements,
         x \in Members(node_src_indices[m]), x \in Members(node_src_indices[n])
  PROVE  m = n
<1>1. Members(node_src_indices[m]) = Members(node_src_indices[n])
  BY OverlapIsClass DEF NodesInv
<1>2. PICK y \in Elements : y[1] \in Sides /\ Members(node_src_indices[m]) = Class(y)
  BY DEF NodesInv, NodesAreClasses
<1>3. /\ y \in Members(node_src_indices[m]) /\ y \in Members(node_src_indices[n])
      /\ y = <<y[1], y[2]>> /\ y[1] \in Lists /\ y[2] \in Int
  BY <1>1, <1>2, ClassIsClosure, ElementsAreIndices DEF TypeOK
<1>4. node_src_indices[m][y[1]] = y[2] /\ node_src_indices[n][y[1]] = y[2] /\ y[2] # NONE
  BY <1>3, MembersByIndex
<1> QED
  BY <1>2, <1>4 DEF NodesInv, IndexMapsNodes

(* The members of a node are entities.                                     *)
LEMMA MembersAreElements ==
  ASSUME TypeOK, NEW n \in NodeIds
  PROVE  Members(node_src_indices[n]) \subseteq Elements
<1>1. \A l \in Lists : node_src_indices[n][l] \in Indices(l)
  BY NodeType
<1> QED
  BY <1>1, ElementsAreIndices DEF Members, Indices, TypeOK

(* The node that an iteration adds is the class of the loop's entity, and  *)
(* no node has any entity of that class yet: in the head loop because      *)
(* nodes only have earlier head entities, in the update loop because of    *)
(* the test on _update_idx_to_node (graph_builder.py:160-161).             *)
LEMMA NewNode ==
  ASSUME TypeOK, SearchInv, NodesInv, FinishSearch, WantsNode
  PROVE  /\ found = Class(<<phase, pos>>) /\ <<phase, pos>> \in Elements
         /\ found \in SUBSET Elements /\ <<phase, pos>> \in found
         /\ \A n \in NodeIds : Members(node_src_indices[n]) \cap found = {}
<1>1. /\ found = Class(<<phase, pos>>)
      /\ phase \in Sides /\ pos < len[phase]
  BY SearchedClass DEF FinishSearch, TypeOK
<1>2. InputTypeOK /\ <<phase, pos>> \in Elements /\ pos \in 0 .. len[phase] - 1
  BY <1>1, SeedIsElement
<1>3. <<phase, pos>> \in found /\ found \in SUBSET Elements
  BY <1>1, <1>2, ClassIsClosure
<1>4. ASSUME NEW n \in NodeIds, NEW x \in Members(node_src_indices[n]), x \in found
      PROVE  FALSE
  <2>1. <<phase, pos>> \in Members(node_src_indices[n])
    BY <1>1, <1>2, <1>3, <1>4, OverlapIsClass, SameClass DEF NodesInv
  <2>2. node_src_indices[n][phase] = pos /\ pos # NONE
    BY <1>1, <1>2, <2>1, MembersByIndex DEF Sides, Lists
  <2>3. CASE phase = "head"
    BY <1>2, <2>2, <2>3 DEF NodesInv, HeadLoopNodes
  <2>4. CASE phase = "update"
    <3>1. idx_to_node["update"][pos] = n
      BY <2>2, <2>4 DEF NodesInv, IndexMapsNodes, Sides
    <3>2. n # NONE
      BY DEF NodeIds, NONE
    <3> QED
      BY <2>4, <3>1, <3>2 DEF WantsNode
  <2> QED
    BY <1>1, <2>3, <2>4 DEF Sides
<1> QED
  BY <1>1, <1>2, <1>3, <1>4

(* What _push_node leaves behind.                                          *)
LEMMA PushedNode ==
  ASSUME TypeOK, NEW t \in TripleSet, PushNode(t),
         NEW new, new = Len(node_src_indices) + 1
  PROVE  /\ NodeIds' = NodeIds \cup {new} /\ new \notin NodeIds /\ new # NONE
         /\ node_src_indices'[new] = t
         /\ \A n \in NodeIds : node_src_indices'[n] = node_src_indices[n]
         /\ \A l \in Sides : \A i \in 0 .. len[l] - 1 :
              idx_to_node'[l][i] = IF i = t[l] THEN new ELSE idx_to_node[l][i]
<1>1. node_src_indices \in Seq(TripleSet) /\ node_src_indices' = Append(node_src_indices, t)
  BY DEF TypeOK, PushNode
<1>2. /\ Len(node_src_indices') = new /\ Len(node_src_indices) \in Nat
      /\ node_src_indices'[new] = t
      /\ \A n \in 1 .. Len(node_src_indices) : node_src_indices'[n] = node_src_indices[n]
  BY <1>1
<1>3. NodeIds' = NodeIds \cup {new} /\ new \notin NodeIds /\ new # NONE
  BY <1>2 DEF NodeIds, NONE
<1> QED
  BY <1>2, <1>3 DEF PushNode, NodeIds

(* An iteration that finds an unambiguous class adds a node for it.        *)
LEMMA FinishWithNode ==
  ASSUME TypeOK, SearchInv, NodesInv, FinishSearch, WantsNode, Unambiguous(found)
  PROVE  \E t \in TripleSet : /\ PushNode(t) /\ Members(t) = found
                              /\ Triples(found) = {t} /\ choices' = choices
<1>1. InputTypeOK /\ found \in SUBSET Elements
  BY DEF TypeOK
<1>2. PICK t \in Triples(found) : PushNode(t) /\ choices' = choices
  BY DEF FinishSearch, AddMatches
<1>3. t \in TripleSet /\ Members(t) = found /\ Triples(found) = {t}
  BY <1>1, TriplesAreTriples, UnambiguousTriple
<1> QED
  BY <1>2, <1>3

(* Every other step, and every other iteration, leaves the nodes alone.    *)
LEMMA NodesUntouched ==
  ASSUME [Next]_vars, ~(FinishSearch /\ WantsNode /\ Unambiguous(found))
  PROVE  UNCHANGED <<node_src_indices, idx_to_node>> /\ UNCHANGED inputs
BY DEF Next, BuildGraph, Built, vars, StartSearch, Expand, FinishSearch, AddMatches,
       EndLoop, AddStats, LinkNodes

(* A node that is added has no index in common with the nodes there are.   *)
LEMMA NewNodeIndices ==
  ASSUME TypeOK, NEW t \in TripleSet, NEW n \in NodeIds,
         Members(node_src_indices[n]) \cap Members(t) = {}, NEW l \in Lists, t[l] # NONE
  PROVE  node_src_indices[n][l] # t[l]
<1>1. t[l] \in Int
  BY DEF TripleSet, Indices, Lists, TypeOK, InputTypeOK, NONE
<1>2. <<l, t[l]>> \in Members(t)
  BY <1>1, MembersByIndex
<1> QED
  BY <1>1, <1>2, MembersByIndex

LEMMA NodesInvStep ==
  ASSUME TypeOK, SearchInv, NodesInv, [Next]_vars
  PROVE  NodesInv'
<1>1. CASE FinishSearch /\ WantsNode /\ Unambiguous(found)
  <2>1. PICK t \in TripleSet : PushNode(t) /\ Members(t) = found
    BY <1>1, FinishWithNode
  <2>2. /\ found = Class(<<phase, pos>>) /\ <<phase, pos>> \in Elements
        /\ found \in SUBSET Elements /\ <<phase, pos>> \in found
        /\ \A n \in NodeIds : Members(node_src_indices[n]) \cap found = {}
    BY <1>1, NewNode
  <2>3. /\ UNCHANGED <<inputs, phase>> /\ pos' = pos + 1 /\ phase \in Sides
        /\ pos \in 0 .. len[phase] - 1
    BY <1>1, SeedIsElement DEF FinishSearch, TypeOK
  <2> DEFINE new == Len(node_src_indices) + 1
  <2>4. /\ NodeIds' = NodeIds \cup {new} /\ new \notin NodeIds /\ new # NONE
        /\ node_src_indices'[new] = t
        /\ \A n \in NodeIds : node_src_indices'[n] = node_src_indices[n]
        /\ \A l \in Sides : \A i \in 0 .. len[l] - 1 :
             idx_to_node'[l][i] = IF i = t[l] THEN new ELSE idx_to_node[l][i]
    BY <2>1, PushedNode
  <2> HIDE DEF new
  <2>5. \A n \in NodeIds, l \in Sides : t[l] # NONE => node_src_indices[n][l] # t[l]
    BY <2>1, <2>2, NewNodeIndices DEF Sides, Lists
  <2>6. /\ Elements' = Elements /\ len' = len
        /\ \A x : Class(x)' = Class(x) /\ (Unambiguous(Class(x))' <=> Unambiguous(Class(x)))
    BY <2>3, InputsUnchanged DEF inputs
  <2>7. NodesAreClasses'
    <3>1. ASSUME NEW n \in NodeIds'
          PROVE  \E x \in Elements : /\ x[1] \in Sides /\ Unambiguous(Class(x))
                                     /\ Members(node_src_indices'[n]) = Class(x)
      <4>1. CASE n \in NodeIds
        BY <2>4, <4>1 DEF NodesInv, NodesAreClasses
      <4>2. CASE n = new
        <5>1. <<phase, pos>>[1] \in Sides
          BY <2>3
        <5> QED
          BY <1>1, <2>1, <2>2, <2>4, <4>2, <5>1
      <4> QED
        BY <2>4, <4>1, <4>2
    <3>2. \A n \in NodeIds' : Members(node_src_indices[n])' = Members(node_src_indices'[n])
      BY DEF Members
    <3> QED
      BY <2>6, <3>1, <3>2 DEF NodesAreClasses
  <2>8. IndexMapsNodes'
    <3> SUFFICES ASSUME NEW n \in NodeIds', NEW l \in Sides, node_src_indices'[n][l] # NONE
                 PROVE  idx_to_node'[l][node_src_indices'[n][l]] = n
      BY DEF IndexMapsNodes
    <3>1. CASE n \in NodeIds
      <4>1. node_src_indices'[n][l] = node_src_indices[n][l] /\ l \in Lists
        BY <2>4, <3>1 DEF Sides, Lists
      <4>2. node_src_indices[n][l] \in 0 .. len[l] - 1
        BY <3>1, <4>1, NodeType DEF Indices
      <4> QED
        BY <2>4, <2>5, <3>1, <4>1, <4>2 DEF NodesInv, IndexMapsNodes
    <3>2. CASE n = new
      <4>1. t[l] \in 0 .. len[l] - 1
        BY <2>4, <3>2 DEF TripleSet, Indices, Sides
      <4> QED
        BY <2>4, <3>2, <4>1
    <3> QED
      BY <2>4, <3>1, <3>2
  <2>9. IndexFromNodes'
    <3> SUFFICES ASSUME NEW l \in Sides, NEW i \in 0 .. len[l] - 1, idx_to_node'[l][i] # NONE
                 PROVE  node_src_indices'[idx_to_node'[l][i]][l] = i
      BY <2>6 DEF IndexFromNodes
    <3>1. CASE i = t[l]
      BY <2>4, <3>1
    <3>2. CASE i # t[l]
      <4>1. idx_to_node'[l][i] = idx_to_node[l][i] /\ idx_to_node[l][i] \in NodeIds
        <5>1. idx_to_node'[l][i] = idx_to_node[l][i]
          BY <2>4, <3>2
        <5>2. idx_to_node[l][i] \in NodeIds \cup {NONE}
          BY DEF TypeOK
        <5> QED
          BY <5>1, <5>2
      <4> QED
        BY <2>4, <4>1 DEF NodesInv, IndexFromNodes
    <3> QED
      BY <3>1, <3>2
  <2>10. HeadLoopNodes'
    <3> SUFFICES ASSUME phase = "head", NEW n \in NodeIds'
                 PROVE  node_src_indices'[n]["head"] \in 0 .. pos
      BY <2>3 DEF HeadLoopNodes
    <3>1. CASE n \in NodeIds
      BY <2>3, <2>4, <3>1 DEF NodesInv, HeadLoopNodes
    <3>2. CASE n = new
      <4>1. t["head"] = pos
        BY <2>1, <2>2, <2>3, MembersByIndex DEF Lists
      <4> QED
        BY <2>3, <2>4, <3>2, <4>1
    <3> QED
      BY <2>4, <3>1, <3>2
  <2> QED
    BY <2>7, <2>8, <2>9, <2>10 DEF NodesInv
<1>2. CASE ~(FinishSearch /\ WantsNode /\ Unambiguous(found))
  <2>1. UNCHANGED <<node_src_indices, idx_to_node, inputs>>
    BY <1>2, NodesUntouched
  <2>2. /\ Elements' = Elements /\ len' = len /\ NodeIds' = NodeIds
        /\ \A x : Class(x)' = Class(x) /\ (Unambiguous(Class(x))' <=> Unambiguous(Class(x)))
    BY <2>1, InputsUnchanged DEF inputs, NodeIds
  <2>3. NodesAreClasses'
    <3>1. \A n \in NodeIds : Members(node_src_indices[n])' = Members(node_src_indices[n])
      BY <2>1 DEF Members
    <3> QED
      BY <2>2, <3>1 DEF NodesInv, NodesAreClasses
  <2>4. IndexMapsNodes' /\ IndexFromNodes'
    BY <2>1, <2>2 DEF NodesInv, IndexMapsNodes, IndexFromNodes
  <2>5. HeadLoopNodes'
    <3>1. phase' = "head" => phase = "head" /\ (pos' = pos \/ pos' = pos + 1)
      BY DEF Next, BuildGraph, Built, vars, StartSearch, Expand, FinishSearch, EndLoop,
             AddStats, LinkNodes
    <3> QED
      BY <2>1, <2>2, <3>1 DEF NodesInv, HeadLoopNodes, TypeOK
  <2> QED
    BY <2>3, <2>4, <2>5 DEF NodesInv
<1> QED
  BY <1>1, <1>2

BuilderInv == TypeOK /\ SearchInv /\ NodesInv

(* The invariants that the properties of the nodes follow from.            *)
LEMMA BuilderInvariant == Spec => []BuilderInv
<1>1. Init => SearchInv /\ NodesInv
  BY DEF Init, SearchInv, NodesInv, NodesAreClasses, IndexMapsNodes, IndexFromNodes,
         HeadLoopNodes, NodeIds
<1>2. TypeOK /\ SearchInv /\ NodesInv /\ [Next]_vars => SearchInv' /\ NodesInv'
  BY SearchInvStep, NodesInvStep
<1> QED
  BY <1>1, <1>2, TypeCorrect, PTL DEF Spec, BuilderInv

(* No two nodes have an entity in common, root entities included: merging  *)
(* the nodes merges no entity twice.                                       *)
THEOREM NodesDontOverlap == Spec => []OneNodePerEntity
<1>1. BuilderInv => OneNodePerEntity
  <2> SUFFICES ASSUME BuilderInv, NEW m \in NodeIds, NEW n \in NodeIds,
                      NEW x, x \in Members(node_src_indices[m]),
                      x \in Members(node_src_indices[n])
               PROVE  m = n
    BY DEF OneNodePerEntity
  <2> QED
    BY NodesDisjoint, MembersAreElements DEF BuilderInv
<1> QED
  BY <1>1, BuilderInvariant, PTL

(* No step changes the node of an index that has one: what the head loop   *)
(* recorded for an update entity survives the update loop.                 *)
THEOREM IndexStable == Spec => IndexNeverRepointed
<1>1. ASSUME BuilderInv, [Next]_vars, NEW l \in Sides, NEW i \in 0 .. len[l] - 1,
             idx_to_node[l][i] # NONE
      PROVE  idx_to_node'[l][i] = idx_to_node[l][i]
  <2>1. CASE FinishSearch /\ WantsNode /\ Unambiguous(found)
    <3>1. PICK t \in TripleSet : PushNode(t) /\ Members(t) = found
      BY <1>1, <2>1, FinishWithNode DEF BuilderInv
    <3> DEFINE n == idx_to_node[l][i]
    <3>2. n \in NodeIds /\ node_src_indices[n][l] = i
      <4>1. n \in NodeIds \cup {NONE}
        BY <1>1 DEF BuilderInv, TypeOK
      <4> QED
        BY <1>1, <4>1 DEF BuilderInv, NodesInv, IndexFromNodes
    <3>3. Members(node_src_indices[n]) \cap Members(t) = {}
      BY <1>1, <2>1, <3>1, <3>2, NewNode DEF BuilderInv
    <3>4. i # t[l]
      <4> SUFFICES ASSUME i = t[l] PROVE FALSE
        OBVIOUS
      <4>1. t[l] # NONE /\ l \in Lists
        BY <1>1 DEF NONE, Sides, Lists
      <4> QED
        BY <1>1, <3>2, <3>3, <4>1, NewNodeIndices DEF BuilderInv
    <3> QED
      BY <1>1, <3>1, <3>4, PushedNode DEF BuilderInv
  <2>2. CASE ~(FinishSearch /\ WantsNode /\ Unambiguous(found))
    BY <1>1, <2>2, NodesUntouched
  <2> QED
    BY <2>1, <2>2
<1>2. BuilderInv /\ [Next]_vars =>
        [\A l \in Sides : \A i \in 0 .. len[l] - 1 :
           idx_to_node[l][i] # NONE => idx_to_node'[l][i] = idx_to_node[l][i]]_vars
  BY <1>1
<1> QED
  BY <1>2, BuilderInvariant, PTL DEF Spec, IndexNeverRepointed

---------------------------------------------------------------------------
(* Choices, and what is lost.                                              *)

(* A choice is made of entities of an ambiguous class.                     *)
ChoicesInv ==
  \A t \in choices :
    \E x \in Elements : ~Unambiguous(Class(x)) /\ Members(t) \subseteq Class(x)

LEMMA ChoicesInvStep ==
  ASSUME BuilderInv, ChoicesInv, [Next]_vars
  PROVE  ChoicesInv'
<1> USE DEF BuilderInv
<1>1. CASE FinishSearch /\ WantsNode /\ ~Unambiguous(found)
  <2>1. /\ found = Class(<<phase, pos>>) /\ <<phase, pos>> \in Elements
        /\ InputTypeOK /\ found \in SUBSET Elements
    BY <1>1, NewNode DEF TypeOK
  <2>2. choices' = choices \cup Triples(found) /\ UNCHANGED inputs
    BY <1>1 DEF FinishSearch, AddMatches
  <2>3. \A t \in Triples(found) : Members(t) \subseteq Class(<<phase, pos>>)
    BY <2>1, TripleMembers
  <2>4. \A t \in choices' :
          \E x \in Elements : ~Unambiguous(Class(x)) /\ Members(t) \subseteq Class(x)
    BY <1>1, <2>1, <2>2, <2>3 DEF ChoicesInv
  <2> QED
    BY <2>2, <2>4, InputsUnchanged DEF ChoicesInv, Members
<1>2. CASE ~(FinishSearch /\ WantsNode /\ ~Unambiguous(found))
  <2>1. choices' = choices /\ UNCHANGED inputs
    BY <1>2 DEF Next, BuildGraph, Built, vars, StartSearch, Expand, FinishSearch, AddMatches,
                EndLoop, AddStats, LinkNodes
  <2> QED
    BY <2>1, InputsUnchanged DEF ChoicesInv, Members
<1> QED
  BY <1>1, <1>2

(* What is put to the user as a choice is not merged as well.              *)
THEOREM ChoicesApart == Spec => []ChoicesNotMerged
<1>1. Init => ChoicesInv
  BY DEF Init, ChoicesInv
<1>2. BuilderInv /\ ChoicesInv => ChoicesNotMerged
  <2> SUFFICES ASSUME BuilderInv, ChoicesInv, NEW t \in choices, NEW n \in NodeIds,
                      NEW x, x \in Members(t), x \in Members(node_src_indices[n])
               PROVE  FALSE
    BY DEF ChoicesNotMerged
  <2>1. PICK y \in Elements : ~Unambiguous(Class(y)) /\ x \in Class(y)
    BY DEF ChoicesInv
  <2>2. x \in Elements
    BY MembersAreElements DEF BuilderInv
  <2>3. Unambiguous(Class(x))
    BY <2>2, OverlapIsClass DEF BuilderInv, NodesInv
  <2> QED
    BY <2>1, <2>3, SameClass DEF BuilderInv, TypeOK
<1>3. BuilderInv /\ ChoicesInv /\ [Next]_vars => ChoicesInv'
  BY ChoicesInvStep
<1> QED
  BY <1>1, <1>2, <1>3, BuilderInvariant, PTL DEF Spec

(* The entities that the loops have been at.                               *)
Handled(l, i) ==
  \/ phase \notin Sides
  \/ l = phase /\ i < pos
  \/ l = "head" /\ phase = "update"

HandledInv ==
  \A l \in sources : \A i \in 0 .. len[l] - 1 : Handled(l, i) => Accounted(<<l, i>>)

(* What a step handles is the entity of the iteration that it ends.        *)
LEMMA NewlyHandled ==
  ASSUME TypeOK, [Next]_vars, NEW l \in Sides, NEW i \in 0 .. len[l] - 1,
         Handled(l, i)', ~Handled(l, i)
  PROVE  FinishSearch /\ l = phase /\ i = pos
<1>1. CASE FinishSearch
  <2>1. phase' = phase /\ pos' = pos + 1 /\ phase \in Sides
    BY <1>1 DEF FinishSearch, TypeOK
  <2> QED
    BY <1>1, <2>1 DEF Handled, TypeOK
<1>2. CASE EndLoop
  BY <1>2 DEF EndLoop, Handled, TypeOK, InputTypeOK, Sides, Lists
<1>3. CASE AddStats \/ LinkNodes
  BY <1>3 DEF AddStats, LinkNodes, Handled, Sides
<1>4. CASE StartSearch \/ Expand \/ UNCHANGED vars
  BY <1>4 DEF StartSearch, Expand, vars, Handled
<1> QED
  BY <1>1, <1>2, <1>3, <1>4 DEF Next, BuildGraph, Built

(* What is accounted for stays so.                                         *)
LEMMA AccountedStays ==
  ASSUME BuilderInv, [Next]_vars, NEW x, Accounted(x)
  PROVE  Accounted(x)'
<1> USE DEF BuilderInv
<1>1. choices \subseteq choices'
  BY DEF Next, BuildGraph, Built, vars, StartSearch, Expand, FinishSearch, AddMatches,
         EndLoop, AddStats, LinkNodes
<1>2. \A n \in NodeIds : n \in NodeIds' /\ node_src_indices'[n] = node_src_indices[n]
  <2>1. CASE FinishSearch /\ WantsNode /\ Unambiguous(found)
    BY <2>1, FinishWithNode, PushedNode
  <2>2. CASE ~(FinishSearch /\ WantsNode /\ Unambiguous(found))
    BY <2>2, NodesUntouched DEF NodeIds
  <2> QED
    BY <2>1, <2>2
<1> QED
  BY <1>1, <1>2 DEF Accounted, Members

(* An iteration accounts for its entity, if its list is kept: by a node,   *)
(* by the choices, or by the node that the test on _update_idx_to_node saw.*)
LEMMA IterationAccounts ==
  ASSUME BuilderInv, FinishSearch, phase \in sources, NEW x, x = <<phase, pos>>
  PROVE  Accounted(x)'
<1> USE DEF BuilderInv
<1>1. phase \in Sides /\ pos < len[phase]
  BY DEF FinishSearch, TypeOK
<1>2. InputTypeOK /\ x \in Elements /\ pos \in 0 .. len[phase] - 1
  BY <1>1, SeedIsElement
<1>3. CASE WantsNode /\ Unambiguous(found)
  <2>1. PICK t \in TripleSet : PushNode(t) /\ Members(t) = found
    BY <1>3, FinishWithNode
  <2>2. /\ Len(node_src_indices) + 1 \in NodeIds'
        /\ node_src_indices'[Len(node_src_indices) + 1] = t
    BY <2>1, PushedNode
  <2>3. x \in Members(t)
    BY <1>3, <2>1, NewNode
  <2> QED
    BY <2>2, <2>3 DEF Accounted, Members
<1>4. CASE WantsNode /\ ~Unambiguous(found)
  <2>1. choices' = choices \cup Triples(found)
    BY <1>4 DEF FinishSearch, AddMatches
  <2>2. \E t \in Triples(found) : x \in Members(t)
    BY <1>2, <1>4, NewNode, TriplesCover
  <2> QED
    BY <2>1, <2>2 DEF Accounted, Members
<1>5. CASE ~WantsNode
  <2>1. phase = "update" /\ idx_to_node["update"][pos] # NONE
    BY <1>5 DEF WantsNode
  <2> DEFINE n == idx_to_node["update"][pos]
  <2>2. n \in NodeIds /\ node_src_indices[n]["update"] = pos
    <3>1. n \in NodeIds \cup {NONE}
      BY <1>2, <2>1 DEF TypeOK, Sides
    <3> QED
      BY <1>2, <2>1, <3>1 DEF NodesInv, IndexFromNodes, Sides
  <2>3. x \in Members(node_src_indices[n])
    BY <1>2, <2>1, <2>2, MembersByIndex DEF Lists, NONE
  <2>4. Accounted(x)
    BY <2>2, <2>3 DEF Accounted
  <2> QED
    BY <2>4, AccountedStays DEF Next, BuildGraph
<1> QED
  BY <1>3, <1>4, <1>5

(* Every entity of a kept list ends up in a node or in a choice.           *)
THEOREM NoneLost == Spec => []NothingLost
<1>1. Init => HandledInv
  <2> SUFFICES ASSUME Init, NEW l \in sources, NEW i \in 0 .. len[l] - 1, Handled(l, i)
               PROVE  FALSE
    BY DEF HandledInv
  <2> QED
    BY DEF Init, Handled, Sides
<1>2. BuilderInv /\ HandledInv /\ [Next]_vars => HandledInv'
  <2> SUFFICES ASSUME BuilderInv, HandledInv, [Next]_vars PROVE HandledInv'
    OBVIOUS
  <2> UNCHANGED inputs
    BY DEF Next, BuildGraph, Built, vars, StartSearch, Expand, FinishSearch, EndLoop,
           AddStats, LinkNodes
  <2> SUFFICES ASSUME NEW l \in sources, NEW i \in 0 .. len[l] - 1, Handled(l, i)'
               PROVE  Accounted(<<l, i>>)'
    BY DEF HandledInv, inputs
  <2>1. l \in Sides
    BY DEF BuilderInv, TypeOK, InputTypeOK, SourceSets, Sides
  <2>2. CASE Handled(l, i)
    BY <2>2, AccountedStays DEF HandledInv
  <2>3. CASE ~Handled(l, i)
    <3>1. FinishSearch /\ l = phase /\ i = pos
      BY <2>1, <2>3, NewlyHandled DEF BuilderInv
    <3> QED
      BY <3>1, IterationAccounts
  <2> QED
    BY <2>2, <2>3
<1>3. HandledInv => NothingLost
  BY DEF HandledInv, Handled, NothingLost, Sides
<1> QED
  BY <1>1, <1>2, <1>3, BuilderInvariant, PTL DEF Spec

---------------------------------------------------------------------------
(* The stats.                                                              *)

(* What the operations of ListMatchStats do to each attribute.             *)
LEMMA NewStatsEffect ==
  ASSUME NEW n
  PROVE  /\ \A i \in 0 .. n - 1 : NewStats(n).root_matches[i] = NONE
         /\ NewStats(n).in_result_idx = {}
         /\ NewStats(n).not_in_result_root_match_idx = {}
<1> DEFINE none == [i \in 0 .. n - 1 |-> -1]
<1>1. \A i \in 0 .. n - 1 : none[i] = NONE
  BY DEF NONE
<1> HIDE DEF none
<1>2. NewStats(n) = [lst |-> 0 .. n - 1, in_result_idx |-> {},
                     not_in_result_root_match_idx |-> {}, root_matches |-> none]
  BY DEF NewStats, none
<1> QED
  BY <1>1, <1>2

LEMMA AddRootMatchEffect ==
  ASSUME InputTypeOK, NEW l \in Lists, NEW st \in StatsOf(l),
         NEW i \in 0 .. len[l] - 1, NEW r \in Indices("root")
  PROVE  /\ AddRootMatch(st, i, r).in_result_idx = st.in_result_idx
         /\ AddRootMatch(st, i, r).lst = st.lst
         /\ AddRootMatch(st, i, r).root_matches = [st.root_matches EXCEPT ![i] = r]
         /\ AddRootMatch(st, i, r).not_in_result_root_match_idx
              = IF i \in st.in_result_idx THEN st.not_in_result_root_match_idx
                ELSE st.not_in_result_root_match_idx \cup {i}
<1>1. DOMAIN st = {"lst", "in_result_idx", "not_in_result_root_match_idx", "root_matches"}
  BY DEF StatsOf
<1> QED
  BY <1>1 DEF AddRootMatch

LEMMA MoveToResultEffect ==
  ASSUME InputTypeOK, NEW l \in Lists, NEW st \in StatsOf(l), NEW S
  PROVE  /\ MoveToResult(st, S).in_result_idx = st.in_result_idx \cup S
         /\ MoveToResult(st, S).lst = st.lst
         /\ MoveToResult(st, S).root_matches = st.root_matches
         /\ MoveToResult(st, S).not_in_result_root_match_idx
              = st.not_in_result_root_match_idx \ S
<1>1. DOMAIN st = {"lst", "in_result_idx", "not_in_result_root_match_idx", "root_matches"}
  BY DEF StatsOf
<1> QED
  BY <1>1 DEF MoveToResult

(* The one root entity of a class, if it has one and no other.             *)
OneRoot(S) == \E r \in Hits(S, "root") : Hits(S, "root") = {r}

(* The root match recorded for an entity is the root of its class.         *)
RootMatchesInv ==
  \A l \in Sides : \A i \in 0 .. len[l] - 1 :
    IF Handled(l, i) /\ OneRoot(Class(<<l, i>>))
      THEN Hits(Class(<<l, i>>), "root") = {stats[l].root_matches[i]}
      ELSE stats[l].root_matches[i] = NONE

(* What is listed as root match is what has one and is not in the result;  *)
(* what is in the result is what the nodes have.                           *)
ListedInv ==
  \A l \in Sides :
    /\ stats[l].lst = 0 .. len[l] - 1
    /\ stats[l].not_in_result_root_match_idx
         = {i \in stats[l].lst : stats[l].root_matches[i] # NONE} \ stats[l].in_result_idx
    /\ phase \in {"link", "built"} => stats[l].in_result_idx = InNodes(l)
    /\ phase \notin {"link", "built"} => stats[l].in_result_idx = {}

StatsInv == RootMatchesInv /\ ListedInv

(* An iteration records the root of its class for its entity, and nothing  *)
(* for any other.                                                          *)
LEMMA IterationStats ==
  ASSUME BuilderInv, FinishSearch
  PROVE  LET st == stats[phase] IN
         /\ phase \in Sides /\ pos \in 0 .. len[phase] - 1
         /\ DOMAIN stats' = Sides
         /\ \A l \in Sides : l # phase => stats'[l] = stats[l]
         /\ stats'[phase].in_result_idx = st.in_result_idx
         /\ stats'[phase].lst = st.lst
         /\ \A i \in 0 .. len[phase] - 1 :
              i # pos => stats'[phase].root_matches[i] = st.root_matches[i]
         /\ IF OneRoot(Class(<<phase, pos>>))
              THEN /\ Hits(Class(<<phase, pos>>), "root") = {stats'[phase].root_matches[pos]}
                   /\ stats'[phase].root_matches[pos] # NONE
                   /\ stats'[phase].not_in_result_root_match_idx
                        = IF pos \in st.in_result_idx THEN st.not_in_result_root_match_idx
                          ELSE st.not_in_result_root_match_idx \cup {pos}
              ELSE stats' = stats
<1> USE DEF BuilderInv
<1>1. /\ phase \in Sides /\ pos \in 0 .. len[phase] - 1 /\ InputTypeOK
      /\ found = Class(<<phase, pos>>)
      /\ DOMAIN stats = Sides /\ stats[phase] \in StatsOf(phase) /\ phase \in Lists
  BY SearchedClass, SeedIsElement DEF FinishSearch, TypeOK, Sides, Lists
<1>2. CASE OneRoot(found)
  <2> DEFINE r0 == CHOOSE r \in Hits(found, "root") : TRUE
             new == AddRootMatch(stats[phase], pos, r0)
  <2>1. stats' = [stats EXCEPT ![phase] = new]
    BY <1>2 DEF FinishSearch, OneRoot
  <2>2. Hits(found, "root") = {r0} /\ r0 \in Indices("root") /\ r0 # NONE
    <3>1. PICK r \in Hits(found, "root") : Hits(found, "root") = {r}
      BY <1>2 DEF OneRoot
    <3>2. r0 = r
      BY <3>1
    <3>3. r \in 0 .. len["root"] - 1 /\ len["root"] \in Nat
      BY <1>1 DEF Hits, InputTypeOK, Lists
    <3> QED
      BY <3>1, <3>2, <3>3 DEF Indices, NONE
  <2> HIDE DEF r0
  <2>3. /\ new.in_result_idx = stats[phase].in_result_idx /\ new.lst = stats[phase].lst
        /\ new.root_matches = [stats[phase].root_matches EXCEPT ![pos] = r0]
        /\ new.not_in_result_root_match_idx
             = IF pos \in stats[phase].in_result_idx
                 THEN stats[phase].not_in_result_root_match_idx
                 ELSE stats[phase].not_in_result_root_match_idx \cup {pos}
    BY <1>1, <2>2, AddRootMatchEffect
  <2>4. DOMAIN stats[phase].root_matches = 0 .. len[phase] - 1
    BY <1>1 DEF StatsOf
  <2> HIDE DEF new
  <2>5. stats'[phase] = new /\ \A l \in Sides : l # phase => stats'[l] = stats[l]
    BY <1>1, <2>1
  <2> QED
    BY <1>1, <1>2, <2>1, <2>2, <2>3, <2>4, <2>5
<1>3. CASE ~OneRoot(found)
  BY <1>1, <1>3 DEF FinishSearch, OneRoot
<1> QED
  BY <1>2, <1>3

(* Only the end of an iteration handles an entity, and none is forgotten.  *)
LEMMA HandledStays ==
  ASSUME TypeOK, [Next]_vars, NEW l \in Sides, NEW i \in 0 .. len[l] - 1,
         ~(FinishSearch /\ l = phase /\ i = pos)
  PROVE  Handled(l, i)' <=> Handled(l, i)
<1>1. Handled(l, i) => Handled(l, i)'
  BY DEF Handled, Next, BuildGraph, Built, vars, StartSearch, Expand, FinishSearch, EndLoop,
         AddStats, LinkNodes, TypeOK, InputTypeOK, Sides, Lists
<1> QED
  BY <1>1, NewlyHandled

LEMMA StatsInvStep ==
  ASSUME BuilderInv, StatsInv, [Next]_vars
  PROVE  StatsInv'
<1> USE DEF BuilderInv, StatsInv
<1>1. UNCHANGED inputs
  BY DEF Next, BuildGraph, Built, vars, StartSearch, Expand, FinishSearch, EndLoop,
         AddStats, LinkNodes
<1>2. len' = len /\ \A x : OneRoot(Class(x))' <=> OneRoot(Class(x))
  BY <1>1, InputsUnchanged DEF OneRoot, inputs
<1>3. \A x : Hits(Class(x), "root")' = Hits(Class(x), "root")
  BY <1>1, InputsUnchanged
<1>4. CASE FinishSearch
  <2>1. phase' = phase /\ phase \in Sides
    BY <1>4, IterationStats DEF FinishSearch
  <2>2. ASSUME NEW l \in Sides, NEW i \in 0 .. len[l] - 1
        PROVE  IF Handled(l, i)' /\ OneRoot(Class(<<l, i>>))
                 THEN Hits(Class(<<l, i>>), "root") = {stats'[l].root_matches[i]}
                 ELSE stats'[l].root_matches[i] = NONE
    <3>1. CASE l = phase /\ i = pos
      <4>1. Handled(l, i)' /\ ~Handled(l, i)
        BY <1>4, <2>1, <3>1 DEF FinishSearch, Handled, TypeOK, Sides
      <4>2. stats[l].root_matches[i] = NONE
        BY <4>1 DEF RootMatchesInv
      <4> QED
        BY <1>4, <3>1, <4>1, <4>2, IterationStats
    <3>2. CASE ~(l = phase /\ i = pos)
      <4>1. stats'[l].root_matches[i] = stats[l].root_matches[i]
        BY <1>4, <3>2, IterationStats
      <4>2. Handled(l, i)' <=> Handled(l, i)
        BY <3>2, HandledStays
      <4> QED
        BY <4>1, <4>2 DEF RootMatchesInv
    <3> QED
      BY <3>1, <3>2
  <2>3. ASSUME NEW l \in Sides
        PROVE  /\ stats'[l].in_result_idx = {}
               /\ stats'[l].lst = 0 .. len[l] - 1
               /\ stats'[l].not_in_result_root_match_idx
                    = {i \in 0 .. len[l] - 1 : stats'[l].root_matches[i] # NONE}
    <3>1. /\ stats[l].in_result_idx = {}
          /\ stats[l].lst = 0 .. len[l] - 1
          /\ stats[l].not_in_result_root_match_idx
               = {i \in 0 .. len[l] - 1 : stats[l].root_matches[i] # NONE}
      BY <2>1 DEF ListedInv, Sides
    <3>2. CASE l # phase
      BY <1>4, <3>1, <3>2, IterationStats
    <3>3. CASE l = phase /\ OneRoot(Class(<<phase, pos>>))
      BY <1>4, <3>1, <3>3, IterationStats
    <3>4. CASE l = phase /\ ~OneRoot(Class(<<phase, pos>>))
      BY <1>4, <3>1, <3>4, IterationStats
    <3> QED
      BY <3>2, <3>3, <3>4
  <2>4. RootMatchesInv'
    BY <1>2, <1>3, <2>2 DEF RootMatchesInv
  <2>5. ListedInv'
    BY <1>2, <2>1, <2>3 DEF ListedInv, Sides
  <2> QED
    BY <2>4, <2>5
<1>5. CASE AddStats
  <2>1. ASSUME NEW l \in Sides
        PROVE  /\ stats'[l].in_result_idx = stats[l].in_result_idx \cup InNodes(l)
               /\ stats'[l].root_matches = stats[l].root_matches
               /\ stats'[l].lst = stats[l].lst
               /\ stats'[l].not_in_result_root_match_idx
                    = stats[l].not_in_result_root_match_idx \ InNodes(l)
    <3>1. stats'[l] = MoveToResult(stats[l], InNodes(l))
      BY <1>5 DEF AddStats
    <3> QED
      BY <3>1, MoveToResultEffect DEF TypeOK, Sides, Lists
  <2>2. \A l \in Sides : InNodes(l)' = InNodes(l)
    BY <1>5 DEF AddStats, InNodes, NodeIds
  <2>3. phase = "stats" /\ phase' = "link"
    BY <1>5 DEF AddStats
  <2>4. ListedInv'
    BY <1>2, <2>1, <2>2, <2>3 DEF ListedInv
  <2>5. \A l \in Sides : \A i \in 0 .. len[l] - 1 : Handled(l, i)' <=> Handled(l, i)
    BY <2>3 DEF Handled, Sides
  <2>6. RootMatchesInv'
    BY <1>2, <1>3, <2>1, <2>5 DEF RootMatchesInv
  <2> QED
    BY <2>4, <2>6
<1>6. CASE ~FinishSearch /\ ~AddStats
  <2>1. /\ stats' = stats /\ NodeIds' = NodeIds /\ node_src_indices' = node_src_indices
        /\ phase \in {"link", "built"} <=> phase' \in {"link", "built"}
    BY <1>6 DEF Next, BuildGraph, Built, vars, StartSearch, Expand, EndLoop, LinkNodes,
                NodeIds, Sides
  <2>2. \A l \in Sides : \A i \in 0 .. len[l] - 1 : Handled(l, i)' <=> Handled(l, i)
    BY <1>6, HandledStays
  <2>3. \A l \in Sides : InNodes(l)' = InNodes(l)
    BY <2>1 DEF InNodes
  <2>4. ListedInv'
    BY <1>2, <2>1, <2>3 DEF ListedInv
  <2>5. RootMatchesInv'
    BY <1>2, <1>3, <2>1, <2>2 DEF RootMatchesInv
  <2> QED
    BY <2>4, <2>5
<1> QED
  BY <1>4, <1>5, <1>6

LEMMA StatsInvariant == Spec => [](BuilderInv /\ StatsInv)
<1>1. Init => StatsInv
  <2> SUFFICES ASSUME Init PROVE StatsInv
    OBVIOUS
  <2>1. /\ \A l \in Sides : stats[l] = NewStats(len[l])
        /\ phase = "head" /\ pos = 0
    BY DEF Init
  <2>2. \A l \in Sides : \A i \in 0 .. len[l] - 1 : ~Handled(l, i)
    BY <2>1 DEF Handled, Sides
  <2>3. ASSUME NEW l \in Sides
        PROVE  /\ \A i \in 0 .. len[l] - 1 : stats[l].root_matches[i] = NONE
               /\ stats[l].in_result_idx = {}
               /\ stats[l].not_in_result_root_match_idx = {}
               /\ stats[l].lst = 0 .. len[l] - 1
    <3>1. stats[l] = NewStats(len[l])
      BY <2>1
    <3>2. NewStats(len[l]).lst = 0 .. len[l] - 1
      BY DEF NewStats
    <3> QED
      BY <3>1, <3>2, NewStatsEffect
  <2>4. RootMatchesInv
    BY <2>2, <2>3 DEF RootMatchesInv
  <2>5. ListedInv
    BY <2>1, <2>3 DEF ListedInv
  <2> QED
    BY <2>4, <2>5 DEF StatsInv
<1>2. BuilderInv /\ StatsInv /\ [Next]_vars => StatsInv'
  BY StatsInvStep
<1> QED
  BY <1>1, <1>2, BuilderInvariant, PTL DEF Spec

(* When build_graph returns, the stats say of every entity what the nodes  *)
(* say: whether it is in the result, and with which root entity.           *)
THEOREM StatsCorrect == Spec => []StatsAgree
<1>1. BuilderInv /\ StatsInv => StatsAgree
  <2> SUFFICES ASSUME BuilderInv, StatsInv, phase = "built", NEW l \in Sides
               PROVE  /\ stats[l].in_result_idx = InNodes(l)
                      /\ stats[l].in_result_idx
                           \cap stats[l].not_in_result_root_match_idx = {}
                      /\ \A n \in NodeIds :
                           node_src_indices[n][l] # NONE =>
                             stats[l].root_matches[node_src_indices[n][l]]
                               = node_src_indices[n].root
                      /\ \A i \in stats[l].not_in_result_root_match_idx :
                           stats[l].root_matches[i] # NONE
    BY DEF StatsAgree
  <2> USE DEF BuilderInv, StatsInv
  <2>1. ASSUME NEW n \in NodeIds, node_src_indices[n][l] # NONE
        PROVE  stats[l].root_matches[node_src_indices[n][l]] = node_src_indices[n].root
    <3> DEFINE t == node_src_indices[n]
               i == t[l]
    <3>1. /\ l \in Lists /\ i \in 0 .. len[l] - 1 /\ InputTypeOK
          /\ t.root \in Indices("root") /\ len["root"] \in Nat
      BY <2>1, NodeType DEF Sides, Lists, Indices, TypeOK, InputTypeOK
    <3>2. Members(t) = Class(<<l, i>>)
      BY <2>1, <3>1, MembersByIndex, MembersAreElements, OverlapIsClass DEF NodesInv
    <3>3. Handled(l, i)
      BY DEF Handled, Sides
    <3> HIDE DEF i, t
    <3>4. ASSUME NEW r \in 0 .. len["root"] - 1
          PROVE  <<"root", r>> \in Members(t) <=> t.root = r
      <4>1. "root" \in Lists /\ r \in Int /\ r # NONE
        BY <3>1 DEF Lists, NONE
      <4> QED
        BY <4>1, MembersByIndex
    <3>5. CASE t.root = NONE
      <4>1. Hits(Class(<<l, i>>), "root") = {}
        BY <3>1, <3>2, <3>4, <3>5 DEF Hits, NONE
      <4> QED
        BY <3>1, <3>3, <3>5, <4>1 DEF RootMatchesInv, OneRoot, t, i
    <3>6. CASE t.root # NONE
      <4>1. Hits(Class(<<l, i>>), "root") = {t.root}
        BY <3>1, <3>2, <3>4, <3>6 DEF Hits, Indices
      <4> QED
        BY <3>1, <3>3, <4>1 DEF RootMatchesInv, OneRoot, t, i
    <3> QED
      BY <3>5, <3>6
  <2>2. /\ stats[l].in_result_idx = InNodes(l)
        /\ stats[l].not_in_result_root_match_idx
             = {i \in stats[l].lst : stats[l].root_matches[i] # NONE} \ InNodes(l)
    BY DEF ListedInv
  <2> QED
    BY <2>1, <2>2
<1> QED
  BY <1>1, StatsInvariant, PTL

---------------------------------------------------------------------------
(* The builder implements EntityClasses.                                   *)

(* A triple that stands for a set of entities is one of its triples.       *)
LEMMA TripleOfMembers ==
  ASSUME InputTypeOK, NEW S \in SUBSET Elements, NEW t \in TripleSet, Members(t) = S
  PROVE  t \in Triples(S)
<1>1. ASSUME NEW l \in Lists PROVE t[l] \in Candidates(S, l)
  <2>1. t[l] \in Indices(l) /\ t[l] \in Int
    BY <1>1 DEF TripleSet, Indices, Lists, InputTypeOK, NONE
  <2>2. CASE t[l] = NONE
    <3>1. ASSUME NEW i \in Hits(S, l) PROVE FALSE
      <4>1. i \in Int /\ <<l, i>> \in Members(t) /\ i # NONE
        BY <3>1 DEF Hits, NONE
      <4> QED
        BY <1>1, <2>2, <4>1, MembersByIndex
    <3> QED
      BY <2>2, <3>1 DEF Candidates
  <2>3. CASE t[l] # NONE
    <3>1. <<l, t[l]>> \in S
      BY <1>1, <2>1, <2>3, MembersByIndex
    <3> QED
      BY <2>1, <2>3, <3>1 DEF Candidates, Hits, Indices
  <2> QED
    BY <2>2, <2>3
<1> QED
  BY <1>1 DEF Triples, TripleSet, Lists

Nodes == {node_src_indices[n] : n \in NodeIds}

(* The entities that the loops have been at are resolved.                  *)
ResolvedInv ==
  \A l \in sources : \A i \in 0 .. len[l] - 1 :
    Handled(l, i) => Triples(Class(<<l, i>>)) \subseteq Nodes \cup choices

(* What an iteration that makes a node, or choices, adds.                  *)
LEMMA IterationResolves ==
  ASSUME BuilderInv, FinishSearch, WantsNode, NEW x, x = <<phase, pos>>
  PROVE  IF Unambiguous(Class(x))
           THEN Nodes' = Nodes \cup Triples(Class(x)) /\ choices' = choices
           ELSE choices' = choices \cup Triples(Class(x)) /\ Nodes' = Nodes
<1> USE DEF BuilderInv
<1>1. found = Class(x)
  BY NewNode
<1>2. CASE Unambiguous(found)
  <2>1. PICK t \in TripleSet : PushNode(t) /\ Triples(found) = {t} /\ choices' = choices
    BY <1>2, FinishWithNode
  <2>2. /\ NodeIds' = NodeIds \cup {Len(node_src_indices) + 1}
        /\ node_src_indices'[Len(node_src_indices) + 1] = t
        /\ \A n \in NodeIds : node_src_indices'[n] = node_src_indices[n]
    BY <2>1, PushedNode
  <2>3. Nodes' = Nodes \cup {t}
    BY <2>2 DEF Nodes
  <2> QED
    BY <1>1, <1>2, <2>1, <2>3
<1>3. CASE ~Unambiguous(found)
  BY <1>1, <1>3 DEF FinishSearch, AddMatches, Nodes, NodeIds
<1> QED
  BY <1>2, <1>3

(* Every other step leaves the nodes and the choices alone.                *)
LEMMA OthersResolveNothing ==
  ASSUME [Next]_vars, ~(FinishSearch /\ WantsNode)
  PROVE  Nodes' = Nodes /\ choices' = choices
BY DEF Next, BuildGraph, Built, vars, StartSearch, Expand, FinishSearch, EndLoop,
       AddStats, LinkNodes, Nodes, NodeIds

(* An update entity that has a node when the update loop is at it is       *)
(* resolved: its node is its class.                                        *)
LEMMA AlreadyResolved ==
  ASSUME BuilderInv, FinishSearch, phase \in sources, ~WantsNode, NEW x, x = <<phase, pos>>
  PROVE  Triples(Class(x)) \subseteq Nodes
<1> USE DEF BuilderInv
<1>1. phase \in Sides /\ pos < len[phase]
  BY DEF FinishSearch, TypeOK
<1>2. InputTypeOK /\ x \in Elements /\ pos \in 0 .. len[phase] - 1
  BY <1>1, SeedIsElement
<1>3. phase = "update" /\ idx_to_node["update"][pos] # NONE
  BY DEF WantsNode
<1> DEFINE n == idx_to_node["update"][pos]
<1>4. n \in NodeIds /\ node_src_indices[n]["update"] = pos
  <2>1. n \in NodeIds \cup {NONE}
    BY <1>2, <1>3 DEF TypeOK, Sides
  <2> QED
    BY <1>2, <1>3, <2>1 DEF NodesInv, IndexFromNodes, Sides
<1> HIDE DEF n
<1>5. x \in Members(node_src_indices[n])
  BY <1>2, <1>3, <1>4, MembersByIndex DEF Lists, NONE
<1>6. Members(node_src_indices[n]) = Class(x) /\ Unambiguous(Class(x))
  BY <1>2, <1>4, <1>5, OverlapIsClass DEF NodesInv
<1>7. node_src_indices[n] \in TripleSet
  BY <1>4 DEF TypeOK, NodeIds
<1>8. Class(x) \in SUBSET Elements
  BY <1>2, ClassIsClosure
<1>9. node_src_indices[n] \in Triples(Class(x))
  BY <1>2, <1>6, <1>7, <1>8, TripleOfMembers
<1>10. Triples(Class(x)) = {node_src_indices[n]}
  BY <1>6, <1>9 DEF Unambiguous
<1> QED
  BY <1>4, <1>10 DEF Nodes

LEMMA ResolvedStays ==
  ASSUME BuilderInv, [Next]_vars
  PROVE  Nodes \cup choices \subseteq (Nodes \cup choices)'
<1>1. CASE FinishSearch /\ WantsNode
  BY <1>1, IterationResolves
<1>2. CASE ~(FinishSearch /\ WantsNode)
  BY <1>2, OthersResolveNothing
<1> QED
  BY <1>1, <1>2

LEMMA ResolvedInvariant == Spec => [](BuilderInv /\ ResolvedInv)
<1>1. Init => ResolvedInv
  <2> SUFFICES ASSUME Init, NEW l \in sources, NEW i \in 0 .. len[l] - 1, Handled(l, i)
               PROVE  FALSE
    BY DEF ResolvedInv
  <2> QED
    BY DEF Init, Handled, Sides
<1>2. BuilderInv /\ ResolvedInv /\ [Next]_vars => ResolvedInv'
  <2> SUFFICES ASSUME BuilderInv, ResolvedInv, [Next]_vars PROVE ResolvedInv'
    OBVIOUS
  <2>1. UNCHANGED inputs
    BY DEF Next, BuildGraph, Built, vars, StartSearch, Expand, FinishSearch, EndLoop,
           AddStats, LinkNodes
  <2>2. \A x : Triples(Class(x))' = Triples(Class(x))
    BY <2>1, InputsUnchanged DEF Triples, Candidates, Hits, inputs
  <2> SUFFICES ASSUME NEW l \in sources, NEW i \in 0 .. len[l] - 1, Handled(l, i)'
               PROVE  Triples(Class(<<l, i>>)) \subseteq Nodes' \cup choices'
    BY <2>1, <2>2 DEF ResolvedInv, inputs
  <2>3. l \in Sides
    BY DEF BuilderInv, TypeOK, InputTypeOK, SourceSets, Sides
  <2>4. CASE Handled(l, i)
    BY <2>4, ResolvedStays DEF ResolvedInv
  <2>5. CASE ~Handled(l, i)
    <3>1. FinishSearch /\ l = phase /\ i = pos
      BY <2>3, <2>5, NewlyHandled DEF BuilderInv
    <3>2. CASE WantsNode
      BY <3>1, <3>2, IterationResolves
    <3>3. CASE ~WantsNode
      BY <3>1, <3>3, AlreadyResolved, ResolvedStays
    <3> QED
      BY <3>2, <3>3
  <2> QED
    BY <2>4, <2>5
<1> QED
  BY <1>1, <1>2, BuilderInvariant, PTL DEF Spec

(* EntityClasses has its own copies of the definitions of MatchInputs.     *)
LEMMA PromiseInputs ==
  /\ Promise!Kept = {x \in Elements : x[1] \in sources}
  /\ \A x : Promise!Class(x) = Class(x)
  /\ \A S : Promise!Triples(S) = Triples(S)
  /\ \A S : Promise!Unambiguous(S) = Unambiguous(S)
  /\ Promise!inputs = inputs /\ (Promise!InputInit <=> InputInit)
BY DEF Promise!Kept, Promise!Elements, Promise!Class, Promise!Triples, Promise!Unambiguous,
       Promise!Closed, Promise!Matched, Promise!Candidates, Promise!Hits, Promise!inputs,
       Promise!InputInit, Promise!Lists, Promise!NONE, Promise!ComparedPairs,
       Promise!Comparators, Promise!SourceSets,
       Elements, Class, Triples, Unambiguous, Closed, Matched, Candidates, Hits, inputs,
       InputInit, Lists, NONE, ComparedPairs, Comparators, SourceSets

(* The builder does what EntityClasses says, and nothing else: an          *)
(* iteration resolves a whole class or nothing, and build_graph returns    *)
(* when every kept entity is resolved.                                     *)
THEOREM BuilderImplementsClasses == Spec => ImplementsEntityClasses
<1>1. Init => Promise!Init
  <2> SUFFICES ASSUME Init PROVE Promise!Init
    OBVIOUS
  <2>1. InputInit /\ NodeIds = {} /\ choices = {} /\ phase # "built"
    BY DEF Init, NodeIds
  <2> QED
    BY <2>1, PromiseInputs DEF Promise!Init
<1>2. ASSUME BuilderInv, ResolvedInv, [Next]_vars
      PROVE  Promise!Next \/ UNCHANGED <<Promise!inputs, Nodes, choices, phase = "built">>
  <2>1. UNCHANGED inputs
    BY <1>2 DEF Next, BuildGraph, Built, vars, StartSearch, Expand, FinishSearch, EndLoop,
                AddStats, LinkNodes
  <2>2. CASE FinishSearch /\ WantsNode
    <3> PICK x : x = <<phase, pos>>
      OBVIOUS
    <3>1. phase \in Sides /\ phase' = phase /\ phase \in sources
      BY <1>2, <2>2 DEF FinishSearch, WantsNode, BuilderInv, TypeOK
    <3>2. x \in Elements
      BY <1>2, <2>2, NewNode DEF BuilderInv
    <3>3. x \in Promise!Kept
      BY <3>1, <3>2, PromiseInputs
    <3>4. IF Unambiguous(Class(x))
            THEN Nodes' = Nodes \cup Triples(Class(x)) /\ choices' = choices
            ELSE choices' = choices \cup Triples(Class(x)) /\ Nodes' = Nodes
      BY <1>2, <2>2, IterationResolves
    <3>5. phase # "built" /\ (phase = "built")' = (phase = "built")
      BY <3>1 DEF Sides
    <3>6. UNCHANGED <<Promise!inputs, phase = "built">>
      BY <2>1, <3>5 DEF Promise!inputs, inputs
    <3>7. Promise!Resolve(x)
      BY <3>4, <3>5, <3>6, PromiseInputs DEF Promise!Resolve, Nodes
    <3>8. Promise!Next
      BY <3>3, <3>7 DEF Promise!Next
    <3> QED
      BY <3>8
  <2>3. CASE LinkNodes
    <3>1. phase = "link" /\ phase' = "built"
      BY <2>3 DEF LinkNodes
    <3>2. Nodes' = Nodes /\ choices' = choices
      BY <2>3 DEF LinkNodes, Nodes, NodeIds
    <3>3. ASSUME NEW x \in Elements, x[1] \in sources
          PROVE  Triples(Class(x)) \subseteq Nodes \cup choices
      <4>1. x = <<x[1], x[2]>> /\ x[2] \in 0 .. len[x[1]] - 1
        BY <1>2, ElementsAreIndices DEF BuilderInv, TypeOK
      <4>2. Handled(x[1], x[2])
        BY <3>1 DEF Handled, Sides
      <4> QED
        BY <1>2, <3>3, <4>1, <4>2 DEF ResolvedInv
    <3>4. \A x \in Promise!Kept : Promise!Resolved(x)
      BY <3>3, PromiseInputs DEF Promise!Resolved, Nodes
    <3>5. UNCHANGED Promise!inputs
      BY <2>1 DEF Promise!inputs, inputs
    <3>6. Promise!Return
      BY <3>1, <3>2, <3>4, <3>5 DEF Promise!Return, Nodes
    <3>7. Promise!Next
      BY <3>6 DEF Promise!Next
    <3> QED
      BY <3>7
  <2>4. CASE ~(FinishSearch /\ WantsNode) /\ ~LinkNodes
    <3>1. Nodes' = Nodes /\ choices' = choices
      BY <1>2, <2>4, OthersResolveNothing
    <3>2. (phase = "built")' = (phase = "built")
      BY <1>2, <2>4 DEF Next, BuildGraph, Built, vars, StartSearch, Expand, FinishSearch,
                        EndLoop, AddStats, Sides
    <3>3. UNCHANGED Promise!inputs
      BY <2>1 DEF Promise!inputs, inputs
    <3> QED
      BY <3>1, <3>2, <3>3
  <2> QED
    BY <2>2, <2>3, <2>4
<1>3. BuilderInv /\ ResolvedInv /\ [Next]_vars
        => [Promise!Next]_(<<Promise!inputs, {node_src_indices[n] : n \in NodeIds}, choices, phase = "built">>)
  BY <1>2 DEF Nodes
<1> QED
  BY <1>1, <1>3, ResolvedInvariant, PTL DEF Spec, ImplementsEntityClasses, Promise!Spec

---------------------------------------------------------------------------
(* What the nodes and the choices are when build_graph returns.            *)

KeptElements == {x \in Elements : x[1] \in sources}

(* Nodes and choices are made from the classes of kept entities.           *)
MadeOfKept ==
  /\ \A t \in Nodes : \E x \in KeptElements : Unambiguous(Class(x)) /\ t \in Triples(Class(x))
  /\ \A t \in choices : \E x \in KeptElements : ~Unambiguous(Class(x)) /\ t \in Triples(Class(x))

LEMMA MadeOfKeptStep ==
  ASSUME BuilderInv, MadeOfKept, [Next]_vars
  PROVE  MadeOfKept'
<1>1. UNCHANGED inputs
  BY DEF Next, BuildGraph, Built, vars, StartSearch, Expand, FinishSearch, EndLoop,
         AddStats, LinkNodes
<1>2. /\ KeptElements' = KeptElements
      /\ \A x : /\ Triples(Class(x))' = Triples(Class(x))
                /\ Unambiguous(Class(x))' <=> Unambiguous(Class(x))
  BY <1>1, InputsUnchanged DEF KeptElements, inputs
<1>3. /\ \A t \in Nodes' : \E x \in KeptElements : Unambiguous(Class(x)) /\ t \in Triples(Class(x))
      /\ \A t \in choices' : \E x \in KeptElements : ~Unambiguous(Class(x)) /\ t \in Triples(Class(x))
  <2>1. CASE FinishSearch /\ WantsNode
    <3> PICK x : x = <<phase, pos>>
      OBVIOUS
    <3>1. x \in KeptElements
      BY <2>1, NewNode DEF BuilderInv, WantsNode, KeptElements
    <3>2. IF Unambiguous(Class(x))
            THEN Nodes' = Nodes \cup Triples(Class(x)) /\ choices' = choices
            ELSE choices' = choices \cup Triples(Class(x)) /\ Nodes' = Nodes
      BY <2>1, IterationResolves
    <3> QED
      BY <3>1, <3>2 DEF MadeOfKept
  <2>2. CASE ~(FinishSearch /\ WantsNode)
    BY <2>2, OthersResolveNothing DEF MadeOfKept
  <2> QED
    BY <2>1, <2>2
<1> QED
  BY <1>2, <1>3 DEF MadeOfKept

(* The classes of kept entities are resolved one way or the other.         *)
LEMMA ResolvedExactly ==
  ASSUME BuilderInv, ResolvedInv, MadeOfKept, phase \notin Sides, NEW t
  PROVE  /\ t \in Nodes <=> \E x \in KeptElements : Unambiguous(Class(x)) /\ t \in Triples(Class(x))
         /\ t \in choices <=> \E x \in KeptElements : ~Unambiguous(Class(x)) /\ t \in Triples(Class(x))
<1>1. InputTypeOK
  BY DEF BuilderInv, TypeOK
<1>2. ASSUME NEW x \in KeptElements, t \in Triples(Class(x))
      PROVE  t \in Nodes \cup choices
  <2>1. x[1] \in sources /\ x = <<x[1], x[2]>> /\ x[2] \in 0 .. len[x[1]] - 1
    BY <1>1, ElementsAreIndices DEF KeptElements
  <2>2. Handled(x[1], x[2])
    BY DEF Handled
  <2> QED
    BY <1>2, <2>1, <2>2 DEF ResolvedInv
<1>3. ASSUME NEW x \in KeptElements, NEW y \in KeptElements, Unambiguous(Class(x)),
             t \in Triples(Class(x)), t \in Triples(Class(y))
      PROVE  Unambiguous(Class(y))
  <2>1. x \in Elements /\ y \in Elements /\ Class(x) \in SUBSET Elements /\ Class(y) \in SUBSET Elements
    BY ClassIsClosure DEF KeptElements
  <2>2. Members(t) = Class(x) /\ x \in Class(x)
    BY <1>1, <1>3, <2>1, UnambiguousTriple, ClassIsClosure
  <2>3. x \in Class(y)
    BY <1>1, <1>3, <2>1, <2>2, TripleMembers
  <2> QED
    BY <1>1, <1>3, <2>1, <2>3, SameClass
<1> QED
  BY <1>2, <1>3 DEF MadeOfKept

---------------------------------------------------------------------------
(* The links.                                                              *)

(* g is the node that follows n on side l.                                 *)
LinkedTo(n, l, g) ==
  LET linked == {i \in Following(n, l) : idx_to_node[l][i] # NONE} IN
  \/ /\ l \in sources
     /\ \E i \in linked : (\A j \in linked : i <= j) /\ g = idx_to_node[l][i]
  \/ (l \notin sources \/ linked = {}) /\ g = NONE

Linked ==
  phase = "built" => \A n \in {FIRST} \cup NodeIds : \A l \in Sides : LinkedTo(n, l, graph[n][l])

(* _get_next_node stops at the least index that has a node.                *)
LEMMA NextNode ==
  ASSUME TypeOK, NEW n \in {FIRST} \cup NodeIds, NEW l \in Sides
  PROVE  LinkedTo(n, l, GetNextNode(l, Following(n, l)))
<1> DEFINE linked == {i \in Following(n, l) : idx_to_node[l][i] # NONE}
           least  == CHOOSE i \in linked : \A j \in linked : i <= j
<1>1. GetNextNode(l, Following(n, l)) =
        IF l \notin sources \/ linked = {} THEN NONE ELSE idx_to_node[l][least]
  BY DEF GetNextNode
<1>2. linked \in SUBSET Nat
  BY FollowingType
<1> HIDE DEF linked
<1>3. linked # {} => least \in linked /\ \A j \in linked : least <= j
  BY <1>2, LeastIndex
<1> QED
  BY <1>1, <1>3 DEF LinkedTo, linked

LEMMA LinkedStep ==
  ASSUME BuilderInv, Linked, [Next]_vars
  PROVE  Linked'
<1>1. CASE LinkNodes \/ UNCHANGED vars
  <2>1. UNCHANGED <<inputs, node_src_indices, idx_to_node>>
    BY <1>1 DEF LinkNodes, vars
  <2>2. NodeIds' = NodeIds /\ \A n, l : Following(n, l)' = Following(n, l)
    BY <2>1 DEF NodeIds, Following, inputs
  <2>3. \A n, l, g : LinkedTo(n, l, g)' <=> LinkedTo(n, l, g)
    BY <2>1, <2>2 DEF LinkedTo, inputs
  <2>4. CASE LinkNodes
    <3>1. \A n \in {FIRST} \cup NodeIds : \A l \in Sides :
             graph'[n][l] = GetNextNode(l, Following(n, l))
      BY <2>4 DEF LinkNodes
    <3>2. \A n \in {FIRST} \cup NodeIds : \A l \in Sides : LinkedTo(n, l, graph'[n][l])
      BY <3>1, NextNode DEF BuilderInv
    <3>3. \A n, l : LinkedTo(n, l, graph[n][l])' <=> LinkedTo(n, l, graph'[n][l])
      BY <2>1, <2>2 DEF LinkedTo, inputs
    <3> QED
      BY <2>2, <3>2, <3>3 DEF Linked
  <2>5. CASE UNCHANGED vars
    <3>1. \A n, l : LinkedTo(n, l, graph[n][l])' <=> LinkedTo(n, l, graph[n][l])
      BY <2>1, <2>2, <2>5 DEF LinkedTo, inputs, vars
    <3> QED
      BY <2>2, <2>5, <3>1 DEF vars, Linked
  <2> QED
    BY <1>1, <2>4, <2>5
<1>2. CASE StartSearch \/ Expand \/ FinishSearch \/ EndLoop \/ AddStats
  <2>1. phase' # "built"
    BY <1>2 DEF StartSearch, Expand, FinishSearch, EndLoop, AddStats, BuilderInv, TypeOK, Sides
  <2> QED
    BY <2>1 DEF Linked
<1> QED
  BY <1>1, <1>2 DEF Next, BuildGraph, Built

(* A set of indices can be listed from the least to the greatest.          *)
Ascending(S, n, s) ==
  /\ s \in Seq(S)
  /\ \A i, j \in 1 .. Len(s) : i < j => s[i] < s[j]
  /\ \A i \in 1 .. Len(s) : s[i] < n
  /\ \A x \in S : x < n => \E i \in 1 .. Len(s) : s[i] = x

LEMMA SortedIndices ==
  ASSUME NEW S \in SUBSET Nat, NEW n \in Nat
  PROVE  \E s : Ascending(S, n, s)
<1> DEFINE Listed(m, s) == /\ s \in Seq(S)
                           /\ \A i, j \in 1 .. Len(s) : i < j => s[i] < s[j]
                           /\ \A i \in 1 .. Len(s) : s[i] < m
                           /\ \A x \in S : x < m => \E i \in 1 .. Len(s) : s[i] = x
           bad == {m \in Nat : ~ \E s : Listed(m, s)}
<1>1. ASSUME bad # {} PROVE FALSE
  <2>1. PICK m \in bad : \A k \in bad : m <= k
    <3> HIDE DEF bad
    <3>1. bad \in SUBSET Nat
      BY DEF bad
    <3> QED
      BY <1>1, <3>1, LeastIndex
  <2>2. m # 0
    <3>1. <<>> \in Seq(S) /\ Len(<<>>) = 0 /\ \A x \in S : ~(x < 0)
      OBVIOUS
    <3>2. Listed(0, <<>>)
      BY <3>1
    <3> QED
      BY <2>1, <3>2
  <2>3. m \in Nat /\ m - 1 \in Nat /\ m - 1 \notin bad
    <3>1. m \in Nat
      BY <2>1
    <3> HIDE DEF bad
    <3> QED
      BY <2>1, <2>2, <3>1
  <2>4. PICK s : Listed(m - 1, s)
    BY <2>3
  <2>5. CASE m - 1 \notin S
    <3>1. \A x \in S : x < m <=> x < m - 1
      BY <2>3, <2>5
    <3>2. \A i \in 1 .. Len(s) : s[i] \in S
      BY <2>4
    <3>3. Listed(m, s)
      BY <2>4, <3>1, <3>2
    <3> QED
      BY <2>1, <3>3
  <2>6. CASE m - 1 \in S
    <3>1. PICK r : r = Append(s, m - 1)
      OBVIOUS
    <3>2. /\ r \in Seq(S) /\ Len(r) = Len(s) + 1 /\ Len(s) \in Nat /\ r[Len(s) + 1] = m - 1
          /\ \A i \in 1 .. Len(s) : r[i] = s[i] /\ s[i] \in Nat /\ s[i] < m - 1
      <4>1. s \in Seq(S) /\ \A i \in 1 .. Len(s) : s[i] < m - 1
        BY <2>4
      <4>2. \A i \in 1 .. Len(s) : s[i] \in S
        BY <4>1
      <4> HIDE DEF Listed
      <4>3. /\ r \in Seq(S) /\ Len(r) = Len(s) + 1 /\ Len(s) \in Nat /\ r[Len(s) + 1] = m - 1
            /\ \A i \in 1 .. Len(s) : r[i] = s[i]
        BY <2>6, <3>1, <4>1
      <4> QED
        BY <4>1, <4>2, <4>3
    <3>3. \A i \in 1 .. Len(r) : i = Len(s) + 1 \/ i \in 1 .. Len(s)
      BY <3>2
    <3>4. ASSUME NEW i \in 1 .. Len(r), NEW j \in 1 .. Len(r), i < j
          PROVE  r[i] < r[j]
      <4>1. i \in 1 .. Len(s)
        BY <3>2, <3>4
      <4>2. CASE j \in 1 .. Len(s)
        BY <2>4, <3>2, <3>4, <4>1, <4>2
      <4>3. CASE j = Len(s) + 1
        BY <2>4, <3>2, <4>1, <4>3
      <4> QED
        BY <3>3, <4>2, <4>3
    <3>5. \A i \in 1 .. Len(r) : r[i] < m
      <4>1. ASSUME NEW i \in 1 .. Len(s) PROVE r[i] < m
        <5>1. r[i] \in Nat /\ r[i] < m - 1
          BY <3>2
        <5> QED
          BY <2>3, <5>1
      <4>2. r[Len(s) + 1] < m
        BY <2>3, <3>2
      <4> QED
        BY <3>3, <4>1, <4>2
    <3>6. ASSUME NEW x \in S, x < m
          PROVE  \E i \in 1 .. Len(r) : r[i] = x
      <4>1. CASE x = m - 1
        BY <3>2, <4>1
      <4>2. CASE x # m - 1
        <5>1. x < m - 1
          BY <2>3, <3>6, <4>2
        <5>2. PICK i \in 1 .. Len(s) : s[i] = x
          BY <2>4, <5>1
        <5> QED
          BY <3>2, <5>2
      <4> QED
        BY <4>1, <4>2
    <3>7. Listed(m, r)
      BY <3>2, <3>4, <3>5, <3>6
    <3> QED
      BY <2>1, <3>7
  <2> QED
    BY <2>5, <2>6
<1>2. PICK s : Listed(n, s)
  BY <1>1
<1> QED
  BY <1>2 DEF Ascending

---------------------------------------------------------------------------
(* The nodes of a side, in the order of the list, are a chain.             *)

OnSide(n, l) == l \in sources /\ node_src_indices[n][l] # NONE

IsChain(c, l) ==
  /\ c \in Seq(NodeIds)
  /\ \A i, j \in 1 .. Len(c) : i < j => node_src_indices[c[i]][l] < node_src_indices[c[j]][l]
  /\ \A n \in NodeIds : OnSide(n, l) <=> \E i \in 1 .. Len(c) : c[i] = n
  /\ \A k \in 0 .. Len(c) :
       graph[IF k = 0 THEN FIRST ELSE c[k]][l] = IF k + 1 <= Len(c) THEN c[k + 1] ELSE NONE
  /\ \A n \in NodeIds : ~OnSide(n, l) => graph[n][l] = NONE

(* The indices of a side that have a node are those of the nodes.          *)
LEMMA LinkedIndices ==
  ASSUME BuilderInv, NEW l \in Sides, NEW i \in 0 .. len[l] - 1, idx_to_node[l][i] # NONE
  PROVE  /\ idx_to_node[l][i] \in NodeIds
         /\ node_src_indices[idx_to_node[l][i]][l] = i
<1>1. idx_to_node[l][i] \in NodeIds \cup {NONE}
  BY DEF BuilderInv, TypeOK
<1>2. node_src_indices[idx_to_node[l][i]][l] = i
  BY DEF BuilderInv, NodesInv, IndexFromNodes
<1> QED
  BY <1>1, <1>2

LEMMA ChainBuilt ==
  ASSUME BuilderInv, Linked, phase = "built", NEW l \in Sides
  PROVE  \E c : IsChain(c, l)
<1>1. InputTypeOK /\ len[l] \in Nat
  BY DEF BuilderInv, TypeOK, InputTypeOK, Sides, Lists
<1>2. CASE l \notin sources
  <2>1. \A n \in {FIRST} \cup NodeIds : graph[n][l] = NONE
    BY <1>2 DEF Linked, LinkedTo
  <2>2. <<>> \in Seq(NodeIds) /\ Len(<<>>) = 0
    OBVIOUS
  <2>3. \A n \in NodeIds : ~OnSide(n, l)
    BY <1>2 DEF OnSide
  <2>4. IsChain(<<>>, l)
    BY <2>1, <2>2, <2>3 DEF IsChain
  <2> QED
    BY <2>4
<1>3. CASE l \in sources
  <2> DEFINE has == {i \in 0 .. len[l] - 1 : idx_to_node[l][i] # NONE}
  <2>1. has \in SUBSET Nat
    OBVIOUS
  <2>2. \A i \in has : i \in 0 .. len[l] - 1 /\ i < len[l] /\ idx_to_node[l][i] # NONE
    BY <1>1
  <2>3. \A i \in 0 .. len[l] - 1 : idx_to_node[l][i] # NONE => i \in has
    OBVIOUS
  <2> HIDE DEF has
  <2> PICK s : Ascending(has, len[l], s)
    BY <1>1, <2>1, SortedIndices
  <2>4. /\ \A i, j \in 1 .. Len(s) : i < j => s[i] < s[j]
        /\ \A x \in has : x < len[l] => \E i \in 1 .. Len(s) : s[i] = x
    BY DEF Ascending
  <2>5. Len(s) \in Nat /\ \A i \in 1 .. Len(s) : s[i] \in has
    BY DEF Ascending
  <2>6. \A i \in 1 .. Len(s) : /\ s[i] \in 0 .. len[l] - 1 /\ s[i] \in Nat
                               /\ idx_to_node[l][s[i]] \in NodeIds
                               /\ node_src_indices[idx_to_node[l][s[i]]][l] = s[i]
    BY <2>1, <2>2, <2>5, LinkedIndices
  <2>7. PICK c : c = [i \in 1 .. Len(s) |-> idx_to_node[l][s[i]]]
    OBVIOUS
  <2>8. /\ c \in Seq(NodeIds) /\ Len(c) = Len(s)
        /\ \A i \in 1 .. Len(c) : /\ c[i] = idx_to_node[l][s[i]] /\ c[i] \in NodeIds
                                  /\ node_src_indices[c[i]][l] = s[i]
    BY <2>5, <2>6, <2>7
  <2>9. ASSUME NEW n \in NodeIds
        PROVE  OnSide(n, l) <=> \E i \in 1 .. Len(c) : c[i] = n
    <3>1. ASSUME OnSide(n, l) PROVE \E i \in 1 .. Len(c) : c[i] = n
      <4> PICK x : x = node_src_indices[n][l]
        OBVIOUS
      <4>1. x \in 0 .. len[l] - 1 /\ idx_to_node[l][x] = n
        BY <3>1, NodeType DEF OnSide, Indices, BuilderInv, NodesInv, IndexMapsNodes, Sides, Lists
      <4>2. n # NONE
        BY DEF NodeIds, NONE
      <4>3. x \in has /\ x < len[l]
        BY <1>1, <2>3, <4>1, <4>2
      <4>4. PICK i \in 1 .. Len(s) : s[i] = x
        BY <2>4, <4>3
      <4> QED
        BY <2>8, <4>1, <4>4
    <3>2. ASSUME NEW i \in 1 .. Len(c), c[i] = n PROVE OnSide(n, l)
      <4>1. node_src_indices[n][l] = s[i] /\ s[i] \in Nat
        BY <2>6, <2>8, <3>2
      <4> QED
        BY <1>3, <4>1 DEF OnSide, NONE
    <3> QED
      BY <3>1, <3>2
  <2>10. ASSUME NEW k \in 0 .. Len(c), NEW n, n = IF k = 0 THEN FIRST ELSE c[k]
         PROVE  graph[n][l] = IF k + 1 <= Len(c) THEN c[k + 1] ELSE NONE
    <3>1. n \in {FIRST} \cup NodeIds /\ (k # 0 => n \in NodeIds /\ n # FIRST)
      BY <2>8, <2>10 DEF NodeIds, FIRST
    <3>2. LinkedTo(n, l, graph[n][l])
      BY <3>1 DEF Linked
    <3>3. Following(n, l) = IF k = 0 THEN 0 .. len[l] - 1 ELSE s[k] + 1 .. len[l] - 1
      <4>1. CASE k = 0
        BY <2>10, <4>1 DEF Following
      <4>2. CASE k # 0
        <5>1. k \in 1 .. Len(c) /\ n = c[k] /\ node_src_indices[n][l] = s[k] /\ s[k] \in Nat
          BY <2>6, <2>8, <2>10, <4>2
        <5> QED
          BY <3>1, <4>2, <5>1 DEF Following, NONE
      <4> QED
        BY <4>1, <4>2
    <3>4. \A x \in has : x \in Following(n, l) <=> (k = 0 \/ s[k] < x)
      <4>1. \A x \in has : x \in Nat /\ x \in 0 .. len[l] - 1
        BY <2>1, <2>2
      <4>2. k # 0 => s[k] \in Nat
        BY <2>6, <2>8
      <4> QED
        BY <1>1, <3>3, <4>1, <4>2
    <3>5. \A x \in Following(n, l) : x \in 0 .. len[l] - 1
      BY <3>1, FollowingType DEF BuilderInv
    <3>6. CASE k + 1 <= Len(c)
      <4>1. k + 1 \in 1 .. Len(s) /\ s[k + 1] \in has /\ (k # 0 => s[k] < s[k + 1])
        BY <2>4, <2>5, <2>8, <3>6
      <4>2. s[k + 1] \in Following(n, l) /\ idx_to_node[l][s[k + 1]] # NONE
        BY <2>2, <3>4, <4>1
      <4>3. PICK i \in Following(n, l) :
              /\ idx_to_node[l][i] # NONE /\ graph[n][l] = idx_to_node[l][i]
              /\ \A j \in Following(n, l) : idx_to_node[l][j] # NONE => i <= j
        BY <1>3, <3>2, <4>2 DEF LinkedTo
      <4>4. i \in has /\ i <= s[k + 1]
        BY <2>3, <3>5, <4>2, <4>3
      <4>5. PICK m \in 1 .. Len(s) : s[m] = i
        BY <2>2, <2>4, <4>4
      <4>6. k # 0 => s[k] < i
        BY <3>4, <4>3, <4>4
      <4>7. m = k + 1
        <5>1. ~(k + 1 < m)
          BY <2>4, <2>6, <4>1, <4>4, <4>5
        <5>2. ~(m <= k)
          <6> SUFFICES ASSUME m <= k PROVE FALSE
            OBVIOUS
          <6>1. k \in 1 .. Len(s) /\ k # 0 /\ s[m] < s[k + 1] /\ s[k] \in Nat /\ s[m] \in Nat
            BY <2>4, <2>5, <2>6, <2>8, <4>1
          <6>2. m = k \/ s[m] < s[k]
            BY <2>4, <6>1
          <6> QED
            BY <4>5, <4>6, <6>1, <6>2
        <5> QED
          BY <2>5, <2>8, <4>1, <5>1, <5>2
      <4> QED
        BY <2>8, <3>6, <4>1, <4>3, <4>5, <4>7
    <3>7. CASE ~(k + 1 <= Len(c))
      <4>1. k = Len(s)
        BY <2>5, <2>8, <3>7
      <4>2. ASSUME NEW x \in Following(n, l), idx_to_node[l][x] # NONE PROVE FALSE
        <5>1. x \in has /\ (k = 0 \/ s[k] < x)
          BY <2>3, <3>4, <3>5, <4>2
        <5>2. PICK m \in 1 .. Len(s) : s[m] = x
          BY <2>2, <2>4, <5>1
        <5>3. k \in 1 .. Len(s) /\ s[k] < s[m] /\ m <= k /\ s[k] \in Nat /\ s[m] \in Nat
          BY <2>5, <2>6, <4>1, <5>1, <5>2
        <5>4. m = k \/ s[m] < s[k]
          BY <2>4, <5>3
        <5> QED
          BY <5>3, <5>4
      <4>3. graph[n][l] = NONE
        BY <3>2, <4>2 DEF LinkedTo
      <4> QED
        BY <3>7, <4>3
    <3> QED
      BY <3>6, <3>7
  <2>11. ASSUME NEW n \in NodeIds, ~OnSide(n, l) PROVE graph[n][l] = NONE
    <3>1. node_src_indices[n][l] = NONE /\ n # FIRST
      BY <1>3, <2>11 DEF OnSide, NodeIds, FIRST
    <3>2. Following(n, l) = {}
      BY <3>1 DEF Following
    <3> QED
      BY <3>2 DEF Linked, LinkedTo
  <2>12. \A i, j \in 1 .. Len(c) : i < j => node_src_indices[c[i]][l] < node_src_indices[c[j]][l]
    BY <2>4, <2>8
  <2>13. IsChain(c, l)
    BY <2>8, <2>9, <2>10, <2>11, <2>12 DEF IsChain
  <2> QED
    BY <2>13
<1> QED
  BY <1>2, <1>3

(* What the unifier uses of the builder.                                   *)
LEMMA BuiltInvariant == Spec => [](BuilderInv /\ StatsInv /\ ResolvedInv /\ MadeOfKept /\ Linked)
<1>1. Init => MadeOfKept /\ Linked
  BY DEF Init, MadeOfKept, Linked, Nodes, NodeIds
<1>2. BuilderInv /\ MadeOfKept /\ Linked /\ [Next]_vars => MadeOfKept' /\ Linked'
  BY MadeOfKeptStep, LinkedStep
<1> QED
  BY <1>1, <1>2, StatsInvariant, ResolvedInvariant, PTL DEF Spec
=============================================================================
