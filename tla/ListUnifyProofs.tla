-------------------------- MODULE ListUnifyProofs --------------------------
(***************************************************************************)
(* Theorems of ListUnify, for lists of any length, any comparators, any    *)
(* operation and any limit.  They rest on what is proved of the builder    *)
(* (MatchGraphBuilderProofs) and of the sort (GraphSortProofs).            *)
(***************************************************************************)
EXTENDS ListUnify, FiniteSetTheorems, SequenceTheorems, TLAPS

BP == INSTANCE MatchGraphBuilderProofs
SP == INSTANCE GraphSortProofs

---------------------------------------------------------------------------
(* The copies of definitions that the instances bring are the same.        *)

LEMMA InputsAgree ==
  /\ BP!Lists = Lists /\ BP!NONE = NONE /\ BP!inputs = <<len, matches, sources>>
  /\ BP!Elements = Elements
  /\ \A x : BP!Class(x) = Class(x)
  /\ \A X : BP!Triples(X) = Triples(X)
  /\ \A X : BP!Unambiguous(X) <=> Unambiguous(X)
  /\ \A X, l : BP!Hits(X, l) = Hits(X, l)
  /\ \A t : BP!Members(t) = Members(t)
BY DEF BP!Lists, BP!NONE, BP!inputs, BP!Elements, BP!Class, BP!Closed, BP!Matched, BP!Triples,
       BP!Candidates, BP!Hits, BP!Unambiguous, BP!Members,
       Lists, NONE, Elements, Class, Closed, Matched, Triples, Candidates, Hits, Unambiguous,
       Members

LEMMA BuilderInitAgrees == B!Init => BP!Init
BY DEF B!Init, BP!Init, B!InputInit, BP!InputInit, B!Lists, BP!Lists, B!Elements, BP!Elements,
       B!ComparedPairs, BP!ComparedPairs, B!Comparators, BP!Comparators, B!SourceSets,
       BP!SourceSets, B!Sides, BP!Sides, B!NONE, BP!NONE, B!NewStats, BP!NewStats

LEMMA BuildAgrees == B!BuildGraph => BP!BuildGraph
<1> USE DEF B!Sides, BP!Sides, B!NONE, BP!NONE, B!FIRST, BP!FIRST, B!inputs, BP!inputs,
            B!NodeIds, BP!NodeIds, B!Hits, BP!Hits
<1>1. \A x : B!NewlyFound(x) = BP!NewlyFound(x)
  BY DEF B!NewlyFound, BP!NewlyFound, B!GetMatches, BP!GetMatches, B!Matched, BP!Matched,
         B!Elements, BP!Elements, B!Lists, BP!Lists, B!OtherTwo, BP!OtherTwo
<1>2. B!StartSearch => BP!StartSearch
  BY DEF B!StartSearch, BP!StartSearch
<1>3. B!Expand => BP!Expand
  BY <1>1 DEF B!Expand, BP!Expand
<1>4. B!FinishSearch => BP!FinishSearch
  <2>1. \A X : B!Triples(X) = BP!Triples(X) /\ (B!Unambiguous(X) <=> BP!Unambiguous(X))
    BY DEF B!Triples, BP!Triples, B!Candidates, BP!Candidates, B!Unambiguous, BP!Unambiguous
  <2>2. \A t : B!PushNode(t) <=> BP!PushNode(t)
    BY DEF B!PushNode, BP!PushNode
  <2>3. \A X : B!AddMatches(X) <=> BP!AddMatches(X)
    BY <2>1, <2>2 DEF B!AddMatches, BP!AddMatches
  <2>4. \A st, i, r : B!AddRootMatch(st, i, r) = BP!AddRootMatch(st, i, r)
    BY DEF B!AddRootMatch, BP!AddRootMatch
  <2>5. B!WantsNode <=> BP!WantsNode
    BY DEF B!WantsNode, BP!WantsNode
  <2> QED
    BY <2>3, <2>4, <2>5 DEF B!FinishSearch, BP!FinishSearch
<1>5. B!EndLoop => BP!EndLoop
  BY DEF B!EndLoop, BP!EndLoop
<1>6. B!AddStats => BP!AddStats
  <2>1. \A st, X : B!MoveToResult(st, X) = BP!MoveToResult(st, X)
    BY DEF B!MoveToResult, BP!MoveToResult
  <2>2. \A l : B!InNodes(l) = BP!InNodes(l)
    BY DEF B!InNodes, BP!InNodes
  <2> QED
    BY <2>1, <2>2 DEF B!AddStats, BP!AddStats
<1>7. B!LinkNodes => BP!LinkNodes
  <2>1. \A n, l : B!Following(n, l) = BP!Following(n, l)
    BY DEF B!Following, BP!Following
  <2>2. \A l, indices : B!GetNextNode(l, indices) = BP!GetNextNode(l, indices)
    BY DEF B!GetNextNode, BP!GetNextNode
  <2> QED
    BY <2>1, <2>2 DEF B!LinkNodes, BP!LinkNodes
<1> QED
  BY <1>2, <1>3, <1>4, <1>5, <1>6, <1>7 DEF B!BuildGraph, BP!BuildGraph

LEMMA StartAgrees == S!StartSort => SP!StartSort
BY DEF S!StartSort, SP!StartSort, S!FIRST, SP!FIRST

LEMMA SortAgrees == S!SortGraph => SP!SortGraph
<1> USE DEF S!Nodes, SP!Nodes, S!FIRST, SP!FIRST, S!NONE, SP!NONE, S!Sides, SP!Sides,
            S!inputs, SP!inputs, S!Other, SP!Other
<1>1. \A x : S!Cardinality(x) = SP!Cardinality(x)
  BY DEF S!Cardinality, SP!Cardinality
<1>2. S!GiveUp => SP!GiveUp
  BY DEF S!GiveUp, SP!GiveUp
<1>3. S!CountInDegrees => SP!CountInDegrees
  BY <1>1 DEF S!CountInDegrees, SP!CountInDegrees
<1>4. S!PopNode => SP!PopNode
  <2>1. \A node : S!Output(node) => SP!Output(node)
    BY DEF S!Output, SP!Output, S!Relax, SP!Relax, S!Traversal, SP!Traversal
  <2> QED
    BY <1>2, <2>1 DEF S!PopNode, SP!PopNode
<1>5. S!FinishToposort => SP!FinishToposort
  BY <1>1, <1>2 DEF S!FinishToposort, SP!FinishToposort
<1>6. S!WalkFirst => SP!WalkFirst
  BY DEF S!WalkFirst, SP!WalkFirst, S!Walk, SP!Walk
<1>7. S!WalkSecond => SP!WalkSecond
  BY DEF S!WalkSecond, SP!WalkSecond, S!Walk, SP!Walk
<1>8. S!EndOfChain => SP!EndOfChain
  BY DEF S!EndOfChain, SP!EndOfChain
<1> QED
  BY <1>3, <1>4, <1>5, <1>6, <1>7, <1>8 DEF S!SortGraph, SP!SortGraph

---------------------------------------------------------------------------
(* The builder runs as it does on its own.                                 *)

LEMMA LengthsOfBuilder == Lengths \subseteq [BP!Lists -> Nat]
BY LengthsAssumption DEF BP!Lists, Lists

LEMMA StepOfBuilder ==
  ASSUME [Next]_vars
  PROVE  \/ stage = "build" /\ BP!BuildGraph /\ UNCHANGED <<sorter, local>>
         \/ UNCHANGED <<builder, graph>>
BY BuildAgrees
   DEF Next, Unify, Over, vars, Build, RaiseTooMany, ReportChoices, Sort, PlaceNodes,
       ReportHeadDeletes, ReportNewUpdates, DeleteHighest, Delete, Finish, S!SortGraph,
       S!CountInDegrees, S!PopNode, S!GiveUp, S!Output, S!FinishToposort, S!WalkFirst,
       S!WalkSecond, S!Walk, S!EndOfChain, S!inputs

LEMMA UnifyRunsBuilder == Spec => BP!Spec
<1>1. Init => BP!Init
  BY BuilderInitAgrees DEF Init
<1>2. [Next]_vars => [BP!Next]_(BP!vars)
  BY StepOfBuilder DEF BP!Next, BP!vars, BP!inputs, builder
<1> QED
  BY <1>1, <1>2, PTL DEF Spec, BP!Spec

(* What the builder guarantees.                                            *)
Built ==
  BP!BuilderInv /\ BP!StatsInv /\ BP!ResolvedInv /\ BP!MadeOfKept /\ BP!Linked

LEMMA BuiltInvariant == Spec => []Built
BY UnifyRunsBuilder, LengthsOfBuilder, BP!BuiltInvariant, PTL DEF Built

---------------------------------------------------------------------------
(* The graph that is built is one that the sort may be given.              *)

LEMMA OpType ==
  ASSUME op \in Ops
  PROVE  pick_first \in SP!Sides
BY OpsAssumption DEF pick_first, PickFirst, SP!Sides

LEMMA BuiltNodes ==
  ASSUME BP!BuilderInv, phase = "built"
  PROVE  /\ BP!NodeIds = 1 .. Len(node_src_indices) /\ Len(node_src_indices) \in Nat
         /\ SP!Nodes = 0 .. Len(node_src_indices)
         /\ SP!Nodes \ {SP!FIRST} = BP!NodeIds
         /\ graph \in [SP!Nodes -> [SP!Sides -> BP!NodeIds \cup {SP!NONE}]]
<1>1. /\ BP!NodeIds = 1 .. Len(node_src_indices) /\ Len(node_src_indices) \in Nat
      /\ graph \in [{BP!FIRST} \cup BP!NodeIds -> [BP!Sides -> BP!NodeIds \cup {BP!NONE}]]
  BY DEF BP!BuilderInv, BP!TypeOK, BP!NodeIds
<1>2. {BP!FIRST} \cup BP!NodeIds = 0 .. Len(node_src_indices)
  BY <1>1 DEF BP!FIRST
<1> QED
  BY <1>1, <1>2 DEF SP!Nodes, SP!FIRST, SP!NONE, SP!Sides, BP!Sides, BP!NONE

(* A node is on the side of a list that is kept.                           *)
LEMMA NodeOfKept ==
  ASSUME BP!BuilderInv, BP!MadeOfKept, NEW n \in BP!NodeIds
  PROVE  \E l \in SP!Sides : BP!OnSide(n, l)
<1> DEFINE t == node_src_indices[n]
<1>1. PICK x \in BP!KeptElements : BP!Unambiguous(BP!Class(x)) /\ t \in BP!Triples(BP!Class(x))
  BY DEF BP!MadeOfKept, BP!Nodes
<1>2. /\ BP!InputTypeOK /\ x \in BP!Elements /\ x[1] \in sources
      /\ sources \in BP!SourceSets
  BY <1>1 DEF BP!BuilderInv, BP!TypeOK, BP!InputTypeOK, BP!KeptElements
<1>3. BP!Members(t) = BP!Class(x) /\ x \in BP!Class(x)
  BY <1>1, <1>2, LengthsOfBuilder, BP!UnambiguousTriple, BP!ClassIsClosure
<1>4. t[x[1]] # BP!NONE
  BY <1>2, <1>3, LengthsOfBuilder, BP!ElementsAreIndices DEF BP!Members
<1> QED
  BY <1>2, <1>4 DEF BP!OnSide, BP!SourceSets, SP!Sides

LEMMA ChainFollows ==
  ASSUME BP!BuilderInv, phase = "built", NEW l \in SP!Sides, NEW c, BP!IsChain(c, l)
  PROVE  SP!Follows(c, l)
<1>1. /\ SP!Nodes \ {SP!FIRST} = BP!NodeIds /\ c \in Seq(BP!NodeIds) /\ Len(c) \in Nat
      /\ \A i \in 1 .. Len(c) : node_src_indices[c[i]][l] \in Int
  <2>1. c \in Seq(BP!NodeIds) /\ \A n \in BP!NodeIds : node_src_indices[n][l] \in BP!Indices(l)
    BY LengthsOfBuilder, BP!NodeType DEF BP!IsChain, SP!Sides, BP!Lists, BP!BuilderInv
  <2>2. len[l] \in Nat
    BY DEF BP!BuilderInv, BP!TypeOK, BP!InputTypeOK, SP!Sides, BP!Lists
  <2>3. \A n \in BP!NodeIds : node_src_indices[n][l] \in Int
    BY <2>1, <2>2 DEF BP!Indices, BP!NONE
  <2>4. \A i \in 1 .. Len(c) : c[i] \in BP!NodeIds
    BY <2>1
  <2> QED
    BY <2>1, <2>3, <2>4, BuiltNodes
<1>2. SP!Distinct(c)
  <2> SUFFICES ASSUME NEW i \in 1 .. Len(c), NEW j \in 1 .. Len(c), c[i] = c[j], i # j
               PROVE  FALSE
    BY DEF SP!Distinct
  <2>1. \A a, b \in 1 .. Len(c) : a < b => node_src_indices[c[a]][l] < node_src_indices[c[b]][l]
    BY DEF BP!IsChain
  <2>2. i < j \/ j < i
    BY <1>1
  <2> QED
    BY <1>1, <2>1, <2>2
<1>3. \A k \in 0 .. Len(c) : graph[SP!At(c, k)][l] = SP!At(c, k + 1)
  BY <1>1 DEF BP!IsChain, SP!At, SP!FIRST, BP!FIRST, SP!NONE, BP!NONE
<1>4. \A m \in SP!Nodes \ {SP!FIRST} :
        (\A k \in 1 .. Len(c) : c[k] # m) => graph[m][l] = SP!NONE
  BY <1>1 DEF BP!IsChain, SP!NONE, BP!NONE
<1> QED
  BY <1>1, <1>2, <1>3, <1>4 DEF SP!Follows

LEMMA BuiltGraph ==
  ASSUME BP!BuilderInv, BP!MadeOfKept, BP!Linked, phase = "built", op \in Ops
  PROVE  SP!GraphInv
<1>1. /\ \E n \in Nat : SP!Nodes = 0 .. n
      /\ graph \in [SP!Nodes -> [SP!Sides -> (SP!Nodes \ {SP!FIRST}) \cup {SP!NONE}]]
  BY BuiltNodes
<1>2. ASSUME NEW l \in SP!Sides PROVE \E c : BP!IsChain(c, l)
  BY LengthsOfBuilder, BP!ChainBuilt DEF SP!Sides, BP!Sides
<1>3. ASSUME NEW l \in SP!Sides PROVE SP!Follows(SP!ChainOf(l), l)
  BY <1>2, ChainFollows DEF SP!ChainOf
<1>4. ASSUME NEW m \in SP!Nodes \ {SP!FIRST}
      PROVE  \E l \in SP!Sides : \E k \in SP!Nodes : graph[k][l] = m
  <2>1. m \in BP!NodeIds
    BY BuiltNodes
  <2>2. PICK l \in SP!Sides : BP!OnSide(m, l)
    BY <2>1, NodeOfKept
  <2>3. PICK c : BP!IsChain(c, l)
    BY <1>2
  <2>4. PICK i \in 1 .. Len(c) : c[i] = m
    BY <2>1, <2>2, <2>3 DEF BP!IsChain
  <2> DEFINE k == IF i - 1 = 0 THEN BP!FIRST ELSE c[i - 1]
  <2>5. c \in Seq(BP!NodeIds) /\ Len(c) \in Nat /\ i - 1 \in 0 .. Len(c)
    BY <2>3, <2>4 DEF BP!IsChain
  <2>6. k \in SP!Nodes
    BY <2>5, BuiltNodes DEF BP!FIRST
  <2>7. graph[k][l] = IF (i - 1) + 1 <= Len(c) THEN c[(i - 1) + 1] ELSE BP!NONE
    BY <2>3, <2>5 DEF BP!IsChain
  <2>8. graph[k][l] = m
    BY <2>4, <2>5, <2>7
  <2> QED
    BY <2>6, <2>8
<1> QED
  BY <1>1, <1>3, <1>4, OpType DEF SP!GraphInv

---------------------------------------------------------------------------
(* The sort starts from the graph that is built, and runs as it does on    *)
(* its own; everything else waits for it.                                  *)

Later == {"deletes", "inserts", "removals", "returned", "merge_error"}

StageInv ==
  /\ op \in Ops /\ sources = OpSources[op]
  /\ stage \in {"build", "sort", "too_many"} \cup Later
  /\ stage # "build" => phase = "built"
  /\ stage \in {"sort"} \cup Later => ~TooManyChoices
  /\ stage \in {"build", "too_many"} => SP!StartSort
  /\ stage \in {"sort"} \cup Later => SP!SortInv
  /\ stage \in Later => pc = "sorted"

LEMMA StageInit == Init => StageInv
BY StartAgrees DEF Init, StageInv, Later

(* The invariants of the sort only depend on its variables.                *)
LEMMA SorterUnchanged ==
  ASSUME UNCHANGED <<graph, sorter, op>>
  PROVE  /\ SP!SortInv => SP!SortInv'
         /\ SP!StartSort => SP!StartSort'
         /\ pc' = pc
<1>1. UNCHANGED SP!vars
  BY DEF SP!vars, SP!inputs, sorter, pick_first
<1>2. SP!SortInv => SP!SortInv'
  BY <1>1, NodesAssumption, SP!StutterStep
<1> QED
  BY <1>2 DEF sorter, SP!StartSort, SP!FIRST

LEMMA StageStep ==
  ASSUME Built, StageInv, [Next]_vars
  PROVE  StageInv'
<1> USE DEF Later
<1>0. UNCHANGED <<choices, limit>> => (TooManyChoices' <=> TooManyChoices)
  BY DEF TooManyChoices
<1>1. CASE Build
  <2>1. UNCHANGED <<sorter, op, stage>> /\ stage = "build"
    BY <1>1 DEF Build, local
  <2>2. sources' = sources
    BY <1>1, BuildAgrees
       DEF Build, BP!BuildGraph, BP!StartSearch, BP!Expand, BP!FinishSearch, BP!EndLoop,
           BP!AddStats, BP!LinkNodes, BP!inputs
  <2>3. SP!StartSort => SP!StartSort'
    BY <2>1 DEF sorter, SP!StartSort, SP!FIRST
  <2> QED
    BY <2>1, <2>2, <2>3 DEF StageInv
<1>2. CASE RaiseTooMany
  BY <1>0, <1>2, SorterUnchanged DEF RaiseTooMany, StageInv, builder
<1>3. CASE ReportChoices
  <2>1. SP!GraphInv /\ SP!StartSort
    BY <1>3, BuiltGraph DEF ReportChoices, Built, StageInv
  <2>2. SP!SortInv
    BY <2>1, NodesAssumption, SP!StartStep
  <2> QED
    BY <1>0, <1>3, <2>2, SorterUnchanged DEF ReportChoices, StageInv, builder
<1>4. CASE Sort
  <2>1. SP!SortInv'
    BY <1>4, SortAgrees, NodesAssumption, SP!SortStep DEF Sort, StageInv
  <2> QED
    BY <1>0, <1>4, <2>1 DEF Sort, StageInv, builder, local
<1>5. CASE PlaceNodes
  BY <1>0, <1>5, SorterUnchanged DEF PlaceNodes, StageInv, builder
<1>6. CASE ReportHeadDeletes \/ ReportNewUpdates \/ DeleteHighest \/ Finish
  <2>1. /\ UNCHANGED <<builder, graph, sorter, op, limit>>
        /\ stage \in Later /\ stage' \in Later
    BY <1>6 DEF ReportHeadDeletes, ReportNewUpdates, DeleteHighest, Delete, Finish
  <2> QED
    BY <1>0, <2>1, SorterUnchanged DEF StageInv, builder
<1>7. CASE UNCHANGED vars
  BY <1>0, <1>7, SorterUnchanged DEF vars, StageInv, builder, local
<1> QED
  BY <1>1, <1>2, <1>3, <1>4, <1>5, <1>6, <1>7 DEF Next, Unify, Over

LEMMA StageInvariant == Spec => [](Built /\ StageInv)
BY StageInit, StageStep, BuiltInvariant, PTL DEF Spec

(* The graph that is sorted is one of the match graphs that GraphSort is   *)
(* checked with, when it is not larger: what is checked there is said of   *)
(* the graphs that the builder makes.                                      *)
THEOREM BuiltGraphAlwaysMatchGraph == Spec => []BuiltGraphIsMatchGraph
<1>1. Built /\ StageInv => BuiltGraphIsMatchGraph
  <2> SUFFICES ASSUME StageInv, stage = "sort", Cardinality(S!Nodes) <= MaxNodes + 1
               PROVE  S!IsMatchGraph
    BY DEF BuiltGraphIsMatchGraph
  <2>1. SP!GraphInv
    BY DEF StageInv, SP!SortInv
  <2>2. SP!Cardinality(SP!Nodes) <= MaxNodes + 1
    BY DEF SP!Nodes, S!Nodes, SP!Cardinality, Cardinality
  <2>3. SP!IsMatchGraph
    BY <2>1, <2>2, NodesAssumption, SP!GraphIsListed
  <2> QED
    BY <2>3 DEF SP!IsMatchGraph, S!IsMatchGraph, SP!MatchGraphs, S!MatchGraphs, SP!Chains,
                S!Chains, SP!TwoChains, S!TwoChains, SP!Visits, S!Visits, SP!NextIn, S!NextIn,
                SP!FIRST, S!FIRST, SP!NONE, S!NONE
<1> QED
  BY <1>1, StageInvariant, PTL

---------------------------------------------------------------------------
(* What is laid out and what is reported, stage by stage.                  *)

(* What is placed is the nodes, each of them once.                         *)
LEMMA PlacedNodes ==
  ASSUME BP!BuilderInv, BP!MadeOfKept, phase = "built", SP!SortInv, pc = "sorted"
  PROVE  /\ Placed \in Seq(BP!TripleSet) /\ Len(Placed) = Len(ordered) /\ Len(ordered) \in Nat
         /\ \A j \in 1 .. Len(Placed) : /\ ordered[j] \in BP!NodeIds
                                        /\ Placed[j] = node_src_indices[ordered[j]]
         /\ \A n \in BP!NodeIds : \E j \in 1 .. Len(Placed) : ordered[j] = n
         /\ \A t : t \in BP!Nodes <=> \E j \in 1 .. Len(Placed) : Placed[j] = t
         /\ \A i, j \in 1 .. Len(Placed) : Placed[i] = Placed[j] => i = j
<1>1. /\ ordered \in Seq(BP!NodeIds) /\ Len(ordered) \in Nat /\ DOMAIN ordered = 1 .. Len(ordered)
      /\ \A n \in BP!NodeIds : \E j \in 1 .. Len(ordered) : ordered[j] = n
      /\ \A i, j \in 1 .. Len(ordered) : ordered[i] = ordered[j] => i = j
  <2>1. ordered \in Seq(SP!Nodes \ {SP!FIRST})
    BY DEF SP!SortInv, SP!SortType
  <2>2. /\ {ordered[j] : j \in 1 .. Len(ordered)} = SP!Nodes \ {SP!FIRST}
        /\ SP!Distinct(ordered)
    BY NodesAssumption, SP!SortedComplete
  <2>3. SP!Nodes \ {SP!FIRST} = BP!NodeIds
    BY BuiltNodes
  <2>4. \A n \in BP!NodeIds : \E j \in 1 .. Len(ordered) : ordered[j] = n
    BY <2>2, <2>3
  <2> QED
    BY <2>1, <2>2, <2>3, <2>4 DEF SP!Distinct
<1>2. \A n \in BP!NodeIds : node_src_indices[n] \in BP!TripleSet
  BY DEF BP!BuilderInv, BP!TypeOK, BP!NodeIds
<1>3. /\ Placed \in Seq(BP!TripleSet) /\ Len(Placed) = Len(ordered)
      /\ \A j \in 1 .. Len(Placed) : Placed[j] = node_src_indices[ordered[j]]
  <2>1. \A j \in 1 .. Len(ordered) : ordered[j] \in BP!NodeIds
    BY <1>1
  <2>2. Placed = [j \in 1 .. Len(ordered) |-> node_src_indices[ordered[j]]]
    BY <1>1 DEF Placed
  <2>3. Placed \in [1 .. Len(ordered) -> BP!TripleSet]
    BY <1>2, <2>1, <2>2
  <2> QED
    BY <1>1, <2>2, <2>3
<1>4. \A j \in 1 .. Len(Placed) : ordered[j] \in BP!NodeIds
  BY <1>1, <1>3
<1>5. \A t : t \in BP!Nodes <=> \E j \in 1 .. Len(Placed) : Placed[j] = t
  BY <1>1, <1>3, <1>4 DEF BP!Nodes
<1>6. ASSUME NEW i \in 1 .. Len(Placed), NEW j \in 1 .. Len(Placed), Placed[i] = Placed[j]
      PROVE  i = j
  <2>1. ordered[i] \in BP!NodeIds /\ ordered[j] \in BP!NodeIds
    BY <1>4
  <2>2. PICK l \in SP!Sides : BP!OnSide(ordered[i], l)
    BY <2>1, NodeOfKept
  <2>3. node_src_indices[ordered[i]] = node_src_indices[ordered[j]]
    BY <1>3, <1>6
  <2>4. node_src_indices[ordered[i]][l] # BP!NONE /\ l \in BP!Sides
    BY <2>2 DEF BP!OnSide, SP!Sides, BP!Sides
  <2>5. BP!IndexMapsNodes
    BY DEF BP!BuilderInv, BP!NodesInv
  <2>6. ordered[i] = ordered[j]
    BY <2>1, <2>3, <2>4, <2>5 DEF BP!IndexMapsNodes
  <2> QED
    BY <1>1, <1>3, <2>6
<1> QED
  BY <1>1, <1>3, <1>4, <1>5, <1>6

(* The entities that the operation holds back.                             *)
Held(j) == RaisesOnNewUpdate(op) /\ IsNewUpdate(Placed[j])

(* A report of each kind.                                                  *)
MergeReport(c)   == \E t \in choices : c = Report("MANUAL_MERGE", NONE, t)
ReorderReport(c) == cyclic /\ c = Report("REORDER", NONE, Nothing)
HeadReport(c)    == /\ RaisesOnHeadDelete(op)
                    /\ \E i \in B!NotInResultIdx(stats["head"]) :
                         c = Report("ADD_BACK_TO_HEAD", NONE, Only("head", i))
InsertReport(c)  == \E j \in 1 .. Len(Placed) :
                      Held(j) /\ c = Report("INSERT", j - 1, Only("update", Placed[j].update))

ReportsInv ==
  \A c : c \in conflicts <=>
    \/ stage \notin {"build", "too_many"} /\ MergeReport(c)
    \/ stage \in Later /\ ReorderReport(c)
    \/ stage \in Later \ {"deletes"} /\ HeadReport(c)
    \/ stage \in Later \ {"deletes", "inserts"} /\ InsertReport(c)

(* f gives the place of every entity that is still there.  Removing from   *)
(* the last position to the first leaves what comes before where it was,   *)
(* so that the positions still to be removed mean what they did.           *)
Remaining(f) ==
  /\ f \in [1 .. Len(unified) -> 1 .. Len(Placed)]
  /\ \A k, m \in 1 .. Len(unified) : k < m => f[k] < f[m]
  /\ \A k \in 1 .. Len(unified) : unified[k] = Placed[f[k]]
  /\ \A j \in 1 .. Len(Placed) :
       (Held(j) => j - 1 \in idx_to_remove) <=> \E k \in 1 .. Len(unified) : f[k] = j
  /\ \A idx \in idx_to_remove :
       /\ idx \in 0 .. Len(unified) - 1 /\ idx + 1 \in 1 .. Len(Placed) /\ Held(idx + 1)
       /\ \A k \in 1 .. idx + 1 : f[k] = k

LaidOutInv ==
  /\ stage \in {"build", "too_many", "sort"} => unified = <<>>
  /\ stage \in {"deletes", "inserts"} => unified = Placed
  /\ stage \in Later \ {"deletes", "inserts"} =>
       unified \in Seq(BP!TripleSet) /\ \E f : Remaining(f)
  /\ stage # "removals" => idx_to_remove = {}

LayoutInv == ReportsInv /\ LaidOutInv

LEMMA RemoveAtEffect ==
  ASSUME NEW X, NEW s \in Seq(X), NEW i \in 1 .. Len(s)
  PROVE  /\ RemoveAt(s, i) \in Seq(X) /\ Len(RemoveAt(s, i)) = Len(s) - 1
         /\ \A k \in 1 .. Len(s) - 1 : RemoveAt(s, i)[k] = IF k < i THEN s[k] ELSE s[k + 1]
<1>1. Len(s) \in Nat /\ i \in Nat
  OBVIOUS
<1> DEFINE a == SubSeq(s, 1, i - 1)
           b == SubSeq(s, i + 1, Len(s))
<1>2. a \in Seq(X) /\ Len(a) = i - 1 /\ \A k \in 1 .. i - 1 : a[k] = s[k]
  BY <1>1
<1>3. b \in Seq(X) /\ Len(b) = Len(s) - i /\ \A k \in 1 .. Len(s) - i : b[k] = s[k + i]
  BY <1>1
<1> HIDE DEF a, b
<1>4. /\ a \o b \in Seq(X) /\ Len(a \o b) = Len(s) - 1
      /\ \A k \in 1 .. Len(s) - 1 : (a \o b)[k] = IF k <= i - 1 THEN a[k] ELSE b[k - (i - 1)]
  <2>1. Len(a) + Len(b) = Len(s) - 1
    BY <1>1, <1>2, <1>3
  <2>2. a \o b \in Seq(X) /\ Len(a \o b) = Len(s) - 1
    BY <1>2, <1>3, <2>1, ConcatProperties
  <2>3. \A k \in 1 .. Len(a) + Len(b) : (a \o b)[k] = IF k <= Len(a) THEN a[k] ELSE b[k - Len(a)]
    BY <1>2, <1>3, ConcatProperties
  <2> QED
    BY <1>2, <2>1, <2>2, <2>3
<1>5. ASSUME NEW k \in 1 .. Len(s) - 1
      PROVE  (a \o b)[k] = IF k < i THEN s[k] ELSE s[k + 1]
  <2>1. CASE k < i
    BY <1>1, <1>2, <1>4, <2>1
  <2>2. CASE ~(k < i)
    <3>1. k - (i - 1) \in 1 .. Len(s) - i /\ (k - (i - 1)) + i = k + 1 /\ ~(k <= i - 1)
      BY <1>1, <2>2
    <3> QED
      BY <1>3, <1>4, <2>2, <3>1
  <2> QED
    BY <2>1, <2>2
<1> QED
  BY <1>4, <1>5 DEF RemoveAt, a, b

LEMMA LayoutInit == Init => LayoutInv
BY DEF Init, LayoutInv, ReportsInv, LaidOutInv, Later

(* What the reports are about does not change once the sort is over.       *)
LEMMA ReportsUnchanged ==
  ASSUME UNCHANGED <<builder, sorter, op>>
  PROVE  /\ Placed' = Placed
         /\ \A j : Held(j)' <=> Held(j)
         /\ \A c : /\ MergeReport(c)' <=> MergeReport(c)
                   /\ ReorderReport(c)' <=> ReorderReport(c)
                   /\ HeadReport(c)' <=> HeadReport(c)
                   /\ InsertReport(c)' <=> InsertReport(c)
<1>1. /\ op' = op /\ choices' = choices /\ cyclic' = cyclic /\ stats' = stats
      /\ ordered' = ordered /\ node_src_indices' = node_src_indices
  BY DEF builder, sorter
<1>2. Placed' = Placed
  BY <1>1 DEF Placed
<1>3. \A j : Held(j)' <=> Held(j)
  BY <1>1, <1>2 DEF Held
<1> QED
  BY <1>1, <1>2, <1>3 DEF MergeReport, ReorderReport, HeadReport, InsertReport

(* The steps of Unify after the builder's and the sort's.                  *)
LEMMA StepOfUnify ==
  ASSUME [Next]_vars
  PROVE  \/ Build \/ Sort
         \/ /\ UNCHANGED <<builder, graph, sorter, op>>
            /\ \/ RaiseTooMany \/ ReportChoices \/ PlaceNodes \/ ReportHeadDeletes
               \/ ReportNewUpdates \/ DeleteHighest \/ Finish \/ UNCHANGED vars
BY DEF Next, Unify, Over, vars, local, RaiseTooMany, ReportChoices, PlaceNodes, ReportHeadDeletes,
       ReportNewUpdates, DeleteHighest, Delete, Finish

(* The positions that are to be removed are those of the entities held     *)
(* back, and what is reported is what they hold.                           *)
LEMMA NewUpdatesHeld ==
  ASSUME Built, StageInv, stage \in Later, unified = Placed, RaisesOnNewUpdate(op)
  PROVE  /\ \A idx : idx \in NewUpdates <=> \E j \in 1 .. Len(Placed) : Held(j) /\ idx = j - 1
         /\ \A c : InsertReport(c) <=>
              \E idx \in NewUpdates :
                c = Report("INSERT", idx, Only("update", unified[idx + 1].update))
<1>1. Len(Placed) \in Nat
  BY PlacedNodes DEF Built, StageInv, Later
<1>2. ASSUME NEW idx
      PROVE  idx \in NewUpdates <=> \E j \in 1 .. Len(Placed) : Held(j) /\ idx = j - 1
  <2>1. ASSUME idx \in NewUpdates
        PROVE  idx + 1 \in 1 .. Len(Placed) /\ Held(idx + 1) /\ idx = (idx + 1) - 1
    BY <1>1, <2>1 DEF NewUpdates, Held
  <2>2. ASSUME NEW j \in 1 .. Len(Placed), Held(j), idx = j - 1
        PROVE  idx \in NewUpdates
    <3>1. idx + 1 = j /\ idx \in 0 .. Len(unified) - 1
      BY <1>1, <2>2
    <3> QED
      BY <2>2, <3>1 DEF NewUpdates, Held
  <2> QED
    BY <2>1, <2>2
<1>3. ASSUME NEW c
      PROVE  InsertReport(c) <=>
               \E idx \in NewUpdates :
                 c = Report("INSERT", idx, Only("update", unified[idx + 1].update))
  <2>1. ASSUME NEW j \in 1 .. Len(Placed), NEW idx, idx = j - 1
        PROVE  unified[idx + 1] = Placed[j]
    <3>1. idx + 1 = j
      BY <1>1, <2>1
    <3> QED
      BY <3>1
  <2>2. ASSUME NEW j \in 1 .. Len(Placed), Held(j),
               c = Report("INSERT", j - 1, Only("update", Placed[j].update))
        PROVE  \E idx \in NewUpdates :
                 c = Report("INSERT", idx, Only("update", unified[idx + 1].update))
    <3> PICK idx : idx = j - 1
      OBVIOUS
    <3> QED
      BY <1>2, <2>1, <2>2
  <2>3. ASSUME NEW idx \in NewUpdates,
               c = Report("INSERT", idx, Only("update", unified[idx + 1].update))
        PROVE  \E j \in 1 .. Len(Placed) :
                 Held(j) /\ c = Report("INSERT", j - 1, Only("update", Placed[j].update))
    BY <1>2, <2>1, <2>3
  <2> QED
    BY <2>2, <2>3 DEF InsertReport
<1> QED
  BY <1>2, <1>3

LEMMA ReportsStep ==
  ASSUME Built, StageInv, LayoutInv, [Next]_vars
  PROVE  ReportsInv'
<1> USE DEF Later
<1>1. ReportsInv
  BY DEF LayoutInv
<1>2. CASE Build
  <2>1. stage = "build" /\ stage' = stage /\ conflicts' = conflicts
    BY <1>2 DEF Build, local
  <2> QED
    BY <1>1, <2>1 DEF ReportsInv
<1>3. CASE Sort
  <2>1. stage = "sort" /\ stage' = stage /\ conflicts' = conflicts /\ choices' = choices
    BY <1>3 DEF Sort, local, builder
  <2>2. \A c : MergeReport(c)' <=> MergeReport(c)
    BY <2>1 DEF MergeReport
  <2> QED
    BY <1>1, <2>1, <2>2 DEF ReportsInv
<1>4. CASE UNCHANGED <<builder, graph, sorter, op>>
  <2>1. \A c : /\ MergeReport(c)' <=> MergeReport(c)
               /\ ReorderReport(c)' <=> ReorderReport(c)
               /\ HeadReport(c)' <=> HeadReport(c)
               /\ InsertReport(c)' <=> InsertReport(c)
    BY <1>4, ReportsUnchanged
  <2>2. CASE RaiseTooMany
    BY <1>1, <2>1, <2>2 DEF RaiseTooMany, ReportsInv
  <2>3. CASE ReportChoices
    <3>1. stage' = "sort" /\ \A c : c \in conflicts' <=> MergeReport(c)
      BY <2>3 DEF ReportChoices, MergeReport
    <3> QED
      BY <2>1, <3>1 DEF ReportsInv
  <2>4. CASE PlaceNodes
    <3>1. /\ stage = "sort" /\ stage' = "deletes"
          /\ \A c : c \in conflicts' <=> c \in conflicts \/ ReorderReport(c)
      BY <2>4 DEF PlaceNodes, ReorderReport
    <3> QED
      BY <1>1, <2>1, <3>1 DEF ReportsInv
  <2>5. CASE ReportHeadDeletes
    <3>1. /\ stage = "deletes" /\ stage' = "inserts"
          /\ \A c : c \in conflicts' <=> c \in conflicts \/ HeadReport(c)
      BY <2>5 DEF ReportHeadDeletes, HeadReport
    <3> QED
      BY <1>1, <2>1, <3>1 DEF ReportsInv
  <2>6. CASE ReportNewUpdates
    <3>1. stage = "inserts" /\ stage' = "removals" /\ unified = Placed
      BY <2>6 DEF ReportNewUpdates, LayoutInv, LaidOutInv
    <3>2. \A c : c \in conflicts' <=> c \in conflicts \/ InsertReport(c)
      <4>1. CASE RaisesOnNewUpdate(op)
        BY <2>6, <3>1, <4>1, NewUpdatesHeld DEF ReportNewUpdates
      <4>2. CASE ~RaisesOnNewUpdate(op)
        BY <2>6, <4>2 DEF ReportNewUpdates, InsertReport, Held
      <4> QED
        BY <4>1, <4>2
    <3> QED
      BY <1>1, <2>1, <3>1, <3>2 DEF ReportsInv
  <2>7. CASE DeleteHighest \/ Finish \/ UNCHANGED vars
    <3>1. /\ conflicts' = conflicts
          /\ \/ stage' = stage
             \/ stage = "removals" /\ stage' \in {"returned", "merge_error"}
      BY <2>7 DEF DeleteHighest, Delete, Finish, vars, local
    <3> QED
      BY <1>1, <2>1, <3>1 DEF ReportsInv
  <2>8. CASE Build \/ Sort
    BY <1>2, <1>3, <2>8
  <2> QED
    BY <2>2, <2>3, <2>4, <2>5, <2>6, <2>7, <2>8, StepOfUnify
<1> QED
  BY <1>2, <1>3, <1>4, StepOfUnify

(* The list is complete before anything is removed.                        *)
LEMMA AllRemain ==
  ASSUME Built, StageInv, stage \in Later, unified = Placed, unified' = unified,
         UNCHANGED <<builder, sorter, op>>,
         \A idx : idx \in idx_to_remove' <=> \E j \in 1 .. Len(Placed) : Held(j) /\ idx = j - 1
  PROVE  unified' \in Seq(BP!TripleSet)' /\ \E f : Remaining(f)'
<1> PICK f : f = [k \in 1 .. Len(Placed) |-> k]
  OBVIOUS
<1>1. Placed \in Seq(BP!TripleSet) /\ Len(Placed) \in Nat
  BY PlacedNodes DEF Built, StageInv, Later
<1>2. BP!TripleSet' = BP!TripleSet
  BY DEF builder, BP!TripleSet, BP!Indices
<1>3. Placed' = Placed /\ \A j : Held(j)' <=> Held(j)
  BY ReportsUnchanged
<1>4. /\ f \in [1 .. Len(Placed) -> 1 .. Len(Placed)]
      /\ \A k \in 1 .. Len(Placed) : f[k] = k
  OBVIOUS
<1>5. ASSUME NEW j \in 1 .. Len(Placed)
      PROVE  (Held(j) => j - 1 \in idx_to_remove') <=> \E k \in 1 .. Len(Placed) : f[k] = j
  BY <1>4
<1>6. ASSUME NEW idx \in idx_to_remove'
      PROVE  /\ idx \in 0 .. Len(Placed) - 1 /\ idx + 1 \in 1 .. Len(Placed) /\ Held(idx + 1)
             /\ \A k \in 1 .. idx + 1 : f[k] = k
  <2>1. PICK j \in 1 .. Len(Placed) : Held(j) /\ idx = j - 1
    OBVIOUS
  <2>2. idx + 1 = j
    BY <1>1, <2>1
  <2> QED
    BY <1>1, <1>4, <2>1, <2>2
<1>7. Remaining(f)'
  BY <1>3, <1>4, <1>5, <1>6 DEF Remaining
<1> QED
  BY <1>1, <1>2, <1>7

(* Deleting the last position moves only what comes after it.              *)
LEMMA HighestDeleted ==
  ASSUME unified \in Seq(BP!TripleSet), NEW f, Remaining(f), Len(Placed) \in Nat,
         NEW idx \in idx_to_remove, \A i \in idx_to_remove : i <= idx, Delete(idx)
  PROVE  unified' \in Seq(BP!TripleSet)' /\ \E g : Remaining(g)'
<1> PICK g : g = [k \in 1 .. Len(unified) - 1 |-> IF k <= idx THEN f[k] ELSE f[k + 1]]
  OBVIOUS
<1>1. /\ UNCHANGED <<builder, sorter, op>> /\ Len(unified) \in Nat
      /\ unified' = RemoveAt(unified, idx + 1) /\ idx_to_remove' = idx_to_remove \ {idx}
  BY DEF Delete
<1>2. /\ Placed' = Placed /\ \A j : Held(j)' <=> Held(j)
  BY <1>1, ReportsUnchanged
<1>3. /\ idx \in Nat /\ idx + 1 \in 1 .. Len(unified) /\ Held(idx + 1)
      /\ idx + 1 \in 1 .. Len(Placed) /\ \A k \in 1 .. idx + 1 : f[k] = k
  BY <1>1 DEF Remaining
<1>4. /\ unified' \in Seq(BP!TripleSet) /\ Len(unified') = Len(unified) - 1
      /\ \A k \in 1 .. Len(unified) - 1 :
           unified'[k] = IF k < idx + 1 THEN unified[k] ELSE unified[k + 1]
  BY <1>1, <1>3, RemoveAtEffect
<1>5. BP!TripleSet' = BP!TripleSet
  BY <1>1 DEF builder, BP!TripleSet, BP!Indices
<1>6. /\ f \in [1 .. Len(unified) -> 1 .. Len(Placed)]
      /\ \A k, m \in 1 .. Len(unified) : k < m => f[k] < f[m]
      /\ \A k \in 1 .. Len(unified) : unified[k] = Placed[f[k]]
  BY DEF Remaining
<1>7. /\ g \in [1 .. Len(unified) - 1 -> 1 .. Len(Placed)]
      /\ \A k \in 1 .. Len(unified) - 1 : g[k] = IF k <= idx THEN f[k] ELSE f[k + 1]
  BY <1>1, <1>3, <1>6
<1>8. ASSUME NEW k \in 1 .. Len(unified) - 1, NEW m \in 1 .. Len(unified) - 1, k < m
      PROVE  g[k] < g[m]
  <2>1. /\ k \in 1 .. Len(unified) /\ k + 1 \in 1 .. Len(unified)
        /\ m \in 1 .. Len(unified) /\ m + 1 \in 1 .. Len(unified)
        /\ k < m + 1 /\ k + 1 < m + 1
    BY <1>1, <1>8
  <2>2. CASE k <= idx /\ m <= idx
    BY <1>6, <1>7, <1>8, <2>1, <2>2
  <2>3. CASE k <= idx /\ ~(m <= idx)
    BY <1>6, <1>7, <2>1, <2>3
  <2>4. CASE ~(k <= idx)
    <3>1. ~(m <= idx)
      BY <1>3, <1>8, <2>4
    <3> QED
      BY <1>6, <1>7, <2>1, <2>4, <3>1
  <2> QED
    BY <2>2, <2>3, <2>4
<1>9. ASSUME NEW k \in 1 .. Len(unified) - 1
      PROVE  unified'[k] = Placed[g[k]]
  <2>1. k \in 1 .. Len(unified) /\ k + 1 \in 1 .. Len(unified) /\ (k < idx + 1 <=> k <= idx)
    BY <1>1, <1>3
  <2>2. CASE k <= idx
    BY <1>4, <1>6, <1>7, <2>1, <2>2
  <2>3. CASE ~(k <= idx)
    BY <1>4, <1>6, <1>7, <2>1, <2>3
  <2> QED
    BY <2>2, <2>3
<1>10. ASSUME NEW j \in 1 .. Len(Placed)
       PROVE  (Held(j) => j - 1 \in idx_to_remove') <=> \E k \in 1 .. Len(unified) - 1 : g[k] = j
  <2>1. (Held(j) => j - 1 \in idx_to_remove) <=> \E k \in 1 .. Len(unified) : f[k] = j
    BY DEF Remaining
  <2>2. j - 1 = idx <=> j = idx + 1
    BY <1>3
  <2>3. (\E k \in 1 .. Len(unified) - 1 : g[k] = j)
          <=> j # idx + 1 /\ \E k \in 1 .. Len(unified) : f[k] = j
    <3>1. ASSUME NEW k \in 1 .. Len(unified) - 1, g[k] = j
          PROVE  j # idx + 1 /\ \E m \in 1 .. Len(unified) : f[m] = j
      <4>1. k \in 1 .. Len(unified) /\ k + 1 \in 1 .. Len(unified)
        BY <1>1
      <4>2. CASE k <= idx
        BY <1>3, <1>7, <3>1, <4>1, <4>2
      <4>3. CASE ~(k <= idx)
        <5>1. idx + 1 < k + 1 /\ f[idx + 1] = idx + 1
          BY <1>3, <4>3
        <5>2. f[idx + 1] < f[k + 1]
          BY <1>3, <1>6, <4>1, <5>1
        <5>3. g[k] = f[k + 1]
          BY <1>7, <4>3
        <5> QED
          BY <1>3, <3>1, <4>1, <5>1, <5>2, <5>3
      <4> QED
        BY <4>2, <4>3
    <3>2. ASSUME NEW m \in 1 .. Len(unified), f[m] = j, j # idx + 1
          PROVE  \E k \in 1 .. Len(unified) - 1 : g[k] = j
      <4>1. m # idx + 1
        BY <1>3, <3>2
      <4>2. CASE m < idx + 1
        <5>1. m \in 1 .. Len(unified) - 1 /\ m <= idx
          BY <1>1, <1>3, <4>2
        <5> QED
          BY <1>7, <3>2, <5>1
      <4>3. CASE idx + 1 < m
        <5>1. m - 1 \in 1 .. Len(unified) - 1 /\ ~(m - 1 <= idx) /\ (m - 1) + 1 = m
          BY <1>1, <1>3, <4>3
        <5>2. g[m - 1] = f[m]
          BY <1>7, <5>1
        <5> QED
          BY <3>2, <5>1, <5>2
      <4> QED
        BY <1>3, <4>1, <4>2, <4>3
    <3> QED
      BY <3>1, <3>2
  <2> QED
    BY <1>1, <1>3, <2>1, <2>2, <2>3
<1>11. ASSUME NEW i \in idx_to_remove'
       PROVE  /\ i \in 0 .. Len(unified) - 1 - 1 /\ i + 1 \in 1 .. Len(Placed) /\ Held(i + 1)
              /\ \A k \in 1 .. i + 1 : g[k] = k
  <2>1. /\ i \in idx_to_remove /\ i # idx /\ i <= idx
        /\ i \in 0 .. Len(unified) - 1 /\ i + 1 \in 1 .. Len(Placed) /\ Held(i + 1)
        /\ \A k \in 1 .. i + 1 : f[k] = k
    BY <1>1 DEF Remaining
  <2>2. i < idx /\ i \in 0 .. Len(unified) - 1 - 1
    BY <1>1, <1>3, <2>1
  <2>3. ASSUME NEW k \in 1 .. i + 1
        PROVE  g[k] = k
    <3>1. k \in 1 .. Len(unified) - 1 /\ k <= idx
      BY <1>1, <1>3, <2>1, <2>2
    <3> QED
      BY <1>7, <2>1, <3>1
  <2> QED
    BY <2>1, <2>2, <2>3
<1>12. Remaining(g)'
  BY <1>2, <1>4, <1>7, <1>8, <1>9, <1>10, <1>11 DEF Remaining
<1> QED
  BY <1>4, <1>5, <1>12

LEMMA LaidOutStep ==
  ASSUME Built, StageInv, LayoutInv, [Next]_vars
  PROVE  LaidOutInv'
<1> USE DEF Later
<1>1. LaidOutInv
  BY DEF LayoutInv
<1>2. CASE Build \/ Sort
  <2>1. /\ UNCHANGED <<stage, unified, idx_to_remove>>
        /\ stage \in {"build", "sort"}
    BY <1>2 DEF Build, Sort, local
  <2> QED
    BY <1>1, <2>1 DEF LaidOutInv
<1>3. CASE UNCHANGED <<builder, graph, sorter, op>>
  <2>1. Placed' = Placed /\ \A j : Held(j)' <=> Held(j)
    BY <1>3, ReportsUnchanged
  <2>2. BP!TripleSet' = BP!TripleSet
    BY <1>3 DEF builder, BP!TripleSet, BP!Indices
  <2>3. CASE RaiseTooMany \/ ReportChoices
    BY <1>1, <2>3 DEF RaiseTooMany, ReportChoices, LaidOutInv
  <2>4. CASE PlaceNodes
    <3>1. unified = <<>> /\ unified' = <<>> \o Placed /\ pc = "sorted" /\ stage = "sort"
      BY <1>1, <2>4 DEF PlaceNodes, LaidOutInv
    <3>2. Placed \in Seq(BP!TripleSet)
      BY <3>1, PlacedNodes DEF Built, StageInv
    <3>3. unified' = Placed
      BY <3>1, <3>2, ConcatEmptySeq
    <3> QED
      BY <1>1, <2>1, <2>4, <3>3 DEF PlaceNodes, LaidOutInv
  <2>5. CASE ReportHeadDeletes
    BY <1>1, <2>1, <2>5 DEF ReportHeadDeletes, LaidOutInv
  <2>6. CASE ReportNewUpdates
    <3>1. /\ stage = "inserts" /\ stage' = "removals" /\ unified = Placed /\ unified' = unified
          /\ idx_to_remove = {}
      BY <1>1, <2>6 DEF ReportNewUpdates, LaidOutInv
    <3>2. \A idx : idx \in idx_to_remove' <=> \E j \in 1 .. Len(Placed) : Held(j) /\ idx = j - 1
      <4>1. CASE RaisesOnNewUpdate(op)
        BY <2>6, <3>1, <4>1, NewUpdatesHeld DEF ReportNewUpdates
      <4>2. CASE ~RaisesOnNewUpdate(op)
        BY <2>6, <3>1, <4>2 DEF ReportNewUpdates, Held
      <4> QED
        BY <4>1, <4>2
    <3>3. unified' \in Seq(BP!TripleSet)' /\ \E f : Remaining(f)'
      BY <1>3, <3>1, <3>2, AllRemain
    <3> QED
      BY <3>1, <3>3 DEF LaidOutInv
  <2>7. CASE DeleteHighest
    <3>1. PICK idx \in idx_to_remove : (\A i \in idx_to_remove : i <= idx) /\ Delete(idx)
      BY <2>7 DEF DeleteHighest
    <3>2. stage = "removals" /\ stage' = stage
      BY <2>7 DEF DeleteHighest, Delete
    <3>3. Len(Placed) \in Nat
      BY <3>2, PlacedNodes DEF Built, StageInv
    <3>4. unified' \in Seq(BP!TripleSet)' /\ \E f : Remaining(f)'
      BY <1>1, <3>1, <3>2, <3>3, HighestDeleted DEF LaidOutInv
    <3> QED
      BY <3>2, <3>4 DEF LaidOutInv
  <2>8. CASE Finish \/ UNCHANGED vars
    <3>1. /\ unified' = unified /\ idx_to_remove' = idx_to_remove
          /\ \/ stage' = stage
             \/ /\ stage = "removals" /\ idx_to_remove = {}
                /\ stage' \in {"returned", "merge_error"}
      BY <2>8 DEF Finish, vars, local
    <3>2. \A f : Remaining(f)' <=> Remaining(f)
      BY <2>1, <3>1 DEF Remaining
    <3> QED
      BY <1>1, <2>1, <2>2, <3>1, <3>2 DEF LaidOutInv
  <2> QED
    BY <1>2, <2>3, <2>4, <2>5, <2>6, <2>7, <2>8, StepOfUnify
<1> QED
  BY <1>2, <1>3, StepOfUnify

LEMMA LayoutInvariant == Spec => [](Built /\ StageInv /\ LayoutInv)
<1>1. Built /\ StageInv /\ LayoutInv /\ [Next]_vars => LayoutInv'
  BY ReportsStep, LaidOutStep DEF LayoutInv
<1> QED
  BY <1>1, LayoutInit, StageInvariant, PTL DEF Spec

---------------------------------------------------------------------------
(* What unify leaves when it is over.                                      *)

Done == stage \in Later \ {"deletes", "inserts"} /\ idx_to_remove = {}

LEMMA UnifiedIsDone ==
  ASSUME LayoutInv, Unified
  PROVE  Done
BY DEF LayoutInv, LaidOutInv, Unified, Done, Later

(* The entities that are not held back are in the list, and nothing else   *)
(* is; what is reported is the reports of each kind.                       *)
LEMMA Outcome ==
  ASSUME Built, StageInv, LayoutInv, Done
  PROVE  /\ phase = "built" /\ pc = "sorted"
         /\ \A j \in 1 .. Len(Placed) : Held(j) \/ \E k \in DOMAIN unified : unified[k] = Placed[j]
         /\ \A k \in DOMAIN unified : \E j \in 1 .. Len(Placed) : ~Held(j) /\ unified[k] = Placed[j]
         /\ \A c : c \in conflicts <=>
              MergeReport(c) \/ ReorderReport(c) \/ HeadReport(c) \/ InsertReport(c)
<1>1. stage \in Later \ {"deletes", "inserts"}
  BY DEF Done, Later
<1>2. phase = "built" /\ pc = "sorted"
  BY <1>1 DEF StageInv, Later
<1>3. /\ unified \in Seq(BP!TripleSet) /\ idx_to_remove = {}
      /\ \E f : Remaining(f)
  BY <1>1 DEF LayoutInv, LaidOutInv, Done
<1>4. PICK f : Remaining(f)
  BY <1>3
<1>5. DOMAIN unified = 1 .. Len(unified)
  BY <1>3
<1>6. ASSUME NEW j \in 1 .. Len(Placed), ~Held(j)
      PROVE  \E k \in DOMAIN unified : unified[k] = Placed[j]
  BY <1>4, <1>5, <1>6 DEF Remaining
<1>7. ASSUME NEW k \in DOMAIN unified
      PROVE  \E j \in 1 .. Len(Placed) : ~Held(j) /\ unified[k] = Placed[j]
  BY <1>3, <1>4, <1>5 DEF Remaining
<1>8. \A c : c \in conflicts <=>
        MergeReport(c) \/ ReorderReport(c) \/ HeadReport(c) \/ InsertReport(c)
  BY <1>1 DEF LayoutInv, ReportsInv, Later
<1> QED
  BY <1>2, <1>6, <1>7, <1>8

LEMMA ReportFields ==
  ASSUME NEW type, NEW idx, NEW body
  PROVE  Report(type, idx, body).type = type /\ Report(type, idx, body).body = body
BY DEF Report

(* An index of one list alone stands for the object it is the index of.    *)
LEMMA OnlyMembers ==
  ASSUME NEW l \in Lists, NEW i
  PROVE  Members(Only(l, i)) = IF i = NONE THEN {} ELSE {<<l, i>>}
<1>1. \A k \in Lists : Only(l, i)[k] = IF k = l THEN i ELSE NONE
  BY DEF Only
<1> QED
  BY <1>1 DEF Members

LEMMA HeldMembers ==
  ASSUME NEW j, Held(j)
  PROVE  Members(Only("update", Placed[j].update)) = Members(Placed[j])
<1>1. Placed[j].root = NONE /\ Placed[j].head = NONE /\ Placed[j].update # NONE
  BY DEF Held, IsNewUpdate
<1>2. Members(Placed[j]) = {<<"update", Placed[j].update>>}
  BY <1>1 DEF Members, Lists
<1> QED
  BY <1>1, <1>2, OnlyMembers DEF Lists

(* Where an entity can be found.                                           *)
LEMMA WhereEntitiesAre ==
  ASSUME Built, StageInv, LayoutInv, Done, NEW x
  PROVE  /\ InUnified(x) <=> \E j \in 1 .. Len(Placed) : ~Held(j) /\ x \in Members(Placed[j])
         /\ InConflict(x, "INSERT") <=>
              \E j \in 1 .. Len(Placed) : Held(j) /\ x \in Members(Placed[j])
         /\ (\E t \in choices : x \in Members(t)) => InConflict(x, "MANUAL_MERGE")
         /\ InConflict(x, "ADD_BACK_TO_HEAD") <=>
              /\ RaisesOnHeadDelete(op)
              /\ \E i \in B!NotInResultIdx(stats["head"]) : x \in Members(Only("head", i))
<1>1. InUnified(x) <=> \E j \in 1 .. Len(Placed) : ~Held(j) /\ x \in Members(Placed[j])
  <2>1. ASSUME NEW k \in DOMAIN unified, x \in Members(unified[k])
        PROVE  \E j \in 1 .. Len(Placed) : ~Held(j) /\ x \in Members(Placed[j])
    <3>1. PICK j \in 1 .. Len(Placed) : ~Held(j) /\ unified[k] = Placed[j]
      BY Outcome
    <3> QED
      BY <2>1, <3>1
  <2>2. ASSUME NEW j \in 1 .. Len(Placed), ~Held(j), x \in Members(Placed[j])
        PROVE  \E k \in DOMAIN unified : x \in Members(unified[k])
    <3>1. PICK k \in DOMAIN unified : unified[k] = Placed[j]
      BY <2>2, Outcome
    <3> QED
      BY <2>2, <3>1
  <2> QED
    BY <2>1, <2>2 DEF InUnified
<1>2. InConflict(x, "INSERT") <=> \E j \in 1 .. Len(Placed) : Held(j) /\ x \in Members(Placed[j])
  <2>1. \A c : c \in Reported("INSERT") <=> InsertReport(c)
    BY Outcome, ReportFields DEF Reported, MergeReport, ReorderReport, HeadReport, InsertReport
  <2>2. ASSUME NEW c, InsertReport(c), x \in Members(c.body)
        PROVE  \E j \in 1 .. Len(Placed) : Held(j) /\ x \in Members(Placed[j])
    BY <2>2, ReportFields, HeldMembers DEF InsertReport
  <2>3. ASSUME NEW j \in 1 .. Len(Placed), Held(j), x \in Members(Placed[j])
        PROVE  \E c : InsertReport(c) /\ x \in Members(c.body)
    <3> PICK c : c = Report("INSERT", j - 1, Only("update", Placed[j].update))
      OBVIOUS
    <3>1. InsertReport(c) /\ c.body = Only("update", Placed[j].update)
      BY <2>3, ReportFields DEF InsertReport
    <3> QED
      BY <2>3, <3>1, HeldMembers
  <2> QED
    BY <2>1, <2>2, <2>3 DEF InConflict
<1>3. ASSUME NEW t \in choices, x \in Members(t)
      PROVE  InConflict(x, "MANUAL_MERGE")
  <2> PICK c : c = Report("MANUAL_MERGE", NONE, t)
    OBVIOUS
  <2>1. c \in conflicts /\ c.type = "MANUAL_MERGE" /\ c.body = t
    BY Outcome, ReportFields DEF MergeReport
  <2> QED
    BY <1>3, <2>1 DEF InConflict, Reported
<1>4. InConflict(x, "ADD_BACK_TO_HEAD") <=>
        /\ RaisesOnHeadDelete(op)
        /\ \E i \in B!NotInResultIdx(stats["head"]) : x \in Members(Only("head", i))
  <2>1. \A c : c \in Reported("ADD_BACK_TO_HEAD") <=> HeadReport(c)
    BY Outcome, ReportFields DEF Reported, MergeReport, ReorderReport, HeadReport, InsertReport
  <2>2. ASSUME NEW i \in B!NotInResultIdx(stats["head"]), RaisesOnHeadDelete(op),
               x \in Members(Only("head", i))
        PROVE  \E c : HeadReport(c) /\ x \in Members(c.body)
    <3> PICK c : c = Report("ADD_BACK_TO_HEAD", NONE, Only("head", i))
      OBVIOUS
    <3>1. HeadReport(c) /\ c.body = Only("head", i)
      BY <2>2, ReportFields DEF HeadReport
    <3> QED
      BY <2>2, <3>1
  <2>3. ASSUME NEW c, HeadReport(c), x \in Members(c.body)
        PROVE  /\ RaisesOnHeadDelete(op)
               /\ \E i \in B!NotInResultIdx(stats["head"]) : x \in Members(Only("head", i))
    BY <2>3, ReportFields DEF HeadReport
  <2> QED
    BY <2>1, <2>2, <2>3 DEF InConflict
<1> QED
  BY <1>1, <1>2, <1>3, <1>4

(* Nothing that is kept is lost between the graph, the sort, the layout    *)
(* and the removals: it is in the result or in a conflict.                 *)
THEOREM KeptAlwaysShown == Spec => []KeptOrShown
<1>1. Built /\ StageInv /\ LayoutInv => KeptOrShown
  <2> SUFFICES ASSUME Built, StageInv, LayoutInv, Unified, NEW l \in sources,
                      NEW i \in 0 .. len[l] - 1
               PROVE  \/ InUnified(<<l, i>>)
                      \/ InConflict(<<l, i>>, "MANUAL_MERGE") \/ InConflict(<<l, i>>, "INSERT")
    BY DEF KeptOrShown
  <2>0. Done
    BY UnifiedIsDone
  <2> DEFINE x == <<l, i>>
  <2>1. phase = "built" /\ BP!InputTypeOK /\ l \in BP!Lists
    BY <2>0, Outcome DEF Built, BP!BuilderInv, BP!TypeOK, BP!InputTypeOK, BP!SourceSets, BP!Lists
  <2>2. x \in BP!Elements /\ x \in BP!Class(x) /\ BP!Class(x) \in SUBSET BP!Elements
    <3>1. x \in BP!Elements
      BY <2>1, LengthsOfBuilder, BP!ElementsAreIndices DEF BP!InputTypeOK
    <3> QED
      BY <3>1, LengthsOfBuilder, BP!ClassIsClosure
  <2> HIDE DEF x
  <2>3. PICK t \in BP!Triples(BP!Class(x)) : x \in BP!Members(t)
    BY <2>1, <2>2, LengthsOfBuilder, BP!TriplesCover
  <2>4. t \in BP!Nodes \/ t \in choices
    BY <2>1, <2>3 DEF x, Built, BP!ResolvedInv, BP!Handled, BP!Sides
  <2>5. x \in Members(t)
    BY <2>3, InputsAgree
  <2>6. CASE t \in BP!Nodes
    <3>1. PICK j \in 1 .. Len(Placed) : Placed[j] = t
      BY <2>0, <2>6, PlacedNodes, Outcome DEF Built, StageInv, Done, Later
    <3> QED
      BY <2>0, <2>5, <3>1, WhereEntitiesAre DEF x
  <2>7. CASE t \in choices
    BY <2>0, <2>5, <2>7, WhereEntitiesAre DEF x
  <2> QED
    BY <2>4, <2>6, <2>7
<1> QED
  BY <1>1, LayoutInvariant, PTL

---------------------------------------------------------------------------
(* What the stats say when unify is over.                                  *)

(* The entities in the result are those of the nodes.                      *)
LEMMA InResult ==
  ASSUME Built, StageInv, LayoutInv, Done, NEW l \in {"head", "update"},
         NEW i \in 0 .. len[l] - 1
  PROVE  i \in stats[l].in_result_idx <=>
           \E j \in 1 .. Len(Placed) : <<l, i>> \in Members(Placed[j])
<1>1. phase = "built" /\ l \in BP!Sides /\ l \in Lists
  BY Outcome DEF BP!Sides, Lists
<1>2. stats[l].in_result_idx = {node_src_indices[n][l] : n \in BP!NodeIds} \ {BP!NONE}
  BY <1>1 DEF Built, BP!StatsInv, BP!ListedInv, BP!InNodes
<1>3. /\ \A j \in 1 .. Len(Placed) : /\ ordered[j] \in BP!NodeIds
                                     /\ Placed[j] = node_src_indices[ordered[j]]
      /\ \A n \in BP!NodeIds : \E j \in 1 .. Len(Placed) : ordered[j] = n
  BY PlacedNodes, Outcome DEF Built, StageInv, Done, Later
<1>4. \A t : <<l, i>> \in Members(t) <=> t[l] = i /\ i # NONE
  BY <1>1 DEF Members
<1>5. i \in Int /\ i # NONE
  <2>1. len[l] \in Nat
    BY <1>1 DEF Built, BP!BuilderInv, BP!TypeOK, BP!InputTypeOK, BP!Lists, Lists
  <2> QED
    BY <2>1 DEF NONE
<1> QED
  BY <1>2, <1>3, <1>4, <1>5 DEF NONE, BP!NONE

(* The one root candidate of an entity is the root match recorded for it.  *)
LEMMA RootRecorded ==
  ASSUME Built, StageInv, LayoutInv, Done, NEW l \in {"head", "update"},
         NEW i \in 0 .. len[l] - 1, NEW r
  PROVE  r \in OnlyRoot(<<l, i>>) <=> r # NONE /\ stats[l].root_matches[i] = r
<1> DEFINE roots == Hits(Class(<<l, i>>), "root")
<1>1. phase = "built" /\ l \in BP!Sides
  BY Outcome DEF BP!Sides
<1>2. BP!Handled(l, i)
  BY <1>1 DEF BP!Handled, BP!Sides
<1>3. IF \E q \in roots : roots = {q}
        THEN roots = {stats[l].root_matches[i]}
        ELSE stats[l].root_matches[i] = NONE
  <2>1. BP!Hits(BP!Class(<<l, i>>), "root") = roots /\ BP!NONE = NONE
    BY InputsAgree
  <2> QED
    BY <1>1, <1>2, <2>1 DEF Built, BP!StatsInv, BP!RootMatchesInv, BP!OneRoot
<1>4. len["root"] \in Nat
  BY DEF Built, BP!BuilderInv, BP!TypeOK, BP!InputTypeOK, BP!Lists
<1>5. IsFiniteSet(roots) /\ NONE \notin roots
  <2>1. roots \in SUBSET (0 .. len["root"] - 1)
    BY DEF Hits
  <2>2. IsFiniteSet(0 .. len["root"] - 1) /\ NONE \notin 0 .. len["root"] - 1
    BY <1>4, FS_Interval DEF NONE
  <2> HIDE DEF roots
  <2> QED
    BY <2>1, <2>2, FS_Subset
<1> HIDE DEF roots
<1>6. Cardinality(roots) = 1 <=> \E q \in roots : roots = {q}
  BY <1>5, FS_Singleton
<1>7. OnlyRoot(<<l, i>>) = IF Cardinality(roots) = 1 THEN roots ELSE {}
  BY DEF OnlyRoot, roots
<1> QED
  BY <1>3, <1>5, <1>6, <1>7

(* The head entities put up for ADD_BACK_TO_HEAD are those that the result *)
(* does not have: the stats, from which the code takes them, are right.    *)
THEOREM HeadDeletesAlwaysReported == Spec => []HeadDeletesReported
<1>1. Built /\ StageInv /\ LayoutInv => HeadDeletesReported
  <2> SUFFICES ASSUME Built, StageInv, LayoutInv, Unified, NEW i \in 0 .. len["head"] - 1
               PROVE  InConflict(<<"head", i>>, "ADD_BACK_TO_HEAD")
                        <=> RaisesOnHeadDelete(op) /\ ~InUnified(<<"head", i>>)
    BY DEF HeadDeletesReported
  <2>0. Done
    BY UnifiedIsDone
  <2>1. len["head"] \in Nat /\ i # NONE
    BY DEF Built, BP!BuilderInv, BP!TypeOK, BP!InputTypeOK, BP!Lists, NONE
  <2>2. stats["head"].lst = 0 .. len["head"] - 1
    BY DEF Built, BP!StatsInv, BP!ListedInv, BP!Sides
  <2>3. \A k : <<"head", i>> \in Members(Only("head", k)) <=> k = i
    BY <2>1, OnlyMembers DEF Lists
  <2>4. InConflict(<<"head", i>>, "ADD_BACK_TO_HEAD")
          <=> RaisesOnHeadDelete(op) /\ i \notin stats["head"].in_result_idx
    BY <2>0, <2>2, <2>3, WhereEntitiesAre DEF B!NotInResultIdx
  <2>5. \A j : <<"head", i>> \in Members(Placed[j]) => ~Held(j)
    BY <2>1 DEF Members, Held, IsNewUpdate
  <2>6. InUnified(<<"head", i>>) <=> i \in stats["head"].in_result_idx
    BY <2>0, <2>5, WhereEntitiesAre, InResult
  <2> QED
    BY <2>4, <2>6
<1> QED
  BY <1>1, LayoutInvariant, PTL

(* The stats that Merger publishes describe the layout, the entities held  *)
(* back included, and the root matches of what was left out of it.         *)
THEOREM StatsAlwaysDescribeLayout == Spec => []StatsDescribeLayout
<1>1. ASSUME Built, StageInv, LayoutInv, Done, NEW l \in {"head", "update"},
             NEW in, in = {i \in 0 .. len[l] - 1 :
                             InUnified(<<l, i>>) \/ InConflict(<<l, i>>, "INSERT")},
             NEW matched, matched = UNION {{i} \X OnlyRoot(<<l, i>>) : i \in 0 .. len[l] - 1}
      PROVE  /\ stats[l].in_result_idx = in
             /\ B!NotInResultRootMatchPairs(stats[l]) = {p \in matched : p[1] \notin in}
             /\ B!NotMatchedRootIdx(stats[l], len["root"]) =
                  (0 .. len["root"] - 1) \ {p[2] : p \in matched}
  <2>0. \A p : p \in matched <=>
          \E i \in 0 .. len[l] - 1 : \E r \in OnlyRoot(<<l, i>>) : p = <<i, r>>
    <3> DEFINE pairs(i) == {i} \X OnlyRoot(<<l, i>>)
    <3>1. matched = UNION {pairs(i) : i \in 0 .. len[l] - 1}
      BY <1>1
    <3> HIDE DEF pairs
    <3>2. \A p : p \in matched <=> \E i \in 0 .. len[l] - 1 : p \in pairs(i)
      BY <3>1
    <3>3. \A i, X, p : p \in {i} \X X <=> \E r \in X : p = <<i, r>>
      OBVIOUS
    <3> QED
      BY <3>2, <3>3 DEF pairs
  <2>1. /\ stats[l].lst = 0 .. len[l] - 1
        /\ stats[l].not_in_result_root_match_idx
             = {i \in stats[l].lst : stats[l].root_matches[i] # NONE} \ stats[l].in_result_idx
        /\ stats[l].in_result_idx \subseteq 0 .. len[l] - 1
    <3>1. l \in BP!Sides
      BY <1>1 DEF BP!Sides
    <3>2. stats[l] \in BP!StatsOf(l)
      BY <1>1, <3>1 DEF Built, BP!BuilderInv, BP!TypeOK
    <3>3. stats[l].in_result_idx \subseteq 0 .. len[l] - 1
      BY <3>2 DEF BP!StatsOf
    <3> QED
      BY <1>1, <3>1, <3>3 DEF Built, BP!StatsInv, BP!ListedInv, BP!NONE, NONE
  <2>2. stats[l].in_result_idx = in
    BY <1>1, <2>1, InResult, WhereEntitiesAre
  <2>3. \A i \in 0 .. len[l] - 1 : \A r :
          <<i, r>> \in matched <=> r # NONE /\ stats[l].root_matches[i] = r
    <3>1. ASSUME NEW i \in 0 .. len[l] - 1, NEW r
          PROVE  <<i, r>> \in matched <=> r \in OnlyRoot(<<l, i>>)
      <4>1. ASSUME NEW k \in 0 .. len[l] - 1, NEW q \in OnlyRoot(<<l, k>>), <<i, r>> = <<k, q>>
            PROVE  r \in OnlyRoot(<<l, i>>)
        <5>1. i = k /\ r = q
          BY <4>1
        <5> QED
          BY <4>1, <5>1
      <4> QED
        BY <2>0, <4>1
    <3> QED
      BY <1>1, <3>1, RootRecorded
  <2>4. \A p \in matched : \E i \in 0 .. len[l] - 1 : \E r : p = <<i, r>>
    BY <2>0
  <2>5. B!NotInResultRootMatchPairs(stats[l]) = {p \in matched : p[1] \notin in}
    <3>1. ASSUME NEW p \in B!NotInResultRootMatchPairs(stats[l])
          PROVE  p \in matched /\ p[1] \notin in
      BY <2>1, <2>2, <2>3 DEF B!NotInResultRootMatchPairs
    <3>2. ASSUME NEW p \in matched, p[1] \notin in
          PROVE  p \in B!NotInResultRootMatchPairs(stats[l])
      <4>0. PICK i \in 0 .. len[l] - 1 : \E r : p = <<i, r>>
        BY <2>4
      <4>1. PICK r : p = <<i, r>>
        BY <4>0
      <4>2. r # NONE /\ stats[l].root_matches[i] = r /\ i \notin in
        BY <2>3, <3>2, <4>1
      <4>3. i \in stats[l].not_in_result_root_match_idx
        BY <2>1, <2>2, <4>2
      <4> QED
        BY <4>1, <4>2, <4>3 DEF B!NotInResultRootMatchPairs
    <3> QED
      BY <3>1, <3>2
  <2>6. ASSUME NEW r \in 0 .. len["root"] - 1
        PROVE  (\E i \in stats[l].lst : r = stats[l].root_matches[i])
                 <=> \E p \in matched : r = p[2]
    <3>1. r # NONE
      BY <1>1 DEF Built, BP!BuilderInv, BP!TypeOK, BP!InputTypeOK, BP!Lists, NONE
    <3>2. ASSUME NEW i \in stats[l].lst, r = stats[l].root_matches[i]
          PROVE  \E p \in matched : r = p[2]
      <4>1. <<i, r>> \in matched
        BY <2>1, <2>3, <3>1, <3>2
      <4> QED
        BY <4>1
    <3>3. ASSUME NEW p \in matched, r = p[2]
          PROVE  \E i \in stats[l].lst : r = stats[l].root_matches[i]
      BY <2>1, <2>3, <2>4, <3>3
    <3> QED
      BY <3>2, <3>3
  <2>7. B!NotMatchedRootIdx(stats[l], len["root"]) =
          (0 .. len["root"] - 1) \ {p[2] : p \in matched}
    BY <2>6 DEF B!NotMatchedRootIdx
  <2> QED
    BY <2>2, <2>5, <2>7
<1>2. Built /\ StageInv /\ LayoutInv => StatsDescribeLayout
  BY <1>1, UnifiedIsDone DEF StatsDescribeLayout
<1> QED
  BY <1>2, LayoutInvariant, PTL

---------------------------------------------------------------------------
(* unify implements UnifierPromise.                                        *)

LEMMA PromiseAgrees ==
  /\ P!Lists = Lists /\ P!NONE = NONE
  /\ P!Elements = BP!Elements
  /\ \A x : P!Class(x) = BP!Class(x)
  /\ \A X : P!Triples(X) = BP!Triples(X)
  /\ \A X : P!Unambiguous(X) <=> BP!Unambiguous(X)
BY DEF P!Lists, P!NONE, P!Elements, P!Class, P!Closed, P!Matched, P!Triples, P!Candidates, P!Hits,
       P!Unambiguous, BP!Lists, BP!NONE, BP!Elements, BP!Class, BP!Closed, BP!Matched, BP!Triples,
       BP!Candidates, BP!Hits, BP!Unambiguous, Lists, NONE

(* The nodes and the choices of the builder are those of the layouts.      *)
LEMMA PromisedNodes ==
  ASSUME Built, phase = "built"
  PROVE  P!Nodes = BP!Nodes /\ P!Ambiguous = choices
<1>1. ASSUME NEW t
      PROVE  /\ t \in P!Nodes <=> \E x \in BP!KeptElements :
                  BP!Unambiguous(BP!Class(x)) /\ t \in BP!Triples(BP!Class(x))
             /\ t \in P!Ambiguous <=> \E x \in BP!KeptElements :
                  ~BP!Unambiguous(BP!Class(x)) /\ t \in BP!Triples(BP!Class(x))
  <2>1. \A X : X \in P!Classes <=> \E x \in BP!KeptElements : X = BP!Class(x)
    BY PromiseAgrees DEF P!Classes, BP!KeptElements
  <2> QED
    BY <2>1, PromiseAgrees DEF P!Nodes, P!Ambiguous
<1>2. ASSUME NEW t
      PROVE  /\ t \in BP!Nodes <=> \E x \in BP!KeptElements :
                  BP!Unambiguous(BP!Class(x)) /\ t \in BP!Triples(BP!Class(x))
             /\ t \in choices <=> \E x \in BP!KeptElements :
                  ~BP!Unambiguous(BP!Class(x)) /\ t \in BP!Triples(BP!Class(x))
  <2>1. phase \notin BP!Sides
    BY DEF BP!Sides
  <2> QED
    BY <2>1, LengthsOfBuilder, BP!ResolvedExactly DEF Built
<1> QED
  BY <1>1, <1>2

(* One node precedes another on a side of the graph if it has the lesser   *)
(* index there.                                                            *)
LEMMA SideOrder ==
  ASSUME Built, phase = "built", SP!GraphInv, NEW l \in SP!Sides,
         NEW m \in BP!NodeIds, NEW n \in BP!NodeIds
  PROVE  SP!Precedes(l, m, n) <=>
           /\ l \in sources
           /\ node_src_indices[m][l] # NONE /\ node_src_indices[n][l] # NONE
           /\ node_src_indices[m][l] < node_src_indices[n][l]
<1>1. PICK c : BP!IsChain(c, l)
  BY LengthsOfBuilder, BP!ChainBuilt DEF Built, SP!Sides, BP!Sides
<1>2. SP!Follows(c, l)
  BY <1>1, ChainFollows DEF Built
<1>3. c = SP!ChainOf(l)
  BY <1>2, NodesAssumption, SP!OneChain
<1>4. m \in SP!Nodes /\ n \in SP!Nodes
  BY BuiltNodes DEF Built
<1>5. SP!Precedes(l, m, n) <=>
        \E j \in 1 .. Len(c) : \E i \in 1 .. j - 1 : c[i] = m /\ c[j] = n
  <2>1. \A a, b \in SP!Nodes :
          SP!Precedes(l, a, b) <=>
            \E j \in 1 .. Len(c) : \E i \in 1 .. j - 1 : c[i] = a /\ c[j] = b
    BY <1>3, NodesAssumption, SP!ReferenceChain
  <2> QED
    BY <1>4, <2>1
<1>6. /\ Len(c) \in Nat
      /\ \A i, j \in 1 .. Len(c) : i < j => node_src_indices[c[i]][l] < node_src_indices[c[j]][l]
      /\ \A a \in BP!NodeIds : BP!OnSide(a, l) <=> \E i \in 1 .. Len(c) : c[i] = a
  <2>1. c \in Seq(BP!NodeIds)
    BY <1>1 DEF BP!IsChain
  <2>2. Len(c) \in Nat
    BY ONLY <2>1
  <2> QED
    BY ONLY <1>1, <2>2 DEF BP!IsChain
<1>7. \A a \in BP!NodeIds : BP!OnSide(a, l) => node_src_indices[a][l] \in Int
  <2>1. BP!InputTypeOK /\ l \in BP!Lists /\ len[l] \in Nat
    BY DEF Built, BP!BuilderInv, BP!TypeOK, BP!InputTypeOK, SP!Sides, BP!Lists
  <2>2. \A a \in BP!NodeIds : node_src_indices[a][l] \in BP!Indices(l)
    BY <2>1, LengthsOfBuilder, BP!NodeType DEF Built, BP!BuilderInv
  <2> QED
    BY <2>1, <2>2 DEF BP!Indices, BP!NONE
<1>8. ASSUME SP!Precedes(l, m, n)
      PROVE  /\ BP!OnSide(m, l) /\ BP!OnSide(n, l)
             /\ node_src_indices[m][l] < node_src_indices[n][l]
  <2>1. PICK j \in 1 .. Len(c) : \E i \in 1 .. j - 1 : c[i] = m /\ c[j] = n
    BY <1>5, <1>8
  <2>2. PICK i \in 1 .. j - 1 : c[i] = m /\ c[j] = n
    BY <2>1
  <2>3. i \in 1 .. Len(c) /\ i < j
    BY <1>6
  <2> QED
    BY <1>6, <2>2, <2>3
<1>9. ASSUME BP!OnSide(m, l), BP!OnSide(n, l), node_src_indices[m][l] < node_src_indices[n][l]
      PROVE  SP!Precedes(l, m, n)
  <2>1. PICK i \in 1 .. Len(c) : c[i] = m
    BY <1>6, <1>9
  <2>2. PICK j \in 1 .. Len(c) : c[j] = n
    BY <1>6, <1>9
  <2>3. node_src_indices[m][l] \in Int /\ node_src_indices[n][l] \in Int
    BY <1>7, <1>9
  <2>4. i # j /\ ~(j < i)
    BY <1>6, <1>9, <2>1, <2>2, <2>3
  <2>5. i \in 1 .. j - 1
    BY <1>6, <2>4
  <2> QED
    BY <1>5, <2>1, <2>2, <2>5
<1> QED
  BY <1>8, <1>9 DEF BP!OnSide, BP!NONE, NONE

LEMMA PlacedOrder ==
  ASSUME Built, StageInv, stage \in Later, NEW i \in 1 .. Len(Placed), NEW j \in 1 .. Len(Placed)
  PROVE  P!Precedes(Placed[i], Placed[j]) <=>
           \E l \in SP!Sides : SP!Precedes(l, ordered[i], ordered[j])
<1>1. /\ phase = "built" /\ pc = "sorted" /\ SP!SortInv /\ SP!GraphInv
      /\ BP!BuilderInv /\ BP!MadeOfKept
  BY DEF StageInv, Later, SP!SortInv, Built
<1>2. /\ ordered[i] \in BP!NodeIds /\ ordered[j] \in BP!NodeIds
      /\ Placed[i] = node_src_indices[ordered[i]] /\ Placed[j] = node_src_indices[ordered[j]]
  BY <1>1, PlacedNodes
<1>3. sources \subseteq SP!Sides
  BY <1>1 DEF BP!BuilderInv, BP!TypeOK, BP!InputTypeOK, BP!SourceSets, SP!Sides
<1> QED
  BY <1>1, <1>2, <1>3, SideOrder, PromiseAgrees DEF P!Precedes

(* There is an order that respects the lists exactly when toposort finds   *)
(* one.                                                                    *)
LEMMA OrderableMeans ==
  ASSUME Built, StageInv, stage \in Later
  PROVE  /\ P!Orderable(P!ToSet(Placed)) <=> ~cyclic
         /\ ~cyclic => P!Respectful(Placed)
<1>1. phase = "built" /\ pc = "sorted" /\ SP!SortInv
  BY DEF StageInv, Later
<1>2. /\ Placed \in Seq(BP!TripleSet) /\ Len(Placed) \in Nat /\ DOMAIN Placed = 1 .. Len(Placed)
      /\ Len(ordered) = Len(Placed)
      /\ \A j \in 1 .. Len(Placed) : ordered[j] \in BP!NodeIds
      /\ \A n \in BP!NodeIds : \E j \in 1 .. Len(Placed) : ordered[j] = n
  BY <1>1, PlacedNodes DEF Built
<1>3. \A i, j \in 1 .. Len(Placed) : ordered[i] = ordered[j] => i = j
  BY <1>1, <1>2, NodesAssumption, SP!SortedComplete DEF SP!Distinct
<1>4. BP!NodeIds = SP!Nodes \ {SP!FIRST}
  BY <1>1, BuiltNodes DEF Built
<1>5. P!ToSet(Placed) = {Placed[j] : j \in 1 .. Len(Placed)}
  BY <1>2 DEF P!ToSet
<1>6. ASSUME ~cyclic, NEW i \in 1 .. Len(Placed), NEW j \in 1 .. Len(Placed),
             P!Precedes(Placed[i], Placed[j])
      PROVE  i < j
  <2>1. PICK l \in SP!Sides : SP!Precedes(l, ordered[i], ordered[j])
    BY <1>6, PlacedOrder
  <2>2. ordered[i] \in SP!Nodes /\ ordered[j] \in SP!Nodes
    BY <1>2, <1>4
  <2>3. SP!OutputBefore(ordered[i], ordered[j])
    BY <1>1, <1>6, <2>1, <2>2, NodesAssumption, SP!OutputKeepsOrder
  <2>4. PICK b \in 1 .. Len(Placed) : \E a \in 1 .. b - 1 : ordered[a] = ordered[i] /\ ordered[b] = ordered[j]
    BY <1>2, <2>3 DEF SP!OutputBefore
  <2>5. PICK a \in 1 .. b - 1 : ordered[a] = ordered[i] /\ ordered[b] = ordered[j]
    BY <2>4
  <2>6. a \in 1 .. Len(Placed)
    BY <1>2
  <2>7. a = i /\ b = j
    BY <1>3, <2>5, <2>6
  <2> QED
    BY <1>2, <2>7
<1>7. ~cyclic => P!Respectful(Placed)
  <2> SUFFICES ASSUME ~cyclic, NEW j \in 1 .. Len(Placed), NEW k \in 1 .. Len(Placed), j < k,
                      P!Precedes(Placed[k], Placed[j])
               PROVE  FALSE
    BY <1>2 DEF P!Respectful
  <2>1. k < j
    BY <1>6
  <2> QED
    BY <1>2, <2>1
<1>8. ASSUME ~cyclic
      PROVE  P!Orderable(P!ToSet(Placed))
  <2> SUFFICES ASSUME NEW X \in SUBSET P!ToSet(Placed), X # {}
               PROVE  \E v \in X : \A t \in X : ~P!Precedes(t, v)
    BY DEF P!Orderable
  <2> DEFINE places == {j \in 1 .. Len(Placed) : Placed[j] \in X}
  <2>1. places \in SUBSET Nat /\ places # {}
    BY <1>2, <1>5
  <2>2. PICK j \in places : \A k \in places : j <= k
    BY <2>1, NodesAssumption, SP!Least
  <2>3. ASSUME NEW t \in X, P!Precedes(t, Placed[j])
        PROVE  FALSE
    <3>1. PICK k \in places : t = Placed[k]
      BY <1>5
    <3>2. k < j /\ j <= k
      BY <1>6, <1>8, <2>2, <2>3, <3>1
    <3> QED
      BY <1>2, <3>2
  <2> QED
    BY <2>3
<1>9. ASSUME cyclic
      PROVE  ~P!Orderable(P!ToSet(Placed))
  <2>1. PICK m \in SP!Nodes, n \in SP!Nodes : SP!Precedes("head", m, n) /\ SP!Precedes("update", n, m)
    BY <1>1, <1>9, NodesAssumption, SP!CyclicMeansReordered DEF SP!CyclicIffReordered
  <2>2. m # SP!FIRST /\ n # SP!FIRST
    <3>1. ASSUME NEW l \in SP!Sides, NEW a \in SP!Nodes, NEW b \in SP!Nodes, SP!Precedes(l, a, b)
          PROVE  a # SP!FIRST /\ b # SP!FIRST
      <4> DEFINE c == SP!ChainOf(l)
      <4>1. SP!GraphInv
        BY <1>1 DEF SP!SortInv
      <4>2. Len(c) \in Nat /\ \A k \in 1 .. Len(c) : c[k] # SP!FIRST
        BY <4>1, NodesAssumption, SP!ChainFacts
      <4>3. \A x, y \in SP!Nodes :
              SP!Precedes(l, x, y) <=>
                \E j \in 1 .. Len(c) : \E i \in 1 .. j - 1 : c[i] = x /\ c[j] = y
        BY <4>1, NodesAssumption, SP!ReferenceChain
      <4> HIDE DEF c
      <4>4. \E j \in 1 .. Len(c) : \E i \in 1 .. j - 1 : c[i] = a /\ c[j] = b
        BY <3>1, <4>3
      <4> QED
        BY <4>2, <4>4
    <3> QED
      BY <2>1, <3>1 DEF SP!Sides
  <2>3. PICK i \in 1 .. Len(Placed) : ordered[i] = m
    BY <1>2, <1>4, <2>2
  <2>4. PICK j \in 1 .. Len(Placed) : ordered[j] = n
    BY <1>2, <1>4, <2>2
  <2>5. P!Precedes(Placed[i], Placed[j]) /\ P!Precedes(Placed[j], Placed[i])
    BY <2>1, <2>3, <2>4, PlacedOrder DEF SP!Sides
  <2>6. {Placed[i], Placed[j]} \in (SUBSET P!ToSet(Placed)) \ {{}}
    BY <1>5
  <2> QED
    BY <2>5, <2>6 DEF P!Orderable
<1> QED
  BY <1>7, <1>8, <1>9, <1>1 DEF SP!SortInv, SP!SortType

(* The k-th of some places is where an increasing list of them has the     *)
(* k-th.                                                                   *)
LEMMA Ranks ==
  ASSUME NEW n \in Nat, NEW places \in SUBSET Nat, NEW f \in [1 .. n -> places],
         \A k, m \in 1 .. n : k < m => f[k] < f[m],
         \A i \in places : \E k \in 1 .. n : f[k] = i
  PROVE  /\ Cardinality(places) = n
         /\ \A k \in 1 .. n : \A i \in places :
              Cardinality({j \in places : j <= i}) = k <=> i = f[k]
<1>1. \A k, m \in 1 .. n : f[k] <= f[m] <=> k <= m
  <2> SUFFICES ASSUME NEW k \in 1 .. n, NEW m \in 1 .. n
               PROVE  f[k] <= f[m] <=> k <= m
    OBVIOUS
  <2>1. f[k] \in Nat /\ f[m] \in Nat
    OBVIOUS
  <2>2. k < m \/ k = m \/ m < k
    OBVIOUS
  <2> QED
    BY <2>1, <2>2
<1>2. \A k, m \in 1 .. n : f[k] = f[m] => k = m
  <2> SUFFICES ASSUME NEW k \in 1 .. n, NEW m \in 1 .. n, f[k] = f[m]
               PROVE  k = m
    OBVIOUS
  <2>1. f[k] \in Nat /\ f[m] \in Nat
    OBVIOUS
  <2> QED
    BY <1>1, <2>1
<1>3. ASSUME NEW m \in 0 .. n, NEW X,
             \A i : i \in X <=> \E k \in 1 .. m : f[k] = i
      PROVE  Cardinality(X) = m
  <2> DEFINE g == [k \in 1 .. m |-> f[k]]
  <2>1. m \in Nat /\ \A k \in 1 .. m : k \in 1 .. n
    OBVIOUS
  <2>2. g \in [1 .. m -> X] /\ \A k \in 1 .. m : g[k] = f[k]
    BY <1>3, <2>1
  <2> HIDE DEF g
  <2>3. g \in Bijection(1 .. m, X)
    BY <1>2, <1>3, <2>1, <2>2 DEF Bijection, Injection, Surjection, IsInjective
  <2>4. ExistsBijection(1 .. m, X)
    BY <2>3 DEF ExistsBijection
  <2> QED
    BY <2>1, <2>4, FS_CountingElements
<1>4. Cardinality(places) = n
  <2>1. n \in 0 .. n
    OBVIOUS
  <2>2. \A i \in places : \E k \in 1 .. n : f[k] = i
    OBVIOUS
  <2>3. \A k \in 1 .. n : f[k] \in places
    OBVIOUS
  <2>4. \A i : i \in places <=> \E k \in 1 .. n : f[k] = i
    BY <2>2, <2>3
  <2> QED
    BY <1>3, <2>1, <2>4
<1>5. ASSUME NEW m \in 1 .. n
      PROVE  Cardinality({j \in places : j <= f[m]}) = m
  <2> DEFINE X == {j \in places : j <= f[m]}
  <2>1. m \in 0 .. n /\ \A k \in 1 .. m : k \in 1 .. n /\ k <= m
    OBVIOUS
  <2>2. ASSUME NEW i \in X PROVE \E k \in 1 .. m : f[k] = i
    <3>1. PICK k \in 1 .. n : f[k] = i
      OBVIOUS
    <3>2. k <= m
      BY <1>1, <3>1
    <3> QED
      BY <3>1, <3>2
  <2>3. ASSUME NEW k \in 1 .. m PROVE f[k] \in X
    BY <1>1, <2>1
  <2> HIDE DEF X
  <2>4. Cardinality(X) = m
    BY <1>3, <2>1, <2>2, <2>3
  <2> QED
    BY <2>4 DEF X
<1>6. ASSUME NEW k \in 1 .. n, NEW i \in places
      PROVE  Cardinality({j \in places : j <= i}) = k <=> i = f[k]
  <2>1. PICK m \in 1 .. n : f[m] = i
    OBVIOUS
  <2>2. Cardinality({j \in places : j <= i}) = m
    BY <1>5, <2>1
  <2> QED
    BY <1>2, <2>1, <2>2
<1> QED
  BY <1>4, <1>6

(* What is left of the list is what LaidOut leaves of it.                  *)
LEMMA LaidOutMeans ==
  ASSUME Built, StageInv, LayoutInv, Done
  PROVE  unified = P!LaidOut(Placed)
<1> DEFINE kept == P!KeptPlaces(Placed)
<1>1. /\ stage \in Later \ {"deletes", "inserts"} /\ idx_to_remove = {}
      /\ phase = "built" /\ pc = "sorted"
  BY Outcome DEF Done
<1>2. /\ unified \in Seq(BP!TripleSet) /\ \E f : Remaining(f)
      /\ Placed \in Seq(BP!TripleSet)
  <2>1. unified \in Seq(BP!TripleSet) /\ \E f : Remaining(f)
    BY <1>1 DEF LayoutInv, LaidOutInv
  <2> QED
    BY <1>1, <2>1, PlacedNodes DEF Built, StageInv
<1>3. PICK f : Remaining(f)
  BY <1>2
<1>4. /\ Len(Placed) \in Nat /\ DOMAIN Placed = 1 .. Len(Placed)
      /\ Len(unified) \in Nat /\ DOMAIN unified = 1 .. Len(unified)
  BY <1>2
<1>5. \A j : j \in kept <=> j \in 1 .. Len(Placed) /\ ~Held(j)
  BY <1>4 DEF P!KeptPlaces, P!RaisesOnNewUpdate, RaisesOnNewUpdate, P!IsNewUpdate, IsNewUpdate,
              P!NONE, NONE, Held
<1> HIDE DEF kept
<1>6. /\ f \in [1 .. Len(unified) -> kept]
      /\ \A k, m \in 1 .. Len(unified) : k < m => f[k] < f[m]
      /\ \A i \in kept : \E k \in 1 .. Len(unified) : f[k] = i
      /\ \A k \in 1 .. Len(unified) : unified[k] = Placed[f[k]]
  <2>1. /\ f \in [1 .. Len(unified) -> 1 .. Len(Placed)]
        /\ \A j \in 1 .. Len(Placed) :
             (Held(j) => j - 1 \in idx_to_remove) <=> \E k \in 1 .. Len(unified) : f[k] = j
    BY <1>3 DEF Remaining
  <2>2. \A k \in 1 .. Len(unified) : f[k] \in kept
    BY <1>1, <1>5, <2>1
  <2>3. \A i \in kept : \E k \in 1 .. Len(unified) : f[k] = i
    BY <1>5, <2>1
  <2>4. f \in [1 .. Len(unified) -> kept]
    BY <2>1, <2>2
  <2> QED
    BY <1>3, <2>3, <2>4 DEF Remaining
<1>7. kept \in SUBSET Nat
  BY <1>4, <1>5
<1>8. /\ Cardinality(kept) = Len(unified)
      /\ \A k \in 1 .. Len(unified) : \A i \in kept :
           Cardinality({j \in kept : j <= i}) = k <=> i = f[k]
  BY <1>4, <1>6, <1>7, Ranks
<1>9. \A X : P!Cardinality(X) = Cardinality(X)
  BY DEF P!Cardinality, Cardinality
<1>10. ASSUME NEW k \in 1 .. Len(unified)
       PROVE  P!Nth(kept, k) = f[k]
  <2>1. f[k] \in kept
    BY <1>6
  <2>2. \A i \in kept : P!Cardinality({j \in kept : j <= i}) = k <=> i = f[k]
    BY <1>8, <1>9
  <2> QED
    BY <2>1, <2>2 DEF P!Nth
<1>11. P!LaidOut(Placed) = [k \in 1 .. Len(unified) |-> Placed[P!Nth(kept, k)]]
  BY <1>8, <1>9 DEF P!LaidOut, kept
<1>12. \A k \in 1 .. Len(unified) : P!LaidOut(Placed)[k] = unified[k]
  BY <1>6, <1>10, <1>11
<1> QED
  BY <1>2, <1>4, <1>11, <1>12

(* What is held back is shown as the triple it is.                         *)
LEMMA HeldBody ==
  ASSUME NEW t \in BP!TripleSet, IsNewUpdate(t)
  PROVE  Only("update", t.update) = t
<1>1. t = [root |-> t.root, head |-> t.head, update |-> t.update]
  BY DEF BP!TripleSet
<1>2. t.root = NONE /\ t.head = NONE
  BY DEF IsNewUpdate
<1>3. Only("update", t.update) = [k \in Lists |-> IF k = "update" THEN t.update ELSE NONE]
  BY DEF Only
<1>4. t = [k \in Lists |-> IF k = "update" THEN t.update ELSE NONE]
  BY <1>1, <1>2 DEF Lists
<1> QED
  BY <1>3, <1>4

LEMMA ReportsMean ==
  ASSUME Built, StageInv, LayoutInv, Done
  PROVE  conflicts = P!ConflictsOf(Placed)
<1>1. /\ phase = "built" /\ pc = "sorted" /\ stage \in Later
      /\ \A c : c \in conflicts <=>
           MergeReport(c) \/ ReorderReport(c) \/ HeadReport(c) \/ InsertReport(c)
  BY Outcome DEF Done
<1>2. /\ Placed \in Seq(BP!TripleSet) /\ Len(Placed) \in Nat /\ DOMAIN Placed = 1 .. Len(Placed)
      /\ \A t : t \in BP!Nodes <=> \E j \in 1 .. Len(Placed) : Placed[j] = t
  BY <1>1, PlacedNodes DEF Built, StageInv
<1>3. /\ \A type, idx, body : P!Report(type, idx, body) = Report(type, idx, body)
      /\ \A l, i : P!Only(l, i) = Only(l, i)
      /\ P!Nothing = Nothing /\ P!NONE = NONE
      /\ \A o : /\ P!RaisesOnHeadDelete(o) <=> RaisesOnHeadDelete(o)
                /\ P!RaisesOnNewUpdate(o) <=> RaisesOnNewUpdate(o)
      /\ \A t : P!IsNewUpdate(t) <=> IsNewUpdate(t)
  BY DEF P!Report, Report, P!Only, Only, P!Nothing, Nothing, P!Lists, Lists, P!NONE, NONE,
         P!RaisesOnHeadDelete, RaisesOnHeadDelete, P!RaisesOnNewUpdate, RaisesOnNewUpdate,
         P!IsNewUpdate, IsNewUpdate
<1>4. \A c : c \in {P!Report("MANUAL_MERGE", P!NONE, t) : t \in P!Ambiguous} <=> MergeReport(c)
  BY <1>1, <1>3, PromisedNodes DEF MergeReport
<1>5. \A c : c \in {d \in {P!Report("REORDER", P!NONE, P!Nothing)} : ~P!Orderable(P!ToSet(Placed))}
               <=> ReorderReport(c)
  <2>1. cyclic \in BOOLEAN
    BY <1>1 DEF StageInv, SP!SortInv, SP!SortType
  <2> QED
    BY <1>1, <1>3, <2>1, OrderableMeans DEF ReorderReport
<1>6. \A c : c \in {P!Report("ADD_BACK_TO_HEAD", P!NONE, P!Only("head", i)) :
                      i \in {j \in P!LostFromHead(Placed) : P!RaisesOnHeadDelete(op)}}
               <=> HeadReport(c)
  <2>1. ASSUME NEW i
        PROVE  i \in P!LostFromHead(Placed) <=> i \in B!NotInResultIdx(stats["head"])
    <3>1. stats["head"].lst = 0 .. len["head"] - 1 /\ len["head"] \in Nat
      BY <1>1 DEF Built, BP!StatsInv, BP!ListedInv, BP!Sides, BP!BuilderInv, BP!TypeOK,
                  BP!InputTypeOK, BP!Lists
    <3>2. CASE i \in 0 .. len["head"] - 1
      <4>1. i # NONE
        BY <3>1, <3>2 DEF NONE
      <4>2. \A t : <<"head", i>> \in Members(t) <=> t.head = i
        BY <4>1 DEF Members, Lists
      <4>3. i \in stats["head"].in_result_idx <=> \E j \in 1 .. Len(Placed) : Placed[j].head = i
        BY <3>2, <4>2, InResult
      <4> QED
        BY <1>2, <3>1, <3>2, <4>3 DEF P!LostFromHead, B!NotInResultIdx
    <3>3. CASE i \notin 0 .. len["head"] - 1
      BY <3>1, <3>3 DEF P!LostFromHead, B!NotInResultIdx
    <3> QED
      BY <3>2, <3>3
  <2> QED
    BY <1>3, <2>1 DEF HeadReport
<1>7. \A c : c \in {P!Report("INSERT", k - 1, Placed[k]) :
                      k \in {j \in DOMAIN Placed : P!RaisesOnNewUpdate(op) /\ P!IsNewUpdate(Placed[j])}}
               <=> InsertReport(c)
  <2>1. \A j \in 1 .. Len(Placed) : Held(j) => Only("update", Placed[j].update) = Placed[j]
    BY <1>2, HeldBody DEF Held
  <2> QED
    BY <1>2, <1>3, <2>1 DEF InsertReport, Held
<1>8. \A c : c \in P!ConflictsOf(Placed) <=>
        MergeReport(c) \/ ReorderReport(c) \/ HeadReport(c) \/ InsertReport(c)
  BY <1>4, <1>5, <1>6, <1>7 DEF P!ConflictsOf
<1> QED
  BY <1>1, <1>8

LEMMA OrderMeans ==
  ASSUME Built, StageInv, stage \in Later
  PROVE  P!IsOrder(Placed)
<1>1. phase = "built" /\ pc = "sorted"
  BY DEF StageInv, Later
<1>2. /\ Placed \in Seq(BP!TripleSet) /\ DOMAIN Placed = 1 .. Len(Placed)
      /\ \A t : t \in BP!Nodes <=> \E j \in 1 .. Len(Placed) : Placed[j] = t
      /\ \A i, j \in 1 .. Len(Placed) : Placed[i] = Placed[j] => i = j
  BY <1>1, PlacedNodes DEF Built, StageInv, Later
<1>3. P!ToSet(Placed) = P!Nodes
  BY <1>1, <1>2, PromisedNodes DEF P!ToSet
<1>4. P!IsInjective(Placed)
  BY <1>2 DEF P!IsInjective
<1>5. P!Orderable(P!ToSet(Placed)) => P!Respectful(Placed)
  BY OrderableMeans
<1> QED
  BY <1>3, <1>4, <1>5 DEF P!IsOrder

(* unify gives up for too many choices, or returns one of the layouts that *)
(* ListLayout allows with the conflicts that belong to it, whatever the    *)
(* matches, the order the search takes and the order of the removals.      *)
THEOREM UnifyImplementsPromise == Spec => ImplementsPromise
<1> DEFINE outcome == IF Unified \/ stage = "too_many" THEN stage ELSE "running"
           placed  == IF Unified THEN Placed ELSE <<>>
           list    == IF Unified THEN unified ELSE <<>>
           reports == IF Unified THEN conflicts ELSE {}
<1>1. Init => P!Init
  BY OpsAssumption
     DEF Init, P!Init, P!result, B!Init, B!InputInit, P!InputInit, B!ComparedPairs, P!ComparedPairs,
         B!Elements, P!Elements, B!Lists, P!Lists, B!Comparators, P!Comparators, B!SourceSets,
         P!SourceSets, P!OpSources, OpSources, Unified
<1>2. ASSUME Built, StageInv, LayoutInv, [Next]_vars
      PROVE  [P!Next]_(<<P!inputs, op, limit, P!result>>)
  <2>0. UNCHANGED <<P!inputs, op, limit>>
    <3>1. CASE Build
      BY <3>1, BuildAgrees
         DEF Build, BP!BuildGraph, BP!StartSearch, BP!Expand, BP!FinishSearch, BP!EndLoop,
             BP!AddStats, BP!LinkNodes, BP!inputs, P!inputs, local
    <3>2. CASE ~Build
      BY <1>2, <3>2 DEF Next, Unify, Over, RaiseTooMany, ReportChoices, Sort, PlaceNodes,
                  ReportHeadDeletes, ReportNewUpdates, DeleteHighest, Delete, Finish, vars, local,
                  builder, P!inputs
    <3> QED
      BY <3>1, <3>2
  <2>1. CASE Finish
    <3>1. /\ stage = "removals" /\ idx_to_remove = {}
          /\ stage' = IF conflicts = {} THEN "returned" ELSE "merge_error"
          /\ unified' = unified /\ conflicts' = conflicts
          /\ UNCHANGED <<builder, sorter, op>>
      BY <2>1 DEF Finish
    <3>2. Done /\ stage \in Later
      BY <3>1 DEF Done, Later
    <3>3. Placed' = Placed
      BY <3>1, ReportsUnchanged
    <3>4. /\ outcome = "running" /\ ~Unified
          /\ outcome' \in {"returned", "merge_error"} /\ (outcome' = "returned" <=> reports' = {})
          /\ placed' = Placed /\ list' = unified /\ reports' = conflicts
      BY <3>1, <3>3 DEF Unified
    <3>5. ~P!TooManyChoices
      <4>1. P!Ambiguous = choices /\ ~TooManyChoices
        BY <1>2, <3>2, PromisedNodes DEF StageInv, Later
      <4> QED
        BY <4>1 DEF P!TooManyChoices, TooManyChoices, P!Cardinality, Cardinality
    <3>6. unified = P!LaidOut(Placed) /\ conflicts = P!ConflictsOf(Placed) /\ P!IsOrder(Placed)
      BY <1>2, <3>2, LaidOutMeans, ReportsMean, OrderMeans
    <3>7. P!Return
      BY <2>0, <3>4, <3>5, <3>6 DEF P!Return, P!inputs
    <3> QED
      BY <3>7 DEF P!Next
  <2>2. CASE RaiseTooMany
    <3>1. /\ stage = "build" /\ phase = "built" /\ TooManyChoices /\ stage' = "too_many"
      BY <2>2 DEF RaiseTooMany
    <3>2. P!TooManyChoices
      BY <1>2, <3>1, PromisedNodes DEF P!TooManyChoices, TooManyChoices, P!Cardinality, Cardinality
    <3>3. /\ outcome = "running" /\ outcome' = "too_many"
          /\ placed' = placed /\ list' = list /\ reports' = reports
      BY <3>1 DEF Unified
    <3>4. P!GiveUp
      BY <2>0, <3>2, <3>3 DEF P!GiveUp, P!inputs
    <3> QED
      BY <3>4 DEF P!Next
  <2>3. CASE Build \/ ReportChoices \/ Sort \/ PlaceNodes \/ ReportHeadDeletes
             \/ ReportNewUpdates \/ DeleteHighest
    <3>1. /\ stage \notin {"returned", "merge_error", "too_many"}
          /\ stage' \notin {"returned", "merge_error", "too_many"}
      BY <2>3 DEF Build, ReportChoices, Sort, PlaceNodes, ReportHeadDeletes, ReportNewUpdates,
                  DeleteHighest, Delete, local
    <3>2. /\ outcome' = outcome /\ placed' = placed /\ list' = list /\ reports' = reports
      BY <3>1 DEF Unified
    <3> QED
      BY <2>0, <3>2 DEF P!result
  <2>4. CASE UNCHANGED vars
    <3>1. Placed' = Placed
      BY <2>4, ReportsUnchanged DEF vars, local
    <3>2. /\ outcome' = outcome /\ placed' = placed /\ list' = list /\ reports' = reports
      BY <2>4, <3>1 DEF Unified, vars, local
    <3> QED
      BY <2>0, <3>2 DEF P!result
  <2> QED
    BY <1>2, <2>1, <2>2, <2>3, <2>4 DEF Next, Unify, Over
<1> QED
  BY <1>1, <1>2, LayoutInvariant, PTL DEF Spec, ImplementsPromise, P!Spec

---------------------------------------------------------------------------
(* Putting back what the INSERT conflicts hold.                            *)

LEMMA PlacedWhenDone ==
  ASSUME Built, StageInv, LayoutInv, Done
  PROVE  Placed \in Seq(BP!TripleSet) /\ Len(Placed) \in Nat
<1>1. phase = "built" /\ pc = "sorted" /\ stage \in Later
  BY Outcome DEF Done
<1> QED
  BY <1>1, PlacedNodes DEF Built, StageInv

(* A conflict gives the position and the body of an entity held back.      *)
LEMMA InsertReports ==
  ASSUME Built, StageInv, LayoutInv, Done
  PROVE  /\ \A c \in Reported("INSERT") :
              \E j \in 1 .. Len(Placed) : Held(j) /\ c.idx = j - 1 /\ c.body = Placed[j]
         /\ \A j \in 1 .. Len(Placed) :
              Held(j) => \E c \in Reported("INSERT") : c.idx = j - 1
<1>1. /\ phase = "built" /\ pc = "sorted" /\ stage \in Later
      /\ \A c : c \in conflicts <=>
           MergeReport(c) \/ ReorderReport(c) \/ HeadReport(c) \/ InsertReport(c)
  BY Outcome DEF Done
<1>2. Placed \in Seq(BP!TripleSet)
  BY <1>1, PlacedNodes DEF Built, StageInv
<1>3. \A j \in 1 .. Len(Placed) : Held(j) => Only("update", Placed[j].update) = Placed[j]
  BY <1>2, HeldBody DEF Held
<1>4. ASSUME NEW c \in Reported("INSERT")
      PROVE  InsertReport(c)
  <2>1. c \in conflicts /\ c.type = "INSERT"
    BY DEF Reported
  <2>2. ~MergeReport(c) /\ ~ReorderReport(c) /\ ~HeadReport(c)
    BY <2>1 DEF MergeReport, ReorderReport, HeadReport, Report
  <2> QED
    BY <1>1, <2>1, <2>2
<1>5. ASSUME NEW c \in Reported("INSERT")
      PROVE  \E j \in 1 .. Len(Placed) : Held(j) /\ c.idx = j - 1 /\ c.body = Placed[j]
  BY <1>3, <1>4 DEF InsertReport, Report
<1>6. ASSUME NEW j \in 1 .. Len(Placed), Held(j)
      PROVE  \E c \in Reported("INSERT") : c.idx = j - 1
  <2> DEFINE c == Report("INSERT", j - 1, Only("update", Placed[j].update))
  <2>1. c \in conflicts
    BY <1>1, <1>6 DEF InsertReport
  <2>2. c.type = "INSERT" /\ c.idx = j - 1
    BY DEF Report
  <2> QED
    BY <2>1, <2>2 DEF Reported
<1> QED
  BY <1>5, <1>6

(* The last position there is a conflict for.                              *)
LEMMA LastInsertIs ==
  ASSUME NEW N \in Nat, \A c \in Reported("INSERT") : c.idx + 1 \in 1 .. N
  PROVE  /\ LastInsert \in 0 .. N
         /\ \A c \in Reported("INSERT") : c.idx + 1 <= LastInsert
<1> DEFINE X == {0} \cup {c.idx + 1 : c \in Reported("INSERT")}
           Y == {n \in 0 .. N : \A m \in X : m <= n}
<1>1. X \subseteq 0 .. N /\ N \in Y
  OBVIOUS
<1>2. PICK n \in Y : \A m \in Y : n <= m
  <2>1. Y \in SUBSET Nat /\ Y # {}
    BY <1>1
  <2> HIDE DEF Y
  <2> QED
    BY <2>1, NodesAssumption, SP!Least
<1>3. n \in X
  <2> SUFFICES ASSUME n \notin X PROVE FALSE
    OBVIOUS
  <2>1. n # 0 /\ n - 1 \in 0 .. N
    BY <1>1
  <2>2. \A m \in X : m <= n - 1
    BY <1>1, <1>2
  <2>3. n - 1 \in Y
    BY <2>1, <2>2
  <2> QED
    BY <1>2, <2>1, <2>3
<1>4. \A m \in X : n >= m
  BY <1>1, <1>2
<1>5. \E x \in X : \A m \in X : x >= m
  BY <1>3, <1>4
<1>6. LastInsert \in X /\ \A m \in X : LastInsert >= m
  <2>1. LastInsert = CHOOSE x \in X : \A m \in X : x >= m
    BY DEF LastInsert, Max
  <2> HIDE DEF X
  <2> QED
    BY <1>5, <2>1
<1>7. \A c \in Reported("INSERT") : c.idx + 1 \in X
  OBVIOUS
<1> QED
  BY <1>1, <1>6, <1>7

(* What Inserted is at n, from what it is at n - 1.                        *)
NextInserted(s, n) ==
  IF \E c \in Reported("INSERT") : c.idx = n - 1
  THEN InsertAt(s, n, (CHOOSE c \in Reported("INSERT") : c.idx = n - 1).body)
  ELSE s

InsertedUpTo(f, n) ==
  f = [k \in 0 .. n |-> IF k = 0 THEN unified ELSE NextInserted(f[k - 1], k)]

LEMMA InsertedExists ==
  ASSUME NEW n \in Nat
  PROVE  \E f : InsertedUpTo(f, n)
<1> DEFINE X == {k \in Nat : ~\E f : InsertedUpTo(f, k)}
<1> SUFFICES ASSUME X # {} PROVE FALSE
  OBVIOUS
<1>1. PICK m \in X : \A k \in X : m <= k
  <2>1. X \in SUBSET Nat
    OBVIOUS
  <2> HIDE DEF X
  <2> QED
    BY <2>1, NodesAssumption, SP!Least
<1>2. CASE m = 0
  <2> DEFINE f == [k \in 0 .. 0 |-> unified]
  <2>1. f = [k \in 0 .. 0 |-> IF k = 0 THEN unified ELSE NextInserted(f[k - 1], k)]
    OBVIOUS
  <2> QED
    BY <1>2, <2>1 DEF InsertedUpTo
<1>3. CASE m # 0
  <2>1. m - 1 \in Nat /\ m - 1 \notin X
    BY <1>1, <1>3
  <2>2. PICK f : InsertedUpTo(f, m - 1)
    BY <2>1
  <2>3. /\ \A k \in 0 .. m - 1 : f[k] = IF k = 0 THEN unified ELSE NextInserted(f[k - 1], k)
    BY <2>2 DEF InsertedUpTo
  <2> DEFINE g == [k \in 0 .. m |-> IF k = m THEN NextInserted(f[m - 1], m) ELSE f[k]]
  <2>4. \A k \in 0 .. m - 1 : g[k] = f[k]
    BY <1>3, <2>1
  <2>5. g[m] = NextInserted(f[m - 1], m)
    BY <1>3, <2>1
  <2>6. ASSUME NEW k \in 0 .. m
        PROVE  g[k] = IF k = 0 THEN unified ELSE NextInserted(g[k - 1], k)
    <3>1. CASE k = m
      <4>1. m - 1 \in 0 .. m - 1
        BY <2>1
      <4>2. g[m - 1] = f[m - 1]
        BY <2>4, <4>1
      <4> HIDE DEF g
      <4> QED
        BY <1>3, <2>5, <3>1, <4>2
    <3>2. CASE k = 0
      <4>1. k \in 0 .. m - 1
        BY <2>1, <3>2
      <4> HIDE DEF g
      <4> QED
        BY <2>3, <2>4, <3>2, <4>1
    <3>3. CASE k # m /\ k # 0
      <4>1. k \in 0 .. m - 1 /\ k - 1 \in 0 .. m - 1
        BY <2>1, <3>3
      <4> HIDE DEF g
      <4> QED
        BY <2>3, <2>4, <3>3, <4>1
    <3> QED
      BY <3>1, <3>2, <3>3
  <2>7. g = [k \in 0 .. m |-> g[k]]
    OBVIOUS
  <2> HIDE DEF g
  <2>8. InsertedUpTo(g, m)
    BY <2>6, <2>7 DEF InsertedUpTo
  <2> QED
    BY <2>8
<1> QED
  BY <1>2, <1>3

LEMMA InsertedValue ==
  ASSUME LastInsert \in Nat
  PROVE  \A n \in 0 .. LastInsert :
           Inserted[n] = IF n = 0 THEN unified ELSE NextInserted(Inserted[n - 1], n)
<1>1. \E f : InsertedUpTo(f, LastInsert)
  BY InsertedExists
<1>2. Inserted = CHOOSE f : InsertedUpTo(f, LastInsert)
  BY DEF Inserted, InsertedUpTo, NextInserted
<1>3. InsertedUpTo(Inserted, LastInsert)
  BY <1>1, <1>2
<1> QED
  BY <1>3 DEF InsertedUpTo

(* r is s with e at position i.                                            *)
IsInsertion(r, s, i, e, X) ==
  /\ r \in Seq(X) /\ Len(r) = Len(s) + 1
  /\ \A k \in 1 .. Len(s) + 1 :
       r[k] = IF k < i THEN s[k] ELSE IF k = i THEN e ELSE s[k - 1]

LEMMA InsertAtEffect ==
  ASSUME NEW X, NEW s \in Seq(X), NEW i \in 1 .. Len(s) + 1, NEW e \in X
  PROVE  IsInsertion(InsertAt(s, i, e), s, i, e, X)
<1>1. Len(s) \in Nat /\ i \in Nat
  OBVIOUS
<1> DEFINE a == SubSeq(s, 1, i - 1)
           b == SubSeq(s, i, Len(s))
           ae == a \o <<e>>
<1>2. a \in Seq(X) /\ Len(a) = i - 1 /\ \A k \in 1 .. i - 1 : a[k] = s[k]
  BY <1>1
<1>3. b \in Seq(X) /\ Len(b) = Len(s) - i + 1 /\ \A k \in 1 .. Len(s) - i + 1 : b[k] = s[k + i - 1]
  BY <1>1
<1>4. <<e>> \in Seq(X) /\ Len(<<e>>) = 1 /\ <<e>>[1] = e
  OBVIOUS
<1> HIDE DEF a, b
<1>5. ae \in Seq(X) /\ Len(ae) = i /\ \A k \in 1 .. i : ae[k] = IF k < i THEN s[k] ELSE e
  <2>1. /\ ae \in Seq(X) /\ Len(ae) = Len(a) + Len(<<e>>)
        /\ \A k \in 1 .. Len(a) + Len(<<e>>) :
             ae[k] = IF k <= Len(a) THEN a[k] ELSE <<e>>[k - Len(a)]
    BY <1>2, <1>4, ConcatProperties
  <2> HIDE DEF ae
  <2>2. Len(ae) = i
    BY <1>1, <1>2, <1>4, <2>1
  <2>3. ASSUME NEW k \in 1 .. i
        PROVE  ae[k] = IF k < i THEN s[k] ELSE e
    <3>1. CASE k < i
      BY <1>1, <1>2, <1>4, <2>1, <3>1
    <3>2. CASE k = i
      BY <1>1, <1>2, <1>4, <2>1, <3>2
    <3> QED
      BY <3>1, <3>2
  <2> QED
    BY <2>1, <2>2, <2>3
<1> HIDE DEF ae
<1>6. /\ ae \o b \in Seq(X) /\ Len(ae \o b) = Len(s) + 1
      /\ \A k \in 1 .. Len(s) + 1 : (ae \o b)[k] = IF k <= i THEN ae[k] ELSE b[k - i]
  <2>1. /\ ae \o b \in Seq(X) /\ Len(ae \o b) = Len(ae) + Len(b)
        /\ \A k \in 1 .. Len(ae) + Len(b) :
             (ae \o b)[k] = IF k <= Len(ae) THEN ae[k] ELSE b[k - Len(ae)]
    BY <1>3, <1>5, ConcatProperties
  <2>2. Len(ae) = i /\ Len(ae) + Len(b) = Len(s) + 1
    BY <1>1, <1>3, <1>5
  <2> QED
    BY <2>1, <2>2
<1>7. ASSUME NEW k \in 1 .. Len(s) + 1
      PROVE  (ae \o b)[k] = IF k < i THEN s[k] ELSE IF k = i THEN e ELSE s[k - 1]
  <2>1. CASE k <= i
    <3>1. k \in 1 .. i
      BY <1>1, <2>1
    <3> QED
      BY <1>5, <1>6, <2>1, <3>1
  <2>2. CASE ~(k <= i)
    <3>1. k - i \in 1 .. Len(s) - i + 1 /\ (k - i) + i - 1 = k - 1 /\ ~(k < i) /\ k # i
      BY <1>1, <2>2
    <3> QED
      BY <1>3, <1>6, <2>2, <3>1
  <2> QED
    BY <2>1, <2>2
<1> QED
  BY <1>6, <1>7 DEF InsertAt, IsInsertion, a, b, ae

(* s is Placed without the entities held back after the first n, and g is  *)
(* where its elements come from.                                           *)
PutBack(s, n, g) ==
  /\ s \in Seq(BP!TripleSet) /\ n <= Len(s)
  /\ g \in [1 .. Len(s) -> 1 .. Len(Placed)]
  /\ \A k, m \in 1 .. Len(s) : k < m => g[k] < g[m]
  /\ \A k \in 1 .. Len(s) : s[k] = Placed[g[k]]
  /\ \A j \in 1 .. Len(Placed) : (j <= n \/ ~Held(j)) <=> \E k \in 1 .. Len(s) : g[k] = j
  /\ \A k \in 1 .. n : g[k] = k

(* What comes after the first n comes from after the first n.              *)
LEMMA PutBackLater ==
  ASSUME NEW s, NEW n \in Nat, NEW g, PutBack(s, n, g), NEW k \in 1 .. Len(s), n < k
  PROVE  n < g[k]
<1>1. s \in Seq(BP!TripleSet) /\ Len(s) \in Nat /\ g[k] \in Nat /\ g[k] > 0
  BY DEF PutBack
<1>2. CASE n = 0
  BY <1>1, <1>2
<1>3. CASE n # 0
  <2>1. n \in 1 .. Len(s) /\ g[n] = n
    BY <1>3 DEF PutBack
  <2> QED
    BY <1>1, <2>1 DEF PutBack
<1> QED
  BY <1>2, <1>3

LEMMA PutBackStep ==
  ASSUME Built, StageInv, LayoutInv, Done,
         NEW n \in 1 .. Len(Placed), NEW s, NEW g, PutBack(s, n - 1, g)
  PROVE  \E h : PutBack(NextInserted(s, n), n, h)
<1>1. Placed \in Seq(BP!TripleSet) /\ Len(Placed) \in Nat
  BY PlacedWhenDone
<1>2. /\ s \in Seq(BP!TripleSet) /\ Len(s) \in Nat /\ n - 1 <= Len(s) /\ n - 1 \in Nat
      /\ g \in [1 .. Len(s) -> 1 .. Len(Placed)]
      /\ \A k, m \in 1 .. Len(s) : k < m => g[k] < g[m]
      /\ \A k \in 1 .. Len(s) : s[k] = Placed[g[k]]
      /\ \A j \in 1 .. Len(Placed) :
           (j <= n - 1 \/ ~Held(j)) <=> \E k \in 1 .. Len(s) : g[k] = j
      /\ \A k \in 1 .. n - 1 : g[k] = k
  BY DEF PutBack
<1>3. ASSUME NEW k \in 1 .. Len(s), n <= k
      PROVE  n <= g[k]
  <2>1. n - 1 < k
    BY <1>2, <1>3
  <2>2. n - 1 < g[k] /\ g[k] \in Nat
    BY <1>2, <2>1, PutBackLater
  <2> QED
    BY <2>2
<1>4. CASE Held(n)
  <2>1. \E c \in Reported("INSERT") : c.idx = n - 1
    BY <1>4, InsertReports
  <2>2. \A c \in Reported("INSERT") : c.idx = n - 1 => c.body = Placed[n]
    <3> SUFFICES ASSUME NEW c \in Reported("INSERT"), c.idx = n - 1
                 PROVE  c.body = Placed[n]
      OBVIOUS
    <3>1. PICK j \in 1 .. Len(Placed) : c.idx = j - 1 /\ c.body = Placed[j]
      BY InsertReports
    <3>2. j = n
      BY <1>1, <3>1
    <3> QED
      BY <3>1, <3>2
  <2>3. (CHOOSE c \in Reported("INSERT") : c.idx = n - 1).body = Placed[n]
    BY <2>1, <2>2
  <2> DEFINE r == InsertAt(s, n, Placed[n])
             h == [k \in 1 .. Len(s) + 1 |-> IF k < n THEN g[k] ELSE IF k = n THEN n ELSE g[k - 1]]
  <2>4. NextInserted(s, n) = r
    BY <2>1, <2>3 DEF NextInserted
  <2>5. /\ r \in Seq(BP!TripleSet) /\ Len(r) = Len(s) + 1
        /\ \A k \in 1 .. Len(s) + 1 :
             r[k] = IF k < n THEN s[k] ELSE IF k = n THEN Placed[n] ELSE s[k - 1]
    <3>1. n \in 1 .. Len(s) + 1 /\ Placed[n] \in BP!TripleSet
      BY <1>1, <1>2
    <3>2. s \in Seq(BP!TripleSet)
      BY <1>2
    <3>3. IsInsertion(InsertAt(s, n, Placed[n]), s, n, Placed[n], BP!TripleSet)
      <4> HIDE DEF r, h
      <4> QED
        BY ONLY <3>1, <3>2, InsertAtEffect
    <3> QED
      BY <3>3 DEF IsInsertion
  <2> HIDE DEF r
  <2>6. /\ \A k \in 1 .. Len(s) : k < n => h[k] = g[k] /\ h[k] = k
        /\ h[n] = n
        /\ \A k \in 1 .. Len(s) : n <= k => h[k + 1] = g[k]
    <3>1. n \in 1 .. Len(s) + 1 /\ \A k \in 1 .. Len(s) : k + 1 \in 1 .. Len(s) + 1
      BY <1>2
    <3> QED
      BY <1>2, <3>1
  <2>7. \A k \in 1 .. Len(s) + 1 :
          \/ k \in 1 .. Len(s) /\ k < n
          \/ k = n
          \/ k - 1 \in 1 .. Len(s) /\ n <= k - 1 /\ k = (k - 1) + 1
    BY <1>2
  <2>8. h \in [1 .. Len(s) + 1 -> 1 .. Len(Placed)]
    <3>1. DOMAIN h = 1 .. Len(s) + 1 /\ h = [k \in 1 .. Len(s) + 1 |-> h[k]]
      OBVIOUS
    <3> HIDE DEF h
    <3>2. ASSUME NEW k \in 1 .. Len(s) + 1 PROVE h[k] \in 1 .. Len(Placed)
      <4>1. CASE k \in 1 .. Len(s) /\ k < n
        BY <1>2, <2>6, <4>1
      <4>2. CASE k = n
        BY <2>6, <4>2
      <4>3. CASE k - 1 \in 1 .. Len(s) /\ n <= k - 1 /\ k = (k - 1) + 1
        <5>1. h[k] = g[k - 1]
          BY <2>6, <4>3
        <5> QED
          BY <1>2, <4>3, <5>1
      <4> QED
        BY <2>7, <4>1, <4>2, <4>3
    <3> QED
      BY <3>1, <3>2
  <2>9. ASSUME NEW j \in 1 .. Len(Placed)
        PROVE  (j <= n \/ ~Held(j)) <=> \E k \in 1 .. Len(s) + 1 : h[k] = j
    <3> HIDE DEF h
    <3>1. (j <= n \/ ~Held(j)) <=> (j = n \/ j <= n - 1 \/ ~Held(j))
      BY <1>2
    <3>2. (j <= n - 1 \/ ~Held(j)) <=> \E k \in 1 .. Len(s) : g[k] = j
      BY <1>2
    <3>3. ASSUME NEW k \in 1 .. Len(s), g[k] = j
          PROVE  \E m \in 1 .. Len(s) + 1 : h[m] = j
      <4>1. k \in 1 .. Len(s) + 1 /\ k + 1 \in 1 .. Len(s) + 1 /\ (k < n \/ n <= k)
        BY <1>2
      <4> QED
        BY <2>6, <3>3, <4>1
    <3>4. ASSUME NEW m \in 1 .. Len(s) + 1, h[m] = j, j # n
          PROVE  \E k \in 1 .. Len(s) : g[k] = j
      BY <2>6, <2>7, <3>4
    <3>5. n \in 1 .. Len(s) + 1
      BY <1>2
    <3> QED
      BY <2>6, <3>1, <3>2, <3>3, <3>4, <3>5
  <2>10. ASSUME NEW k \in 1 .. Len(s) + 1, NEW m \in 1 .. Len(s) + 1, k < m
         PROVE  h[k] < h[m]
    <3> HIDE DEF h
    <3>1. CASE m \in 1 .. Len(s) /\ m < n
      <4>1. k \in 1 .. Len(s) /\ k < n
        BY <1>2, <2>10, <3>1
      <4> QED
        BY <2>6, <2>10, <3>1, <4>1
    <3>2. CASE m = n
      <4>1. k \in 1 .. Len(s) /\ k < n
        BY <1>2, <2>10, <3>2
      <4> QED
        BY <2>6, <2>10, <3>2, <4>1
    <3>3. CASE m - 1 \in 1 .. Len(s) /\ n <= m - 1 /\ m = (m - 1) + 1
      <4>1. h[m] = g[m - 1] /\ n <= g[m - 1] /\ g[m - 1] \in Nat
        BY <1>2, <1>3, <2>6, <3>3
      <4>2. n # g[m - 1]
        <5>1. ~(n <= n - 1 \/ ~Held(n))
          BY <1>2, <1>4
        <5> QED
          BY <1>2, <3>3, <5>1
      <4>3. n < h[m]
        BY <4>1, <4>2
      <4>4. CASE k \in 1 .. Len(s) /\ k < n
        BY <1>2, <2>6, <4>1, <4>3, <4>4
      <4>5. CASE k = n
        BY <2>6, <4>3, <4>5
      <4>6. CASE k - 1 \in 1 .. Len(s) /\ n <= k - 1 /\ k = (k - 1) + 1
        <5>1. h[k] = g[k - 1] /\ k - 1 < m - 1
          BY <2>6, <2>10, <4>6
        <5> QED
          BY <1>2, <3>3, <4>1, <4>6, <5>1
      <4> QED
        BY <2>7, <4>4, <4>5, <4>6
    <3> QED
      BY <2>7, <3>1, <3>2, <3>3
  <2>11. ASSUME NEW k \in 1 .. Len(s) + 1
         PROVE  r[k] = Placed[h[k]]
    <3> HIDE DEF h
    <3>1. CASE k \in 1 .. Len(s) /\ k < n
      BY <1>2, <2>5, <2>6, <3>1
    <3>2. CASE k = n
      BY <2>5, <2>6, <3>2
    <3>3. CASE k - 1 \in 1 .. Len(s) /\ n <= k - 1 /\ k = (k - 1) + 1
      <4>1. ~(k < n) /\ k # n
        BY <3>3
      <4>2. r[k] = s[k - 1]
        BY <2>5, <4>1
      <4>3. h[(k - 1) + 1] = g[k - 1]
        BY <2>6, <3>3
      <4>4. s[k - 1] = Placed[g[k - 1]]
        BY <1>2, <3>3
      <4> QED
        BY <3>3, <4>2, <4>3, <4>4
    <3> QED
      BY <2>7, <3>1, <3>2, <3>3
  <2>12. \A k \in 1 .. n : h[k] = k
    <3> HIDE DEF h
    <3>1. \A k \in 1 .. n : k = n \/ (k \in 1 .. Len(s) /\ k < n)
      BY <1>2
    <3> QED
      BY <2>6, <3>1
  <2>13. n <= Len(s) + 1
    BY <1>2
  <2> HIDE DEF h
  <2>14. PutBack(r, n, h)
    BY <2>5, <2>8, <2>9, <2>10, <2>11, <2>12, <2>13 DEF PutBack
  <2> QED
    BY <2>4, <2>14
<1>5. CASE ~Held(n)
  <2>1. ~\E c \in Reported("INSERT") : c.idx = n - 1
    <3> SUFFICES ASSUME NEW c \in Reported("INSERT"), c.idx = n - 1
                 PROVE  FALSE
      OBVIOUS
    <3>1. PICK j \in 1 .. Len(Placed) : Held(j) /\ c.idx = j - 1
      BY InsertReports
    <3>2. j = n
      BY <1>1, <3>1
    <3> QED
      BY <1>5, <3>1, <3>2
  <2>2. NextInserted(s, n) = s
    BY <2>1 DEF NextInserted
  <2>3. PICK k \in 1 .. Len(s) : g[k] = n
    BY <1>2, <1>5
  <2>4. k = n
    <3>1. n <= k
      BY <1>2, <2>3
    <3>2. ~(n < k)
      <4> SUFFICES ASSUME n < k PROVE FALSE
        OBVIOUS
      <4>1. n \in 1 .. Len(s)
        BY <1>2
      <4>2. n <= g[n] /\ g[n] < g[k] /\ g[n] \in Nat
        BY <1>2, <1>3, <4>1
      <4> QED
        BY <2>3, <4>2
    <3> QED
      BY <3>1, <3>2
  <2>5. n <= Len(s) /\ g[n] = n
    BY <1>2, <2>3, <2>4
  <2>6. \A j \in 1 .. n : g[j] = j
    <3>1. \A j \in 1 .. n : j = n \/ j \in 1 .. n - 1
      BY <1>2
    <3> QED
      BY <1>2, <2>5, <3>1
  <2>7. \A j \in 1 .. Len(Placed) : (j <= n \/ ~Held(j)) <=> (j <= n - 1 \/ ~Held(j))
    <3>1. \A j \in 1 .. Len(Placed) : j <= n <=> (j = n \/ j <= n - 1)
      BY <1>2
    <3> QED
      BY <1>5, <3>1
  <2>8. PutBack(s, n, g)
    BY <1>2, <2>5, <2>6, <2>7 DEF PutBack
  <2> QED
    BY <2>2, <2>8
<1> QED
  BY <1>4, <1>5

(* When nothing is left out any more, it is Placed.                        *)
LEMMA AllPutBack ==
  ASSUME Placed \in Seq(BP!TripleSet), NEW s, NEW n \in Nat, NEW g, PutBack(s, n, g),
         \A j \in 1 .. Len(Placed) : Held(j) => j <= n
  PROVE  s = Placed
<1>1. /\ s \in Seq(BP!TripleSet) /\ Len(s) \in Nat /\ Len(Placed) \in Nat
      /\ g \in [1 .. Len(s) -> 1 .. Len(Placed)]
      /\ \A k, m \in 1 .. Len(s) : k < m => g[k] < g[m]
      /\ \A k \in 1 .. Len(s) : s[k] = Placed[g[k]]
      /\ \A j \in 1 .. Len(Placed) : \E k \in 1 .. Len(s) : g[k] = j
  BY DEF PutBack
<1> DEFINE X == {k \in 1 .. Len(s) : g[k] # k}
<1>2. X = {}
  <2> SUFFICES ASSUME X # {} PROVE FALSE
    OBVIOUS
  <2>1. PICK m \in X : \A k \in X : m <= k
    <3>1. X \in SUBSET Nat
      OBVIOUS
    <3> HIDE DEF X
    <3> QED
      BY <3>1, NodesAssumption, SP!Least
  <2>2. m \in 1 .. Len(s) /\ g[m] # m /\ g[m] \in Nat /\ g[m] > 0
    BY <1>1, <2>1
  <2>3. \A k \in 1 .. Len(s) : k < m => g[k] = k
    BY <2>1
  <2>4. m < g[m]
    <3>1. CASE m = 1
      BY <2>2, <3>1
    <3>2. CASE m # 1
      <4>1. m - 1 \in 1 .. Len(s) /\ m - 1 < m
        BY <1>1, <2>2, <3>2
      <4>2. g[m - 1] = m - 1 /\ g[m - 1] < g[m]
        BY <1>1, <2>2, <2>3, <4>1
      <4> QED
        BY <2>2, <4>2
    <3> QED
      BY <3>1, <3>2
  <2>5. m \in 1 .. Len(Placed)
    <3>1. g[m] \in 1 .. Len(Placed)
      BY <1>1, <2>2
    <3>2. m \in Nat /\ m > 0
      BY <2>2
    <3>3. \A i, j, l \in Nat : i < j /\ j <= l => i <= l
      OBVIOUS
    <3> QED
      BY <1>1, <2>2, <2>4, <3>1, <3>2, <3>3
  <2>6. PICK k \in 1 .. Len(s) : g[k] = m
    BY <1>1, <2>5
  <2>7. k # m /\ ~(k < m)
    BY <2>2, <2>3, <2>6
  <2>8. m < k
    BY <1>1, <2>2, <2>7
  <2>9. g[m] < g[k]
    BY <1>1, <2>2, <2>8
  <2> QED
    BY <2>4, <2>6, <2>9, <2>2
<1>3. \A k \in 1 .. Len(s) : g[k] = k
  BY <1>2
<1>4. Len(s) = Len(Placed)
  <2>1. \A j \in 1 .. Len(Placed) : j \in 1 .. Len(s)
    BY <1>1, <1>3
  <2>2. \A k \in 1 .. Len(s) : k \in 1 .. Len(Placed)
    BY <1>1, <1>3
  <2>3. CASE Len(s) < Len(Placed)
    BY <1>1, <2>1, <2>3
  <2>4. CASE Len(Placed) < Len(s)
    BY <1>1, <2>2, <2>4
  <2> QED
    BY <1>1, <2>3, <2>4
<1>5. \A k \in 1 .. Len(s) : s[k] = Placed[k]
  BY <1>1, <1>3
<1> QED
  BY <1>1, <1>4, <1>5, SeqEqual

(* Inserting what the INSERT conflicts hold at the positions they give,    *)
(* from the lowest, rebuilds the order that the sort gave, however many    *)
(* entities are held back and wherever they are.                           *)
THEOREM InsertsAlwaysRestore == Spec => []InsertsRestoreTheOrder
<1>1. ASSUME Built, StageInv, LayoutInv, Unified
      PROVE  Placed = Inserted[LastInsert]
  <2>1. Done
    BY <1>1, UnifiedIsDone
  <2>2. Placed \in Seq(BP!TripleSet) /\ Len(Placed) \in Nat
    BY <1>1, <2>1, PlacedWhenDone
  <2>3. \A c \in Reported("INSERT") : c.idx + 1 \in 1 .. Len(Placed)
    BY <1>1, <2>1, <2>2, InsertReports
  <2>4. /\ LastInsert \in 0 .. Len(Placed) /\ LastInsert \in Nat
        /\ \A c \in Reported("INSERT") : c.idx + 1 <= LastInsert
    BY <2>2, <2>3, LastInsertIs
  <2>5. \A n \in 0 .. LastInsert :
          Inserted[n] = IF n = 0 THEN unified ELSE NextInserted(Inserted[n - 1], n)
    BY <2>4, InsertedValue
  <2> DEFINE X == {n \in 0 .. LastInsert : ~\E g : PutBack(Inserted[n], n, g)}
  <2>6. X = {}
    <3> SUFFICES ASSUME X # {} PROVE FALSE
      OBVIOUS
    <3>1. PICK n \in X : \A k \in X : n <= k
      <4>1. X \in SUBSET Nat
        BY <2>4
      <4> HIDE DEF X
      <4> QED
        BY <4>1, NodesAssumption, SP!Least
    <3>2. n \in 0 .. LastInsert /\ ~\E g : PutBack(Inserted[n], n, g)
      OBVIOUS
    <3>3. CASE n = 0
      <4>1. Inserted[n] = unified
        BY <2>5, <3>3
      <4>2. /\ unified \in Seq(BP!TripleSet) /\ idx_to_remove = {}
            /\ \E f : Remaining(f)
        BY <1>1, <2>1 DEF LayoutInv, LaidOutInv, Done
      <4>3. PICK f : Remaining(f)
        BY <4>2
      <4>4. PutBack(unified, 0, f)
        <5>1. \A j \in 1 .. Len(Placed) : ~(j <= 0)
          BY <2>2
        <5>2. /\ f \in [1 .. Len(unified) -> 1 .. Len(Placed)]
              /\ \A k, m \in 1 .. Len(unified) : k < m => f[k] < f[m]
              /\ \A k \in 1 .. Len(unified) : unified[k] = Placed[f[k]]
          BY <4>3 DEF Remaining
        <5>3. \A j \in 1 .. Len(Placed) : ~Held(j) <=> \E k \in 1 .. Len(unified) : f[k] = j
          BY <4>2, <4>3 DEF Remaining
        <5>4. Len(unified) \in Nat
          BY <4>2
        <5> QED
          BY <4>2, <5>1, <5>2, <5>3, <5>4 DEF PutBack
      <4> QED
        BY <3>2, <3>3, <4>1, <4>4
    <3>4. CASE n # 0
      <4>1. n - 1 \in 0 .. LastInsert /\ n \in 1 .. Len(Placed) /\ ~(n <= n - 1)
        BY <2>4, <3>2, <3>4
      <4>2. n - 1 \notin X
        BY <3>1, <4>1
      <4>3. PICK g : PutBack(Inserted[n - 1], n - 1, g)
        BY <4>1, <4>2
      <4>4. \E h : PutBack(NextInserted(Inserted[n - 1], n), n, h)
        BY <1>1, <2>1, <4>1, <4>3, PutBackStep
      <4>5. Inserted[n] = NextInserted(Inserted[n - 1], n)
        BY <2>5, <3>2, <3>4
      <4> QED
        BY <3>2, <4>4, <4>5
    <3> QED
      BY <3>3, <3>4
  <2>7. LastInsert \in 0 .. LastInsert
    BY <2>4
  <2>8. PICK g : PutBack(Inserted[LastInsert], LastInsert, g)
    BY <2>6, <2>7
  <2>9. ASSUME NEW j \in 1 .. Len(Placed), Held(j)
        PROVE  j <= LastInsert
    <3>1. PICK c \in Reported("INSERT") : c.idx = j - 1
      BY <1>1, <2>1, <2>9, InsertReports
    <3>2. c.idx + 1 = j
      BY <2>2, <3>1
    <3> QED
      BY <2>4, <3>2
  <2> QED
    BY <2>2, <2>4, <2>8, <2>9, AllPutBack
<1>2. Built /\ StageInv /\ LayoutInv => InsertsRestoreTheOrder
  BY <1>1 DEF InsertsRestoreTheOrder
<1> QED
  BY <1>2, LayoutInvariant, PTL
=============================================================================
