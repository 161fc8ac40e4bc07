------------------------- MODULE MatchGraphBuilder -------------------------
(***************************************************************************)
(* ListMatchGraphBuilder.build_graph (json_merger/graph_builder.py).  For  *)
(* every entity of head, then of update, a breadth-first search over the   *)
(* comparators' matches collects the entities that are the same one; when  *)
(* the lists offer one candidate each they become a node of the match      *)
(* graph, otherwise every combination becomes a multiple match choice.     *)
(* Each node is then linked to the nodes that come next in head and update.*)
(*                                                                         *)
(* The BFS takes any element of its queue, not the oldest: the order is    *)
(* not observable, and the properties hold for every order.                *)
(***************************************************************************)
EXTENDS MatchInputs, MatchStats, Sequences

VARIABLES
  phase,             \* "head", "update": the loop being run; then "stats",
                     \* "link" and, when build_graph has returned, "built"
  pos,               \* index of the entity the loop is at
  found,             \* `indices` of the BFS, {} when no search is under way
  queue,             \* q of the BFS, as a set
  node_src_indices,  \* node id |-> triple of indices; ids start from 1
  idx_to_node,       \* _head_idx_to_node and _update_idx_to_node
  choices,           \* multiple_match_choice_idx
  stats,             \* head_stats and update_stats
  graph              \* node id |-> the node that follows it on each side

vars == <<inputs, phase, pos, found, queue,
          node_src_indices, idx_to_node, choices, stats, graph>>

Sides == {"head", "update"}

FIRST == 0  \* the dummy node before the first element of both lists

Init ==
  /\ InputInit
  /\ phase = "head" /\ pos = 0
  /\ found = {} /\ queue = {}
  /\ node_src_indices = <<>>
  /\ idx_to_node = [l \in Sides |-> [i \in 0 .. len[l] - 1 |-> NONE]]
  /\ choices = {}
  /\ stats = [l \in Sides |-> NewStats(len[l])]
  /\ graph = <<>>

---------------------------------------------------------------------------
(* _get_matches(phase, pos): the search starts from the entity itself...   *)
StartSearch ==
  /\ phase \in Sides
  /\ pos < len[phase]
  /\ found = {}
  /\ found' = {<<phase, pos>>}
  /\ queue' = {<<phase, pos>>}
  /\ UNCHANGED <<inputs, phase, pos, node_src_indices, idx_to_node, choices, stats, graph>>

(* Mutant: entities that were met before are queued again.                 *)
FoundAgain(x) == UNION {GetMatches(target, x) : target \in OtherTwo[x[1]]}

(* Mutant: the search does not follow the matches of what it finds.        *)
FoundInOneHop(x) ==
  IF x = <<phase, pos>>
    THEN (UNION {GetMatches(target, x) : target \in OtherTwo[x[1]]}) \ found
    ELSE {}

(* ...and every entity taken from the queue adds the ones it matches in    *)
(* the other two lists, unless they were met before.                       *)
NewlyFound(x) ==
  (UNION {GetMatches(target, x) : target \in OtherTwo[x[1]]}) \ found

Expand ==
  \E x \in queue :
    /\ found' = found \cup NewlyFound(x)
    /\ queue' = (queue \ {x}) \cup NewlyFound(x)
    /\ UNCHANGED <<inputs, phase, pos, node_src_indices, idx_to_node, choices, stats, graph>>

---------------------------------------------------------------------------
(* Mutant: the id is the one before the counter moves.                     *)
PushNodeOldId(t) ==
  /\ node_src_indices' = Append(node_src_indices, t)
  /\ idx_to_node' =
       [l \in Sides |->
          [i \in 0 .. len[l] - 1 |->
             IF i = t[l] THEN Len(node_src_indices) ELSE idx_to_node[l][i]]]

(* _push_node: a new id, recorded for the indices of the two sides.        *)
PushNode(t) ==
  /\ node_src_indices' = Append(node_src_indices, t)
  /\ idx_to_node' =
       [l \in Sides |->
          [i \in 0 .. len[l] - 1 |->
             IF i = t[l] THEN Len(node_src_indices) + 1 ELSE idx_to_node[l][i]]]

AddMatches(S) ==
  IF Unambiguous(S)
    THEN /\ \E t \in Triples(S) : PushNode(t)
         /\ UNCHANGED choices
    ELSE /\ choices' = choices \cup Triples(S)
         /\ UNCHANGED <<node_src_indices, idx_to_node>>

(* Mutant: update entities that are in a node already get another one.     *)
WantsNodeAgain == phase \in sources

(* Mutant: update entities that match a head entity are left to its node,  *)
(* whether or not head entities are kept.                                  *)
WantsNodeIfUnmatched ==
  /\ phase \in sources
  /\ phase = "update" => Hits(found, "head") = {}

(* A node is added for each head entity, but for an update entity only if  *)
(* it is not in a node already.                                            *)
WantsNode ==
  /\ phase \in sources
  /\ phase = "update" => idx_to_node["update"][pos] = NONE

(* The end of an iteration of either loop.                                 *)
FinishSearch ==
  /\ found # {} /\ queue = {}
  /\ IF WantsNode THEN AddMatches(found)
                  ELSE UNCHANGED <<node_src_indices, idx_to_node, choices>>
  /\ stats' =
       IF \E r \in Hits(found, "root") : Hits(found, "root") = {r}
         THEN [stats EXCEPT ![phase] =
                 AddRootMatch(@, pos, CHOOSE r \in Hits(found, "root") : TRUE)]
         ELSE stats
  /\ pos' = pos + 1
  /\ found' = {}
  /\ UNCHANGED <<inputs, phase, queue, graph>>

(* Mutant: the update loop is skipped where only head entities are kept,   *)
(* or both.                                                                *)
EndLoopKeepingHead ==
  /\ phase \in Sides
  /\ pos = len[phase]
  /\ found = {}
  /\ phase' = IF phase = "head" /\ "head" \notin sources THEN "update" ELSE "stats"
  /\ pos' = 0
  /\ UNCHANGED <<inputs, found, queue, node_src_indices, idx_to_node, choices, stats, graph>>

EndLoop ==
  /\ phase \in Sides
  /\ pos = len[phase]
  /\ found = {}
  /\ phase' = IF phase = "head" THEN "update" ELSE "stats"
  /\ pos' = 0
  /\ UNCHANGED <<inputs, found, queue, node_src_indices, idx_to_node, choices, stats, graph>>

(* "Add stats from built nodes."                                           *)
NodeIds == 1 .. Len(node_src_indices)
InNodes(l) == {node_src_indices[n][l] : n \in NodeIds} \ {NONE}

AddStats ==
  /\ phase = "stats"
  /\ stats' = [l \in Sides |-> MoveToResult(stats[l], InNodes(l))]
  /\ phase' = "link"
  /\ UNCHANGED <<inputs, pos, found, queue, node_src_indices, idx_to_node, choices, graph>>

---------------------------------------------------------------------------
(* _get_next_node: the node of the least of the indices that has one.      *)
GetNextNode(l, indices) ==
  LET linked == {i \in indices : idx_to_node[l][i] # NONE} IN
  IF l \notin sources \/ linked = {}
    THEN NONE
    ELSE idx_to_node[l][CHOOSE i \in linked : \A j \in linked : i <= j]

(* Mutant: the next node is looked for from the node's own index.          *)
FollowingItself(n, l) ==
  IF n = FIRST THEN 0 .. len[l] - 1
  ELSE IF node_src_indices[n][l] = NONE THEN {}
  ELSE node_src_indices[n][l] .. len[l] - 1

(* The indices after those of node n, from the start for FIRST; none where *)
(* the node has no index.                                                  *)
Following(n, l) ==
  IF n = FIRST THEN 0 .. len[l] - 1
  ELSE IF node_src_indices[n][l] = NONE THEN {}
  ELSE node_src_indices[n][l] + 1 .. len[l] - 1

LinkNodes ==
  /\ phase = "link"
  /\ graph' = [n \in {FIRST} \cup NodeIds |->
                 [l \in Sides |-> GetNextNode(l, Following(n, l))]]
  /\ phase' = "built"
  /\ UNCHANGED <<inputs, pos, found, queue, node_src_indices, idx_to_node, choices, stats>>

BuildGraph ==
  StartSearch \/ Expand \/ FinishSearch \/ EndLoop \/ AddStats \/ LinkNodes

(* The builder has returned: nothing happens any more.                     *)
Built == phase = "built" /\ UNCHANGED vars

Next == BuildGraph \/ Built

Spec == Init /\ [][Next]_vars

(* The builder is a sequential computation, which runs until it returns.   *)
FairSpec == Spec /\ WF_vars(BuildGraph)

---------------------------------------------------------------------------
(* What the builder promises, whatever its loops and its search do: see    *)
(* EntityClasses.                                                          *)
Promise == INSTANCE EntityClasses
             WITH nodes <- {node_src_indices[n] : n \in NodeIds},
                  done  <- phase = "built"

ImplementsEntityClasses == Promise!Spec

---------------------------------------------------------------------------
(* Types of the variables.                                                 *)
Indices(l) == (0 .. len[l] - 1) \cup {NONE}
TripleSet == [root : Indices("root"), head : Indices("head"), update : Indices("update")]

StatsOf(l) ==
  [lst                          : {0 .. len[l] - 1},
   in_result_idx                : SUBSET (0 .. len[l] - 1),
   not_in_result_root_match_idx : SUBSET (0 .. len[l] - 1),
   root_matches                 : [0 .. len[l] - 1 -> Indices("root")]]

TypeOK ==
  /\ InputTypeOK
  /\ phase \in {"head", "update", "stats", "link", "built"}
  /\ pos \in Nat
  /\ phase \in Sides => pos <= len[phase]
  /\ found \subseteq Elements
  /\ found # {} => phase \in Sides /\ pos < len[phase]
  /\ queue \subseteq found
  /\ node_src_indices \in Seq(TripleSet)
  /\ DOMAIN idx_to_node = Sides
  /\ \A l \in Sides : idx_to_node[l] \in [0 .. len[l] - 1 -> NodeIds \cup {NONE}]
  /\ choices \subseteq TripleSet
  /\ DOMAIN stats = Sides
  /\ \A l \in Sides : stats[l] \in StatsOf(l)
  /\ phase = "built" =>
       graph \in [{FIRST} \cup NodeIds -> [Sides -> NodeIds \cup {NONE}]]

(* A finished search has found exactly the entities connected to the one   *)
(* it started from, however the comparators' matches chain (graph_builder  *)
(* _get_matches; test_transitive_equality covers one chain of three).      *)
SearchFindsClass == found # {} /\ queue = {} => found = Class(<<phase, pos>>)

(* No entity, root entities included, is in two nodes: merging the node    *)
(* triples never duplicates an entity.                                     *)
OneNodePerEntity ==
  \A m, n \in NodeIds :
    m # n => Members(node_src_indices[m]) \cap Members(node_src_indices[n]) = {}

(* An entity offered for manual merge is not also merged automatically.    *)
ChoicesNotMerged ==
  \A t \in choices, n \in NodeIds :
    Members(t) \cap Members(node_src_indices[n]) = {}

(* Once built, every entity of a list that is kept is in a node or in a    *)
(* choice put to the user: none is lost.                                   *)
Accounted(x) ==
  \/ \E n \in NodeIds : x \in Members(node_src_indices[n])
  \/ \E t \in choices : x \in Members(t)

NothingLost ==
  phase = "built" =>
    \A l \in sources : \A i \in 0 .. len[l] - 1 : Accounted(<<l, i>>)

(* Once built, the stats agree with the nodes: the entities in the result  *)
(* are those of the nodes, an entity that a node pairs with a root entity  *)
(* has that pairing recorded, and every index in not_in_result_root_match  *)
(* has the root match that not_in_result_root_match_pairs will look up.    *)
StatsAgree ==
  phase = "built" =>
    \A l \in Sides :
      LET st == stats[l] IN
      /\ st.in_result_idx = InNodes(l)
      /\ st.in_result_idx \cap st.not_in_result_root_match_idx = {}
      /\ \A n \in NodeIds :
           LET t == node_src_indices[n] IN
           t[l] # NONE => st.root_matches[t[l]] = t.root
      /\ \A i \in st.not_in_result_root_match_idx : st.root_matches[i] # NONE

(* The index maps, once set, are never pointed at another node, so the     *)
(* links that build_graph reads from them are those of the nodes.          *)
IndexNeverRepointed ==
  [][\A l \in Sides : \A i \in 0 .. len[l] - 1 :
       idx_to_node[l][i] # NONE => idx_to_node'[l][i] = idx_to_node[l][i]]_vars

(* The builder returns on every input, cyclic matches included.            *)
Termination == <>(phase = "built")

=============================================================================
