----------------------------- MODULE ListUnify -----------------------------
(***************************************************************************)
(* ListUnifier.unify (json_merger/list_unify.py): the match graph is built *)
(* (MatchGraphBuilder) and sorted (GraphSort), the nodes are laid out in   *)
(* that order, and what a user must look at is collected as conflicts.     *)
(*                                                                         *)
(* A unified entity is the triple of indices of the objects it stands for; *)
(* the body of a conflict is the triple of the objects it is about.        *)
(***************************************************************************)
EXTENDS ListLayout, FiniteSets

CONSTANTS
  Ops,       \* the operations tried
  Limits,    \* values of MAX_DETAILED_CONFLICTS, 0 when it is not set
  MaxNodes   \* match graphs of up to MaxNodes nodes are recognised

VARIABLES
  phase, pos, found, queue, node_src_indices, idx_to_node, choices, stats,
  graph,                                              \* the graph builder
  pc, in_deg, stk, visited, ordered, current, cyclic, \* the sort
  limit,
  stage,      \* where unify is: "build", "sort", "deletes", "inserts",
              \* "removals", then "returned", "merge_error" or "too_many"
  unified,
  conflicts,
  idx_to_remove

builder == <<len, matches, sources, phase, pos, found, queue,
             node_src_indices, idx_to_node, choices, stats>>
sorter  == <<pc, in_deg, stk, visited, ordered, current, cyclic>>
local   == <<op, limit, stage, unified, conflicts, idx_to_remove>>
vars    == <<builder, graph, sorter, local>>

ASSUME OpsAssumption == Ops \subseteq AllowedOps
ASSUME LimitsAssumption == Limits \subseteq Nat
ASSUME NodesAssumption == MaxNodes \in Nat

pick_first == PickFirst(op)

B == INSTANCE MatchGraphBuilder
S == INSTANCE GraphSort

Init ==
  /\ op \in Ops
  /\ limit \in Limits
  /\ B!Init
  /\ sources = OpSources[op]
  /\ S!StartSort
  /\ stage = "build"
  /\ unified = <<>> /\ conflicts = {} /\ idx_to_remove = {}

---------------------------------------------------------------------------
Build ==
  /\ stage = "build"
  /\ B!BuildGraph
  /\ UNCHANGED <<sorter, local>>

TooManyChoices == limit # 0 /\ Cardinality(choices) > limit

(* MaxThresholdExceededError: nothing is unified.                          *)
RaiseTooMany ==
  /\ stage = "build" /\ phase = "built"
  /\ TooManyChoices
  /\ stage' = "too_many"
  /\ UNCHANGED <<builder, graph, sorter, op, limit, unified, conflicts, idx_to_remove>>

ReportChoices ==
  /\ stage = "build" /\ phase = "built"
  /\ ~TooManyChoices
  /\ conflicts' = {Report("MANUAL_MERGE", NONE, t) : t \in choices}
  /\ stage' = "sort"
  /\ UNCHANGED <<builder, graph, sorter, op, limit, unified, idx_to_remove>>

Sort ==
  /\ stage = "sort"
  /\ UNCHANGED <<builder, local>>
  /\ S!SortGraph

Placed == [i \in DOMAIN ordered |-> node_src_indices[ordered[i]]]

(* Mutant: a fallback order is not reported.                               *)
PlaceSilently ==
  /\ stage = "sort" /\ pc = "sorted"
  /\ unified' = unified \o Placed
  /\ UNCHANGED conflicts
  /\ stage' = "deletes"
  /\ UNCHANGED <<builder, graph, sorter, op, limit, idx_to_remove>>

PlaceNodes ==
  /\ stage = "sort" /\ pc = "sorted"
  /\ unified' = unified \o Placed
  /\ conflicts' = conflicts \cup IF cyclic THEN {Report("REORDER", NONE, Nothing)} ELSE {}
  /\ stage' = "deletes"
  /\ UNCHANGED <<builder, graph, sorter, op, limit, idx_to_remove>>

(* Mutant: only the head entities that root does not have are put up.      *)
ReportNewHeadDeletes ==
  /\ stage = "deletes"
  /\ conflicts' =
       IF RaisesOnHeadDelete(op)
         THEN conflicts \cup {Report("ADD_BACK_TO_HEAD", NONE, Only("head", i)) :
                                i \in B!NotInResultNotRootMatchIdx(stats["head"])}
         ELSE conflicts
  /\ stage' = "inserts"
  /\ UNCHANGED <<builder, graph, sorter, op, limit, unified, idx_to_remove>>

ReportHeadDeletes ==
  /\ stage = "deletes"
  /\ conflicts' =
       IF RaisesOnHeadDelete(op)
         THEN conflicts \cup {Report("ADD_BACK_TO_HEAD", NONE, Only("head", i)) :
                                i \in B!NotInResultIdx(stats["head"])}
         ELSE conflicts
  /\ stage' = "inserts"
  /\ UNCHANGED <<builder, graph, sorter, op, limit, unified, idx_to_remove>>

(* The 0-based positions of the entities that only update has.             *)
NewUpdates == {idx \in 0 .. Len(unified) - 1 : IsNewUpdate(unified[idx + 1])}

(* Mutant: the new update entities are removed and not reported.           *)
DropNewUpdates ==
  /\ stage = "inserts"
  /\ idx_to_remove' = IF RaisesOnNewUpdate(op) THEN NewUpdates ELSE {}
  /\ stage' = "removals"
  /\ UNCHANGED <<builder, graph, sorter, op, limit, unified, conflicts>>

ReportNewUpdates ==
  /\ stage = "inserts"
  /\ IF RaisesOnNewUpdate(op)
       THEN /\ conflicts' = conflicts \cup
                 {Report("INSERT", idx, Only("update", unified[idx + 1].update)) :
                    idx \in NewUpdates}
            /\ idx_to_remove' = NewUpdates
       ELSE UNCHANGED <<conflicts, idx_to_remove>>
  /\ stage' = "removals"
  /\ UNCHANGED <<builder, graph, sorter, op, limit, unified>>

Delete(idx) ==
  /\ unified' = RemoveAt(unified, idx + 1)
  /\ idx_to_remove' = idx_to_remove \ {idx}
  /\ UNCHANGED <<builder, graph, sorter, op, limit, stage, conflicts>>

(* Mutant: each deletion shifts the positions that the next ones mean.     *)
DeleteLowest ==
  /\ stage = "removals"
  /\ \E idx \in idx_to_remove : (\A i \in idx_to_remove : idx <= i) /\ Delete(idx)

(* The deletions go from the last position to the first.                   *)
DeleteHighest ==
  /\ stage = "removals"
  /\ \E idx \in idx_to_remove : (\A i \in idx_to_remove : i <= idx) /\ Delete(idx)

(* MergeError if there is any conflict.                                    *)
Finish ==
  /\ stage = "removals" /\ idx_to_remove = {}
  /\ stage' = IF conflicts = {} THEN "returned" ELSE "merge_error"
  /\ UNCHANGED <<builder, graph, sorter, op, limit, unified, conflicts, idx_to_remove>>

Unify ==
  \/ Build \/ RaiseTooMany \/ ReportChoices \/ Sort \/ PlaceNodes
  \/ ReportHeadDeletes \/ ReportNewUpdates \/ DeleteHighest \/ Finish

(* unify is over: nothing happens any more.                                *)
Over == stage \in {"returned", "merge_error", "too_many"} /\ UNCHANGED vars

Next == Unify \/ Over

Spec == Init /\ [][Next]_vars

---------------------------------------------------------------------------
Unified == stage \in {"returned", "merge_error"}

Reported(type) == {c \in conflicts : c.type = type}

InUnified(x)       == \E k \in DOMAIN unified : x \in Members(unified[k])
InConflict(x, type) == \E c \in Reported(type) : x \in Members(c.body)

(* The graphs that are sorted are the ones that GraphSort starts from: two *)
(* chains, which only meet in the nodes of entities of both lists.         *)
(* Graphs of more than MaxNodes nodes are too many to be enumerated.       *)
BuiltGraphIsMatchGraph ==
  stage = "sort" /\ pc = "count" /\ Cardinality(S!Nodes) <= MaxNodes + 1 => S!IsMatchGraph

(* An entity of a list that is kept is in the result or in a conflict that *)
(* shows it to the user, whatever the sort and the deletions did.          *)
KeptOrShown ==
  Unified =>
    \A l \in sources : \A i \in 0 .. len[l] - 1 :
      \/ InUnified(<<l, i>>)
      \/ \E type \in {"MANUAL_MERGE", "INSERT"} : InConflict(<<l, i>>, type)

(* With a CONFLICT_ON_HEAD_DELETE operation, the head entities put up for  *)
(* ADD_BACK_TO_HEAD are those that the result does not have (list_unify.py *)
(* "Whether to raise error on deleting a head entity"), however the stats  *)
(* came by that knowledge.                                                 *)
HeadDeletesReported ==
  Unified =>
    \A i \in 0 .. len["head"] - 1 :
      InConflict(<<"head", i>>, "ADD_BACK_TO_HEAD")
        <=> RaisesOnHeadDelete(op) /\ ~InUnified(<<"head", i>>)

(* Inserting what the INSERT conflicts hold at the positions they give,    *)
(* from the lowest, rebuilds the order that the sort gave.                 *)
LastInsert == Max({0} \cup {c.idx + 1 : c \in Reported("INSERT")})

(* The list when the conflicts at the first n positions are dealt with.    *)
Inserted[n \in 0 .. LastInsert] ==
  IF n = 0 THEN unified
  ELSE IF \E c \in Reported("INSERT") : c.idx = n - 1
       THEN InsertAt(Inserted[n - 1], n, (CHOOSE c \in Reported("INSERT") : c.idx = n - 1).body)
       ELSE Inserted[n - 1]

InsertsRestoreTheOrder == Unified => Placed = Inserted[LastInsert]

(* Once unify is over, the stats that Merger publishes say what became of  *)
(* each entity: those in the result are in the list or held back as INSERT *)
(* conflicts (which stats.py:39 does not say), the pairs of root matches   *)
(* left out are those of an entity without a node and its only root        *)
(* candidate, and a root object counts as matched for nothing else.        *)
OnlyRoot(x) ==
  LET roots == Hits(Class(x), "root") IN IF Cardinality(roots) = 1 THEN roots ELSE {}

StatsDescribeLayout ==
  Unified =>
    \A l \in {"head", "update"} :
      LET in == {i \in 0 .. len[l] - 1 : InUnified(<<l, i>>) \/ InConflict(<<l, i>>, "INSERT")}
          matched == UNION {{i} \X OnlyRoot(<<l, i>>) : i \in 0 .. len[l] - 1}
      IN /\ stats[l].in_result_idx = in
         /\ B!NotInResultRootMatchPairs(stats[l]) = {p \in matched : p[1] \notin in}
         /\ B!NotMatchedRootIdx(stats[l], len["root"]) =
              (0 .. len["root"] - 1) \ {p[2] : p \in matched}

---------------------------------------------------------------------------
(* unify implements what ListLayout says of it, whatever its loops, its    *)
(* sort and its deletions do: the classes of the entities, unified or put  *)
(* up for a choice, in an order that respects the lists that are kept      *)
(* (config.py:66 "preserve the order relations between the entities in     *)
(* both lists") or with a REORDER conflict when there is none, and the     *)
(* conflicts that belong to that layout.                                   *)
P == INSTANCE UnifierPromise WITH
  outcome   <- IF Unified \/ stage = "too_many" THEN stage ELSE "running",
  placed    <- IF Unified THEN Placed ELSE <<>>,
  unified   <- IF Unified THEN unified ELSE <<>>,
  conflicts <- IF Unified THEN conflicts ELSE {}

ImplementsPromise == P!Spec

=============================================================================
