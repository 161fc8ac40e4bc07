--------------------------- MODULE UnifierPromise ---------------------------
(***************************************************************************)
(* The promise of a list unifier to the merger: in one step, it either     *)
(* gives up because of too many choices, or returns one of the layouts     *)
(* that ListLayout allows, with the conflicts that belong to it.           *)
(***************************************************************************)
EXTENDS ListLayout

CONSTANTS Ops, Limits

VARIABLES
  limit,
  outcome,    \* "running", then "returned", "merge_error" or "too_many"
  placed,     \* the order of the entities before any is held back
  unified,
  conflicts

result == <<outcome, placed, unified, conflicts>>

Init ==
  /\ InputInit
  /\ op \in Ops /\ sources = OpSources[op]
  /\ limit \in Limits
  /\ result = <<"running", <<>>, <<>>, {}>>

TooManyChoices == limit # 0 /\ Cardinality(Ambiguous) > limit

GiveUp ==
  /\ outcome = "running" /\ outcome' = "too_many"
  /\ TooManyChoices
  /\ UNCHANGED <<inputs, op, limit, placed, unified, conflicts>>

(* placed' is any order that IsOrder accepts.                              *)
Return ==
  /\ outcome = "running" /\ outcome' \in {"returned", "merge_error"}
  /\ ~TooManyChoices
  /\ IsOrder(placed')
  /\ unified' = LaidOut(placed')
  /\ conflicts' = ConflictsOf(placed')
  /\ outcome' = "returned" <=> conflicts' = {}
  /\ UNCHANGED <<inputs, op, limit>>

Next == GiveUp \/ Return

Spec == Init /\ [][Next]_<<inputs, op, limit, result>>
=============================================================================
