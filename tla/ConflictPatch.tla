--------------------------- MODULE ConflictPatch ---------------------------
(***************************************************************************)
(* Conflict.to_json (json_merger/conflict.py): a conflict as the           *)
(* operations of a JSON patch.  The path stays a path; NOTHING stands for  *)
(* the body of a conflict that has none.                                   *)
(***************************************************************************)
EXTENDS JsonPaths

PatchOp(type) ==
  IF type \in {"REORDER", "SET_FIELD"} THEN "replace"
  ELSE IF type = "REMOVE_FIELD" THEN "remove" ELSE "add"

End == "-"  \* the position after the last one of a list

PatchPath(c) == IF c.type \in {"MANUAL_MERGE", "ADD_BACK_TO_HEAD"} THEN Append(c.path, End) ELSE c.path

(* force_list: the body, or its elements one by one if it is a list.       *)
ForceList(body) == IF IsList(body) THEN body.elems ELSE <<body>>

(* Nothing is set to null, only removed.                                   *)
PatchValues(c) ==
  SelectSeq(ForceList(c.body), LAMBDA v : c.type = "REMOVE_FIELD" \/ v \notin {Null, NOTHING})

ToJson(c) ==
  [i \in DOMAIN PatchValues(c) |->
     [op |-> PatchOp(c.type), path |-> PatchPath(c), value |-> PatchValues(c)[i]]]

(* What `replace` does to a value where its target exists (RFC 6902).      *)
Replaced(obj, c) == FoldLeft(LAMBDA o, op : Set(o, op.path, op.value), obj, ToJson(c))
=============================================================================
