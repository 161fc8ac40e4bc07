----------------------------- MODULE UnifierOps -----------------------------
(***************************************************************************)
(* The operations on lists, and the tables that say what each of them does *)
(* (json_merger/list_unify.py).                                            *)
(***************************************************************************)

OpSources ==
  [KEEP_ONLY_UPDATE_ENTITIES                             |-> {"update"},
   KEEP_ONLY_HEAD_ENTITIES                               |-> {"head"},
   KEEP_UPDATE_AND_HEAD_ENTITIES_HEAD_FIRST              |-> {"update", "head"},
   KEEP_UPDATE_AND_HEAD_ENTITIES_UPDATE_FIRST            |-> {"update", "head"},
   KEEP_UPDATE_ENTITIES_CONFLICT_ON_HEAD_DELETE          |-> {"update"},
   KEEP_UPDATE_AND_HEAD_ENTITIES_CONFLICT_ON_HEAD_DELETE |-> {"update", "head"},
   KEEP_HEAD_ENTITIES_CONFLICT_ON_NEW_UPDATE             |-> {"head", "update"}]

AllowedOps == DOMAIN OpSources

PickFirst(op) ==
  IF op \in {"KEEP_ONLY_HEAD_ENTITIES", "KEEP_UPDATE_AND_HEAD_ENTITIES_HEAD_FIRST"}
    THEN "head" ELSE "update"

RaisesOnHeadDelete(op) ==
  op \in {"KEEP_UPDATE_ENTITIES_CONFLICT_ON_HEAD_DELETE",
          "KEEP_UPDATE_AND_HEAD_ENTITIES_CONFLICT_ON_HEAD_DELETE"}

RaisesOnNewUpdate(op) == op = "KEEP_HEAD_ENTITIES_CONFLICT_ON_NEW_UPDATE"
=============================================================================
