---------------------------- MODULE MatchStats ----------------------------
(***************************************************************************)
(* ListMatchStats (json_merger/stats.py): what became of each entity of    *)
(* one list, and which root entity it was matched with.  A stats object is *)
(* a record with the three attributes that the class stores; the others    *)
(* are properties computed from them.                                      *)
(***************************************************************************)
EXTENDS Integers

NewStats(n) ==
  [lst                          |-> 0 .. n - 1,
   in_result_idx                |-> {},
   not_in_result_root_match_idx |-> {},
   root_matches                 |-> [i \in 0 .. n - 1 |-> -1]]

(* Mutant: an index moved to the result stays in the other set.            *)
MoveToResultKeeps(st, idxs) == [st EXCEPT !.in_result_idx = @ \cup idxs]

(* move_to_result, called for every index in idxs.                         *)
MoveToResult(st, idxs) ==
  [st EXCEPT !.in_result_idx = @ \cup idxs,
             !.not_in_result_root_match_idx = @ \ idxs]

AddRootMatch(st, lst_idx, root_idx) ==
  [st EXCEPT !.root_matches[lst_idx] = root_idx,
             !.not_in_result_root_match_idx =
                 IF lst_idx \in st.in_result_idx THEN @ ELSE @ \cup {lst_idx}]

NotInResultIdx(st) == st.lst \ st.in_result_idx

NotInResultNotRootMatchIdx(st) ==
  NotInResultIdx(st) \ st.not_in_result_root_match_idx

(* The pairs of (list, root) indices; -1 would be Python's last element.   *)
NotInResultRootMatchPairs(st) ==
  {<<i, st.root_matches[i]>> : i \in st.not_in_result_root_match_idx}

(* The root indices behind not_matched_root_objects.                       *)
NotMatchedRootIdx(st, root_len) ==
  (0 .. root_len - 1) \ {st.root_matches[i] : i \in st.lst}
=============================================================================
