----------------------------- MODULE DictMerge -----------------------------
(***************************************************************************)
(* SkipListsMerger (json_merger/dict_merger.py): the three-way merge of    *)
(* everything but the lists that head and update share.  Those are cut out *)
(* of the three values, what is left is merged by inspire_dictdiffer, its  *)
(* conflicts are decided by the rule of their path, and the lists are put  *)
(* back as they were in root.                                              *)
(*                                                                         *)
(* inspire_dictdiffer is external.  It looks into dictionaries and into    *)
(* the lists that were not cut alike (data_lists: "treats list indices as  *)
(* dictionary keys").  A patch is a minimal differing path: both values    *)
(* have dictionaries, or both lists, above it, and differ at it.           *)
(***************************************************************************)
EXTENDS JsonPaths

CONSTANTS
  DataLists,    \* the configuration strings of the lists that are data
  Rules,        \* configuration strings to "f" (keep head), "s" (keep update) or "longest"
  DefaultRule

ASSUME RulesAssumption == Range(Rules) \cup {DefaultRule} \subseteq {"f", "s", "longest"}

Conflict(type, path, body) == [type |-> type, path |-> path, body |-> body]

Outcome(root, conflicts, skipped, raised) ==
  [root |-> root, conflicts |-> conflicts, skipped |-> skipped, raised |-> raised]

(* _get_rule_for_field: the rule of the nearest configured ancestor.       *)
RuleFor(path) ==
  LET fields == Fields(path)
      ruled  == {n \in 1 .. Len(fields) : Joined(SubSeq(fields, 1, n)) \in DOMAIN Rules}
  IN IF ruled = {} THEN DefaultRule ELSE Rules[Joined(SubSeq(fields, 1, Max(ruled)))]

(* len.  A base value that is measured is a string.                        *)
Length(obj) ==
  IF IsDict(obj) THEN Cardinality(Steps(obj)) ELSE Len(IF IsList(obj) THEN obj.elems ELSE obj.is)

IsNone(obj) == obj \in {Missing, Null}

(* Mutant: the shorter of the two is kept.                                 *)
KeepShortest(head, update) ==
  IF IsNone(update) \/ (~IsNone(head) /\ Length(head) <= Length(update)) THEN "f" ELSE "s"

KeepLongest(head, update) ==
  IF IsNone(update) \/ (~IsNone(head) /\ Length(head) >= Length(update)) THEN "f" ELSE "s"

(* The side that a rule keeps, "f" or "s".                                 *)
Decide(rule, head, update) == IF rule = "longest" THEN KeepLongest(head, update) ELSE rule

---------------------------------------------------------------------------
(* _merge_base_values.  A conflict of entities raises TypeError: the rule *)
(* is looked up with the key path twice, a list plus a tuple.              *)
Agreed(root, head, update) ==
  \/ head = update \/ NOTHING \in {head, update} \/ root \in {head, update}

(* Mutant: an update that was not changed wins over head's change.         *)
UpdateWinsUnchanged(root, head, update) ==
  head # update /\ (head = NOTHING \/ (update # NOTHING /\ (head = root \/ update = root)))

UpdateWins(root, head, update) ==
  head # update /\ (head = NOTHING \/ (update # NOTHING /\ head = root))

MergeBaseValues(root, head, update, key_path) ==
  IF Agreed(root, head, update)
  THEN Outcome(IF UpdateWins(root, head, update) THEN update ELSE head, {}, {}, FALSE)
  ELSE IF key_path # <<>> THEN Outcome(NOTHING, {}, {}, TRUE)
  ELSE LET strategy == Decide(DefaultRule, head, update)
           kept     == IF strategy = "f" THEN head ELSE update
           lost     == IF strategy = "f" THEN update ELSE head
       IN Outcome(kept, {Conflict("SET_FIELD", <<>>, lost)}, {}, FALSE)

---------------------------------------------------------------------------
(* A patch removes what is at a path, or sets a value there.               *)
Removal(path)        == [type |-> "remove", path |-> path, value |-> Missing]
Setting(path, value) == [type |-> "add", path |-> path, value |-> value]

Apply(patch, obj) ==
  IF patch.type = "remove" THEN Del(obj, patch.path) ELSE Set(obj, patch.path, patch.value)

Applied(patches, obj) == FoldSet(Apply, obj, patches)

(* _build_skipped_lists.                                                   *)
SkippedLists(head, update, key_path) ==
  {p \in ListFields(head) \cap ListFields(update) :
     DottedPath(p) \notin ConfSet(DataLists, key_path)}

CutLists(obj, lists) == Applied({Removal(p) : p \in lists}, obj)

(* Mutant: the lists are not put back into root.                           *)
RestoreNothing(cut, root, lists) == cut

(* _restore_lists, for root: the only one that is read afterwards.  A null *)
(* is not put back.                                                        *)
RestoreLists(cut, root, lists) ==
  Applied({Setting(p, Get(root, p)) : p \in {l \in lists : ~IsNone(Get(root, l))}}, cut)

---------------------------------------------------------------------------
(* The patches of inspire_dictdiffer, and which of them conflict.          *)
SameKind(v, w) == IsContainer(v) /\ v.kind = w.kind

Differing(a, b) ==
  {p \in (PathsOf(a) \cup PathsOf(b)) \ {<<>>} :
     /\ SameKind(Get(a, Front(p)), Get(b, Front(p)))
     /\ Get(a, p) # Get(b, p)
     /\ ~SameKind(Get(a, p), Get(b, p))}

Patch(a, b, p) ==
  [type  |-> IF ~Has(b, p) THEN "remove" ELSE IF Has(a, p) THEN "change" ELSE "add",
   path  |-> p,
   value |-> Get(b, p)]

Diff(a, b) == {Patch(a, b, p) : p \in Differing(a, b)}

Conflicting(first, second) ==
  {c \in first \X second :
     c[1] # c[2] /\ (IsPrefix(c[1].path, c[2].path) \/ IsPrefix(c[2].path, c[1].path))}

(* patch_to_conflict_set.  The key path of a patch below a list comes as a *)
(* list, any other as a dotted string: both are the path again.            *)
PatchConflict(patch) ==
  IF patch.type = "remove" THEN Conflict("REMOVE_FIELD", patch.path, NOTHING)
  ELSE Conflict("SET_FIELD", patch.path, patch.value)

(* What _get_rule_for_field finds of a side at the path of a patch.  The   *)
(* field of the patch is a list if it leads into a list, otherwise one     *)
(* dotted string, which with several keys is no key; the step added or     *)
(* removed comes apart, and is left out where it is the first position,    *)
(* index 0.                                                                *)
Found(obj, patch) ==
  LET field == IF patch.type = "change" THEN patch.path ELSE Front(patch.path)
      step  == IF patch.type = "change" \/ Last(patch.path) = 1 THEN <<>> ELSE <<Last(patch.path)>>
  IN IF Fields(field) = field /\ Len(field) > 1 THEN Missing ELSE Get(obj, field \o step)

(* Mutant: the rules are looked up from the entity, not from the top.      *)
StrategyRelative(c, head, update, key_path) ==
  Decide(RuleFor(c[1].path), Found(head, c[1]), Found(update, c[1]))

(* _get_custom_strategy: the rule of the path of head's patch decides.     *)
Strategy(c, head, update, key_path) ==
  Decide(RuleFor(key_path \o c[1].path), Found(head, c[1]), Found(update, c[1]))

(* The patch that inspire_dictdiffer leaves out, given the strategy.       *)
Dropped(c, strategy) == IF strategy = "f" THEN c[2] ELSE c[1]

(* Mutant: the patch that was applied is reported.                         *)
ReportedApplied(c, strategy) == IF strategy = "f" THEN c[1] ELSE c[2]

(* _solve_dict_conflicts: the patch that is reported.                      *)
Reported(c, strategy) == IF strategy = "f" THEN c[2] ELSE c[1]

(* The positions of a list shift under a patch when a removal comes before *)
(* one that leads to a later position.  An addition that both sides made   *)
(* is there twice.                                                         *)
Shifting(patches, both) ==
  \E p \in {q \in patches : Last(q.path) \in Nat} :
    \/ p.type = "add" /\ p \in both
    \/ /\ p.type = "remove"
       /\ \E q \in patches : /\ IsPrefix(Front(p.path), q.path) /\ Len(q.path) >= Len(p.path)
                            /\ q.path[Len(p.path)] > Last(p.path)

(* Removals are applied before the rest.                                   *)
ApplyPatches(root, patches) ==
  LET removals == {p \in patches : p.type = "remove"}
  IN Applied(patches \ removals, Applied(removals, root))

(* What the library makes of patches that shift each other is not shown by *)
(* this code: the model ends there.                                        *)
MergeDicts(oldroot, oldhead, oldupdate, key_path) ==
  LET root      == IF IsDict(oldroot) THEN oldroot ELSE EmptyDict
      skipped   == SkippedLists(oldhead, oldupdate, key_path)
      cut       == CutLists(root, skipped)
      head      == CutLists(oldhead, skipped)
      update    == CutLists(oldupdate, skipped)
      first     == Diff(cut, head)
      second    == Diff(cut, update)
      conflicts == Conflicting(first, second)
      StrategyOf(c) == Strategy(c, head, update, key_path)
      Unified(p, n) == \A c \in conflicts : c[n] = p => Dropped(c, StrategyOf(c)) # p
      unified   == {p \in first : Unified(p, 1)} \cup {p \in second : Unified(p, 2)}
  IN IF Shifting(unified, first \cap second) THEN Outcome(NOTHING, {}, {}, TRUE)
     ELSE Outcome(ApplyPatches(RestoreLists(cut, root, skipped), unified),
                  {PatchConflict(Reported(c, StrategyOf(c))) : c \in conflicts},
                  skipped, FALSE)

(* SkipListsMerger.merge.                                                  *)
MergeObjects(root, head, update, key_path) ==
  IF IsDict(head) /\ IsDict(update)
  THEN MergeDicts(root, head, update, key_path)
  ELSE MergeBaseValues(root, head, update, key_path)
=============================================================================
