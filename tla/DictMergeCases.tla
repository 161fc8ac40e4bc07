--------------------------- MODULE DictMergeCases ---------------------------
(***************************************************************************)
(* SkipListsMerger on every triple of values of a set: what a three-way    *)
(* merge that leaves out the shared lists must do.                         *)
(***************************************************************************)
EXTENDS DictMerge, ConflictPatch

CONSTANTS
  Families,  \* sets of values: those merged are of one of them
  KeyPaths   \* where in the whole object they are

ASSUME ValuesAssumption == \A v \in UNION Families : v = NOTHING \/ IsJson(v)

VARIABLES root, head, update, key_path, result

vars == <<root, head, update, key_path, result>>

Pending == Outcome(NOTHING, {}, {}, FALSE)

Init ==
  /\ \E values \in Families : root \in values /\ head \in values /\ update \in values
  /\ ~(head = NOTHING /\ update = NOTHING)
  /\ key_path \in KeyPaths
  /\ NOTHING \in {root, head, update} => key_path # <<>>
  /\ result = Pending

Merge ==
  /\ result = Pending
  /\ result' = MergeObjects(root, head, update, key_path)
  /\ UNCHANGED <<root, head, update, key_path>>

Done == result # Pending /\ UNCHANGED vars

Spec == Init /\ [][Merge \/ Done]_vars

---------------------------------------------------------------------------
Merged == result # Pending /\ ~result.raised

Dicts == IsDict(head) /\ IsDict(update)

OldRoot == IF Dicts /\ ~IsDict(root) THEN EmptyDict ELSE root

Unlisted(obj) == IF Dicts THEN CutLists(obj, result.skipped) ELSE obj

(* The changes that a side made, as patches, lists left out.  A side that  *)
(* is no dictionary changed as a whole.                                    *)
WholeChange(obj) == IF obj \in {root, NOTHING} THEN {}
                    ELSE {[type |-> "change", path |-> <<>>, value |-> obj]}
ChangesOf(obj) == IF Dicts THEN Diff(Unlisted(OldRoot), Unlisted(obj)) ELSE WholeChange(obj)

(* Whatever head or update changed, in the elements of a list that is data *)
(* too, is in the merged value, or a conflict shows it                     *)
(* (dict_merger.py:204, __init__.py:302).                                  *)
ChangesKeptOrShown ==
  Merged => \A p \in ChangesOf(head) \cup ChangesOf(update) :
              \/ Get(Unlisted(result.root), p.path) = p.value
              \/ PatchConflict(p) \in result.conflicts

(* The merged value differs from root only where head or update does, and  *)
(* has there what that side has: a list that both changed has elements of  *)
(* both, and no others (dict_merger.py:171).                               *)
NothingInvented ==
  Merged => IF Dicts
            THEN Diff(Unlisted(OldRoot), Unlisted(result.root)) \subseteq ChangesOf(head) \cup ChangesOf(update)
            ELSE result.root \in {head, update}

(* The lists that the merger will unify can be put in their place, and     *)
(* until then they are what they were in root, where null counts as none   *)
(* (test_two_list_edit_skipped_lists, dict_merger.py:127).                 *)
ListsAsInRoot ==
  Merged => \A p \in result.skipped :
              LET found == Get(OldRoot, p)
              IN Settable(result.root, p)
                 /\ Get(result.root, p) = IF found = Null THEN Missing ELSE found

(* Where one side did not change anything, the merge is the other side,    *)
(* and where both agree it is what they agree on; there is no conflict.    *)
OneSided(same, other, merge) ==
  same = other => result.conflicts = {} /\ Unlisted(result.root) = Unlisted(merge)

ThreeWayLaws ==
  Merged /\ NOTHING \notin {head, update} =>
    /\ OneSided(root, head, update)
    /\ OneSided(root, update, head)
    /\ OneSided(head, update, head)

(* Where the two sides disagree and the rule of the path, positions in     *)
(* lists left out of it, names a side (dict_merger.py:238), the            *)
(* other side's change is shown, and the change of the side named is in    *)
(* the merged value, unless it disagrees with another change too, whose    *)
(* rule is another.                                                        *)
Disagreements == Conflicting(ChangesOf(head), ChangesOf(update))

RuleOver(c) == RuleFor(key_path \o c[1].path)

RulesDecide ==
  Merged /\ Dicts =>
    \A c \in {d \in Disagreements : RuleOver(d) # "longest"} :
      LET n == IF RuleOver(c) = "f" THEN 1 ELSE 2
      IN /\ PatchConflict(c[3 - n]) \in result.conflicts
         /\ (\A d \in Disagreements : d[n] = c[n] => RuleOver(d) = RuleOver(c))
              => Get(Unlisted(result.root), c[n].path) = c[n].value

(* Every base value is a string: len raises TypeError on any other.        *)
OnlyStrings ==
  \A v \in UNION Families \ {NOTHING} : \A p \in PathsOf(v) :
    Get(v, p).kind = "base" => Len(Get(v, p).is) \in Nat

(* A field of the object, or a value in a list, that both sides changed    *)
(* has the longest of the two values where that is the rule                *)
(* (config.py:41), a field that one of them removed has the other's.  Not  *)
(* so in the fields of a field, whose values the rule does not get         *)
(* (dict_merger.py:213).                                                   *)
Measured(patch) ==
  Len(patch.path) = 1 \/ (patch.type = "change" /\ Fields(patch.path) # patch.path)

LongestKept ==
  Merged /\ Dicts =>
    \A c \in Disagreements :
      (c[1].path = c[2].path /\ Measured(c[1]) /\ RuleOver(c) = "longest") =>
        LET kept   == Get(Unlisted(result.root), c[1].path)
            values == {v \in {c[1].value, c[2].value} : ~IsNone(v)}
        IN values # {} => kept \in values /\ \A v \in values : Length(v) <= Length(kept)

---------------------------------------------------------------------------
SetFields == {c \in result.conflicts : c.type = "SET_FIELD" /\ c.path # <<>>}

(* Applying the JSON patch of a SET_FIELD conflict puts its body at its    *)
(* path (conflict.py:46).                                                  *)
PatchSetsBody ==
  Merged => \A c \in SetFields :
              Has(result.root, c.path) => Get(Replaced(result.root, c), c.path) = c.body

=============================================================================
