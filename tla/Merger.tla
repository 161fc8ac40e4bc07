------------------------------- MODULE Merger -------------------------------
(***************************************************************************)
(* Merger (json_merger/merger.py): the merge of whole objects.             *)
(*                                                                         *)
(* _recursive_merge is a stack of calls, the running one first.  A call    *)
(* merges what is not a list with MergeObjects of DictMerge, then unifies  *)
(* the lists that this leaves out, one after the other, and merges the     *)
(* objects of each unified triple with a call of its own.                  *)
(*                                                                         *)
(* Unifying two lists is what ListLayout says, which ListUnify implements: *)
(* the operation and the comparator of a list are those configured for its *)
(* path, and any order of its entities that ListLayout allows is tried.    *)
(***************************************************************************)
EXTENDS DictMerge, PrimaryKeys, UnifierOps

CONSTANTS
  Inputs,       \* the triples of root, head and update merged
  Configs,      \* the configurations tried: comparators and list operations
  Falsy,        \* the base values that are false in Python
  Limit         \* MAX_DETAILED_CONFLICTS, 0 when it is not set

ASSUME InputsAssumption ==
  \A i \in Inputs : DOMAIN i = {"root", "head", "update"} /\ \A side \in DOMAIN i : IsJson(i[side])
ASSUME ConfigsAssumption ==
  \A c \in Configs : Range(c.list_merge_ops) \cup {c.default_list_merge_op} \subseteq AllowedOps
ASSUME LimitAssumption == Limit \in Nat

VARIABLES
  inputs,
  config,
  calls,        \* the calls of _recursive_merge, innermost first
  merged_root,  \* NOTHING until the merge ends
  aligned,      \* aligned_root, aligned_head, aligned_update
  stats,        \* the unified triples behind the stats of each list, by path
  conflicts,
  outcome       \* "running", or how merge ended

vars == <<inputs, config, calls, merged_root, aligned, stats, conflicts, outcome>>

Sides == {"root", "head", "update"}

Call(path, objects) ==
  [path |-> path, root |-> objects.root, head |-> objects.head, update |-> objects.update,
   at |-> "entry", lists |-> {}, field |-> <<>>, unifier |-> NOTHING, unified |-> <<>>,
   new_list |-> <<>>]

Init ==
  /\ inputs \in Inputs /\ config \in Configs
  /\ calls = <<Call(<<>>, inputs)>>
  /\ merged_root = NOTHING
  /\ aligned = inputs
  /\ stats = <<>>
  /\ conflicts = {}
  /\ outcome = "running"

Top == calls[1]
SetTop(call) == calls' = <<call>> \o Tail(calls)
At(place) == outcome = "running" /\ Top.at = place

WithPrefix(c, path) == [c EXCEPT !.path = path \o @]

Raise(error) ==
  /\ outcome' = error
  /\ UNCHANGED <<inputs, config, calls, merged_root, aligned, stats, conflicts>>

---------------------------------------------------------------------------
(* The first branch of _recursive_merge: two lists of entities.            *)
BothLists == IsList(Top.head) /\ IsList(Top.update) /\ DottedPath(Top.path) \notin DataLists

MergeLists ==
  /\ At("entry") /\ BothLists
  /\ SetTop([Top EXCEPT !.at = "lists", !.lists = {<<>>}, !.root = IF IsList(@) THEN @ ELSE List(<<>>)])
  /\ UNCHANGED <<inputs, config, merged_root, aligned, stats, conflicts, outcome>>

(* Mutant: the conflicts of an entity keep their path within it.           *)
PrefixedRelative(cs, path) == cs

Prefixed(cs, path) == {WithPrefix(c, path) : c \in cs}

(* The second branch: _merge_objects.  A merge is not followed where the   *)
(* patches of a list shift each other.                                     *)
MergeObject ==
  /\ At("entry") /\ ~BothLists
  /\ \E m \in {MergeObjects(Top.root, Top.head, Top.update, Top.path)} :
       \/ m.raised /\ Raise(IF IsDict(Top.head) /\ IsDict(Top.update) THEN "shifting" ELSE "rule_error")
       \/ /\ ~m.raised
          /\ SetTop([Top EXCEPT !.at = "lists", !.root = m.root, !.lists = m.skipped])
          /\ conflicts' = conflicts \cup Prefixed(m.conflicts, Top.path)
          /\ UNCHANGED <<inputs, config, merged_root, aligned, stats, outcome>>

---------------------------------------------------------------------------
(* What the comparators enumerate at a field of a call's objects: an empty *)
(* list where root has none, the keys of a dictionary in some order.       *)
KeysAsList(obj) == List(SetToSeq({Base(k) : k \in Steps(obj)}))

ListAt(obj, path) ==
  LET found == Get(obj, path)
  IN IF found = Missing THEN List(<<>>) ELSE IF IsDict(found) THEN KeysAsList(found) ELSE found

ListsAt(call, field) == [side \in Sides |-> ListAt(call[side], field)]

AbsolutePath(call) == call.path \o call.field

(* Mutant: what is configured for the path from the entity is used.        *)
ConfiguredRelative(table, default, path) ==
  LET dotted == Joined(SelectSeq(path, LAMBDA k : k = Last(path) /\ k \in Keys))
  IN IF dotted \in DOMAIN table THEN table[dotted] ELSE default

(* What is configured for the list at a path, in the whole object.         *)
Configured(table, default, path) ==
  IF DottedPath(path) \in DOMAIN table THEN table[DottedPath(path)] ELSE default

ComparatorAt(path) == Configured(config.comparators, DefaultComparator, path)
OperationAt(path)  == Configured(config.list_merge_ops, config.default_list_merge_op, path)

Positions(list) == 0 .. Len(list.elems) - 1

(* The object of an entity or of an absent one, in the three lists.        *)
ObjectOf(lists, x) == IF x[2] < 0 THEN NOTHING ELSE lists[x[1]].elems[x[2] + 1]

Compared(lists, comparator, pairs) ==
  UNION {{p \in ({c[1]} \X Positions(lists[c[1]])) \X ({c[2]} \X Positions(lists[c[2]])) :
            Equal(comparator, ObjectOf(lists, p[1]), ObjectOf(lists, p[2]))} : c \in pairs}

(* Mutant: head and update are compared with root alone.                   *)
MatchesWithRoot(lists, comparator) ==
  Compared(lists, comparator, {<<"root", "head">>, <<"root", "update">>})

(* process_lists of the three comparators.                                 *)
MatchesOf(lists, comparator) ==
  Compared(lists, comparator, {<<"root", "head">>, <<"root", "update">>, <<"head", "update">>})

(* A list unifier: the three lists, their matches and the operation.       *)
Unifier(lists, path) ==
  [lists   |-> lists,
   len     |-> [side \in Sides |-> Len(lists[side].elems)],
   matches |-> MatchesOf(lists, ComparatorAt(path)),
   op      |-> OperationAt(path)]

(* What unify makes of the unifier of the running call.                    *)
U == INSTANCE ListLayout WITH
  Lengths <- [Sides -> Nat], len <- Top.unifier.len, matches <- Top.unifier.matches,
  op <- Top.unifier.op, sources <- OpSources[Top.unifier.op]

(* The objects of a triple of indices.                                     *)
ObjectsOf(lists, t) == [side \in Sides |-> ObjectOf(lists, <<side, t[side]>>)]

Unified(lists, placed) ==
  LET layout == U!LaidOut(placed) IN [i \in DOMAIN layout |-> ObjectsOf(lists, layout[i])]

(* What the unifier reports, as conflicts of the list.                     *)
AsConflict(lists, c) ==
  LET objects == ObjectsOf(lists, c.body)
      body == CASE c.type = "MANUAL_MERGE"     -> objects
                [] c.type = "REORDER"          -> NOTHING
                [] c.type = "ADD_BACK_TO_HEAD" -> objects.head
                [] c.type = "INSERT"           -> objects.update
  IN Conflict(c.type, IF c.idx < 0 THEN <<>> ELSE <<c.idx + 1>>, body)

ListConflicts(lists, placed) == {AsConflict(lists, c) : c \in U!ConflictsOf(placed)}

TooManyChoices == Limit # 0 /\ Cardinality(U!Ambiguous) > Limit

(* The next list: _unify_lists makes its unifier.                          *)
StartList ==
  /\ At("lists")
  /\ \E field \in Top.lists : \E lists \in {ListsAt(Top, field)} :
       /\ IsList(lists.root)
       /\ SetTop([Top EXCEPT !.at = "unify", !.field = field,
                             !.unifier = Unifier(lists, Top.path \o field)])
  /\ UNCHANGED <<inputs, config, merged_root, aligned, stats, conflicts, outcome>>

(* build_graph reads the choices out of the lists that it was given: a     *)
(* dictionary has no value at an index.                                    *)
RootIndexed ==
  IsDict(Get(Top.root, Top.field)) /\ \E choice \in U!Ambiguous : choice.root >= 0

RootKeyError == At("unify") /\ RootIndexed /\ Raise("root_error")

(* MaxThresholdExceededError is no MergeError: nothing catches it.         *)
TooManyToUnify == At("unify") /\ ~RootIndexed /\ TooManyChoices /\ Raise("threshold")

(* unify, whose MergeError gives its conflicts.                            *)
UnifyLists ==
  /\ At("unify") /\ ~RootIndexed /\ ~TooManyChoices
  /\ \E placed \in U!Orders :
       /\ SetTop([Top EXCEPT !.at = "elements",
                             !.unified = Unified(Top.unifier.lists, placed), !.new_list = <<>>])
       /\ conflicts' =
            conflicts \cup Prefixed(ListConflicts(Top.unifier.lists, placed), AbsolutePath(Top))
  /\ UNCHANGED <<inputs, config, merged_root, aligned, stats, outcome>>

(* A root that is neither list nor dictionary where head and update have   *)
(* lists: a number cannot be iterated over.                                *)
RootNotAList ==
  /\ At("lists")
  /\ \E field \in Top.lists : ~IsList(ListsAt(Top, field).root)
  /\ Raise("root_error")

ElementPath(call) == AbsolutePath(call) \o <<Len(call.new_list) + 1>>

MergeElement ==
  /\ At("elements") /\ Len(Top.new_list) < Len(Top.unified)
  /\ calls' = <<Call(ElementPath(Top), Top.unified[Len(Top.new_list) + 1])>> \o calls
  /\ UNCHANGED <<inputs, config, merged_root, aligned, stats, conflicts, outcome>>

(* Mutant: merged entities are put in front.                               *)
InsertedInFront(list, obj) == <<obj>> \o list

Appended(list, obj) == Append(list, obj)

ReturnElement ==
  /\ At("lists") /\ Top.lists = {} /\ Len(calls) > 1
  /\ calls' = <<[calls[2] EXCEPT !.new_list = Appended(@, Top.root)]>> \o Tail(Tail(calls))
  /\ UNCHANGED <<inputs, config, merged_root, aligned, stats, conflicts, outcome>>

---------------------------------------------------------------------------
(* _build_aligned_lists_and_stats.                                         *)
PLACEHOLDER_STR == Base("placeholder")

IsFalse(obj) == obj \in {NOTHING, Null, EmptyDict, List(<<>>)} \cup {Base(x) : x \in Falsy}

OrPlaceholder(obj) == IF IsFalse(obj) THEN PLACEHOLDER_STR ELSE obj

(* Mutant: what is NOTHING is left out instead of held by a placeholder.   *)
AlignedListShort(unified, side) ==
  List(SelectSeq([i \in DOMAIN unified |-> unified[i][side]], LAMBDA obj : ~IsFalse(obj)))

AlignedList(unified, side) == List([i \in DOMAIN unified |-> OrPlaceholder(unified[i][side])])

ListsLeft(call) == call.lists \ {call.field}

FinishList ==
  /\ At("elements") /\ Len(Top.new_list) = Len(Top.unified)
  /\ SetTop([Top EXCEPT !.at = "lists", !.lists = ListsLeft(Top),
                        !.root = Set(@, Top.field, List(Top.new_list))])
  /\ aligned' = [side \in Sides |->
                   SetIfSettable(aligned[side], AbsolutePath(Top), AlignedList(Top.unified, side))]
  /\ stats' = [p \in DOMAIN stats \cup {AbsolutePath(Top)} |->
                 IF p = AbsolutePath(Top) THEN Top.unified ELSE stats[p]]
  /\ UNCHANGED <<inputs, config, merged_root, conflicts, outcome>>

(* merge: the conflicts, if any, are raised as a MergeError.               *)
Return ==
  /\ At("lists") /\ Top.lists = {} /\ Len(calls) = 1
  /\ merged_root' = Top.root
  /\ outcome' = IF conflicts = {} THEN "merged" ELSE "conflicts"
  /\ UNCHANGED <<inputs, config, calls, aligned, stats, conflicts>>

Done == outcome # "running" /\ UNCHANGED vars

Merge ==
  \/ MergeLists \/ MergeObject
  \/ StartList \/ RootKeyError \/ TooManyToUnify \/ UnifyLists \/ RootNotAList
  \/ MergeElement \/ ReturnElement
  \/ FinishList \/ Return

Next == Merge \/ Done

Spec == Init /\ [][Next]_vars

---------------------------------------------------------------------------
Merged == outcome \in {"merged", "conflicts"}

(* Every unified list is in the merged object at its path, and its         *)
(* entities in the places of their triples: an entity of one side alone is *)
(* that side's, an entity without lists on which both agree is theirs.     *)
HasLists(obj) == \E p \in PathsOf(obj) : IsList(Get(obj, p))

EntityOf(t, obj) ==
  /\ t.head = NOTHING => obj = t.update
  /\ t.update = NOTHING => obj = t.head
  /\ t.head = t.update /\ ~HasLists(t.head) => obj = t.head

EntitiesInPlace ==
  Merged => \A p \in DOMAIN stats :
              LET list == Get(merged_root, p)
              IN IsList(list) /\ Len(list.elems) = Len(stats[p])
                 /\ \A i \in DOMAIN stats[p] : EntityOf(stats[p][i], list.elems[i])

(* The triple of an entity of the merged object, and the objects that a    *)
(* path of the merged object comes from: those of the triple of the        *)
(* innermost entity on it, followed along the rest of it.                  *)
TripleAt(entity) == IF entity = <<>> THEN inputs ELSE stats[Front(entity)][Last(entity)]

EntityPath(path) ==
  SubSeq(path, 1, Max({0} \cup {i \in DOMAIN path : path[i] \notin Keys}))

Behind(path, side) ==
  LET entity == EntityPath(path)
  IN Get(TripleAt(entity)[side], SubSeq(path, Len(entity) + 1, Len(path)))

EntitiesBehind(path, side) ==
  LET found == Behind(path, side)
  IN IF IsList(found) THEN Range(found.elems)
     ELSE IF IsDict(found) THEN {Base(k) : k \in Steps(found)} ELSE {}

(* The entities on a path of the merged object, which is one itself; a     *)
(* position in a list that was not unified leads to none.                  *)
EntitiesOn(path) ==
  {SubSeq(path, 1, n) : n \in {m \in 0 .. Len(path) : m = 0 \/ SubSeq(path, 1, m - 1) \in DOMAIN stats}}

(* The conflict is about a field of an entity in the merged object, and    *)
(* says what head or update has there, apart from the lists of the entity  *)
(* that are unified.                                                       *)
WantedThere(c, entity, field) ==
  LET triple == TripleAt(entity)
      lists  == SkippedLists(triple.head, triple.update, entity)
  IN /\ Has(merged_root, entity)
     /\ \A list \in lists : ~IsPrefix(list, field)
     /\ (IF c.type = "SET_FIELD" THEN c.body ELSE Missing)
          \in {Get(CutLists(triple[side], lists), field) : side \in {"head", "update"}}

(* A conflict points into the merged object at what it is about: at a      *)
(* field that head or update wanted to be what the conflict says, lists    *)
(* apart, at a list whose entities cannot be ordered or matched, at the    *)
(* place in its list of an entity held back.                               *)
ConflictsLocated ==
  Merged => \A c \in conflicts :
    CASE c.type \in {"SET_FIELD", "REMOVE_FIELD"} ->
           \E entity \in EntitiesOn(c.path) :
             WantedThere(c, entity, SubSeq(c.path, Len(entity) + 1, Len(c.path)))
      [] c.type = "REORDER" -> c.path \in DOMAIN stats
      [] c.type = "MANUAL_MERGE" ->
           /\ c.path \in DOMAIN stats
           /\ \A side \in Sides : c.body[side] \in EntitiesBehind(c.path, side) \cup {NOTHING}
      [] c.type = "ADD_BACK_TO_HEAD" ->
           /\ c.path \in DOMAIN stats
           /\ c.body \in EntitiesBehind(c.path, "head")
      [] c.type = "INSERT" ->
           /\ Front(c.path) \in DOMAIN stats
           /\ c.body \in EntitiesBehind(Front(c.path), "update")

(* The operation configured for the path of a list in the whole object     *)
(* decides which lists keep their entities: each of those is unified, or   *)
(* shown in a conflict at that list.                                       *)
KeptAt(path) ==
  OpSources[IF DottedPath(path) \in DOMAIN config.list_merge_ops
            THEN config.list_merge_ops[DottedPath(path)] ELSE config.default_list_merge_op]

ShownAt(path, side, entity) ==
  \E c \in conflicts :
    \/ c.type = "MANUAL_MERGE" /\ c.path = path /\ c.body[side] = entity
    \/ c.type = "INSERT" /\ Front(c.path) = path /\ c.body = entity

EntitiesKeptOrShown ==
  Merged => \A p \in DOMAIN stats :
    /\ \A side \in KeptAt(p) : \A entity \in EntitiesBehind(p, side) :
         (\E i \in DOMAIN stats[p] : stats[p][i][side] = entity) \/ ShownAt(p, side, entity)
    /\ \A i \in DOMAIN stats[p] : \E side \in KeptAt(p) : stats[p][i][side] # NOTHING

(* Where neither head nor update has two entities that are equal to the    *)
(* comparator of the list's path, two merged entities have the same key    *)
(* only if one of them has taken its key partly from head and partly from  *)
(* update: no object of its triple has that key (comparator.py:67,         *)
(* merger.py:262).                                                         *)
ComparedAt(path) ==
  IF DottedPath(path) \in DOMAIN config.comparators
    THEN config.comparators[DottedPath(path)] ELSE DefaultComparator

Distinct(path, list) ==
  \A i, j \in DOMAIN list : i # j => ~Equal(ComparedAt(path), list[i], list[j])

OneKey(comparator, key) == [comparator EXCEPT !.primary_key_fields = {key}]

KeyMixed(triple, obj, comparator) ==
  \A side \in {"head", "update"} : triple[side] # NOTHING => ~Equal(comparator, triple[side], obj)

OnlyMixedKeysCollide ==
  Merged => \A p \in DOMAIN stats :
    LET merged == Get(merged_root, p).elems
    IN (\A side \in {"head", "update"} :
          Behind(p, side) # Missing => Distinct(p, Behind(p, side).elems))
       => \A key \in ComparedAt(p).primary_key_fields : \A i, j \in DOMAIN merged :
            LET one_key == OneKey(ComparedAt(p), key)
            IN i # j /\ Equal(one_key, merged[i], merged[j])
                 => \E n \in {i, j} : KeyMixed(stats[p][n], merged[n], one_key)

(* In the aligned copies the lists that are in no other list have the      *)
(* objects of one triple at one position.                                  *)
AlignedAt(p) ==
  \A side \in Sides : Settable(inputs[side], p) =>
    LET list == Get(aligned[side], p)
    IN /\ IsList(list) /\ Len(list.elems) = Len(stats[p])
       /\ \A i \in DOMAIN stats[p] : list.elems[i] = OrPlaceholder(stats[p][i][side])

OutermostAligned == Merged => \A p \in DOMAIN stats : p \in Seq(Keys) => AlignedAt(p)

---------------------------------------------------------------------------
(* What the documentation says of a merge.                                 *)

(* In the aligned copies all matched list entities have the same list      *)
(* index, those of lists in lists too (merger.py:146).                     *)
AllListsAligned ==
  Merged => \A p \in DOMAIN stats : \A i \in DOMAIN stats[p] :
    LET t == stats[p][i]
    IN NOTHING \notin {t.head, t.update} =>
         Get(aligned.head, Append(p, i)) = t.head /\ Get(aligned.update, Append(p, i)) = t.update

(* Even if conflicts occur, merged_root is populated (merger.py:218).      *)
MergedPopulated == outcome \notin {"running", "shifting"} => merged_root # NOTHING

=============================================================================
