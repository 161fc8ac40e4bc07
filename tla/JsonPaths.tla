----------------------------- MODULE JsonPaths -----------------------------
(***************************************************************************)
(* JSON values and the key paths that lead into them                       *)
(* (json_merger/utils.py).  A dictionary and a list are both a function    *)
(* from steps to values: a step into a dictionary is a key, a step into a  *)
(* list is a position, counted from 1.  A path is a sequence of steps.     *)
(*                                                                         *)
(* Configuration strings are sequences of characters: a key only matters   *)
(* by itself, except where a string is compared with a prefix of another.  *)
(***************************************************************************)
EXTENDS Naturals, Sequences, FiniteSets, TLC, SequencesExt

CONSTANTS
  Keys,      \* the keys of dictionaries, model values
  Spelling,  \* the characters of each key
  MaxDepth   \* no value is nested deeper

ASSUME KeysAssumption == \A k \in Keys : k \notin Nat
ASSUME DepthAssumption == MaxDepth \in Nat
ASSUME SpellingAssumption == \A k \in Keys : Spelling[k] # <<>>

Base(x)   == [kind |-> "base", is |-> x]
Dict(f)   == [kind |-> "dict", at |-> f]
List(s)   == [kind |-> "list", elems |-> s]
EmptyDict == Dict(<<>>)

Null    == [kind |-> "null"]     \* JSON's null, Python's None
NOTHING == [kind |-> "nothing"]  \* the sentinel of an absent entity
Missing == [kind |-> "missing"]  \* what a get finds where there is nothing

IsDict(obj) == obj.kind = "dict"
IsList(obj) == obj.kind = "list"

IsContainer(obj) == IsDict(obj) \/ IsList(obj)

Children(obj) == IF IsDict(obj) THEN obj.at ELSE IF IsList(obj) THEN obj.elems ELSE <<>>

Steps(obj) == DOMAIN Children(obj)

(* get_obj_at_key_path, Missing where the code returns the default.        *)
Step(obj, k) == IF k \in Steps(obj) THEN Children(obj)[k] ELSE Missing

Get(obj, path) ==
  LET cur[i \in 0 .. Len(path)] == IF i = 0 THEN obj ELSE Step(cur[i - 1], path[i])
  IN cur[Len(path)]

Has(obj, path) == Get(obj, path) # Missing

(* set_obj_at_key_path raises KeyError unless the path is settable: its    *)
(* parent is a dictionary, or a list that has the position already.        *)
Settable(obj, path) ==
  path = <<>> \/ LET parent == Get(obj, Front(path))
                 IN IsDict(parent) \/ (IsList(parent) /\ Last(path) \in Steps(parent))

WithChildren(obj, f) == IF IsList(obj) THEN List(f) ELSE Dict(f)

(* Mutant: the parent is replaced by the one field.                        *)
WithStepAlone(obj, k, value) == WithChildren(obj, [j \in {k} |-> value])

WithStep(obj, k, value) ==
  WithChildren(obj, [j \in Steps(obj) \cup {k} |-> IF j = k THEN value ELSE Children(obj)[j]])

Set(obj, path, value) ==
  LET new[i \in 0 .. Len(path)] ==
        IF i = Len(path) THEN value
        ELSE WithStep(Get(obj, SubSeq(path, 1, i)), path[i + 1], new[i + 1])
  IN new[0]

(* With raise_key_error=False the object is left as it is.                 *)
SetIfSettable(obj, path, value) == IF Settable(obj, path) THEN Set(obj, path, value) ELSE obj

(* del_obj_at_key_path, and the removal of a position from a list, whose   *)
(* other values keep theirs.                                               *)
Del(obj, path) ==
  LET parent == Get(obj, Front(path))
  IN IF IsContainer(parent) /\ Last(path) \in Steps(parent)
     THEN Set(obj, Front(path),
              WithChildren(parent, [k \in Steps(parent) \ {Last(path)} |-> Children(parent)[k]]))
     ELSE obj

---------------------------------------------------------------------------
(* Every path into a value.                                                *)
PathsOf(obj) ==
  LET level[n \in 0 .. MaxDepth] ==
        IF n = 0 THEN {<<>>}
        ELSE UNION {{Append(p, k) : k \in Steps(Get(obj, p))} : p \in level[n - 1]}
  IN UNION {level[n] : n \in 0 .. MaxDepth}

(* A JSON value is finite, and so is its depth; the steps into its         *)
(* dictionaries are keys, those into its lists positions, and nothing in   *)
(* it is absent.                                                           *)
IsJson(obj) ==
  LET values == {Get(obj, p) : p \in PathsOf(obj)}
  IN /\ obj \in values /\ IsFiniteSet(PathsOf(obj))
     /\ \A p \in PathsOf(obj) : Len(p) = MaxDepth => Steps(Get(obj, p)) = {}
     /\ \A v \in values :
          /\ v = Null \/ v.kind \in {"base", "dict", "list"}
          /\ Range(Children(v)) \subseteq values
          /\ IsDict(v) => Steps(v) \subseteq Keys /\ v = Dict([k \in Steps(v) |-> v.at[k]])
          /\ IsList(v) => v.elems \in Seq(values) /\ v = List(v.elems)

Fields(path) ==
  FoldLeft(LAMBDA fields, k : IF k \in Keys THEN Append(fields, k) ELSE fields, <<>>, path)

(* _get_list_fields: the lists reached through dictionaries alone.         *)
ListFields(obj) == {p \in PathsOf(obj) : IsList(Get(obj, p)) /\ p \in Seq(Keys)}

---------------------------------------------------------------------------
(* Configuration strings.                                                  *)
Dot == <<".">>

Joined(fields) ==
  FoldLeft(LAMBDA s, k : IF s = <<>> THEN Spelling[k] ELSE s \o Dot \o Spelling[k], <<>>, fields)

(* get_dotted_key_path with filter_int_keys.                               *)
DottedPath(path) == Joined(Fields(path))

RemovePrefix(s, prefix) == SubSeq(s, Len(prefix) + 1, Len(s))

LStripDots(s) ==
  LET dots == {n \in 0 .. Len(s) : \A i \in 1 .. n : s[i] = "."}
  IN SubSeq(s, Max(dots) + 1, Len(s))

(* get_conf_set_for_key_path: the strings below a path, as seen from it.   *)
ConfSet(conf_set, path) ==
  LET prefix == DottedPath(path)
  IN {LStripDots(RemovePrefix(s, prefix)) : s \in {c \in conf_set : IsPrefix(prefix, c)}}
=============================================================================
