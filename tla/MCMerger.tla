------------------------------ MODULE MCMerger ------------------------------
(***************************************************************************)
(* Instances of Merger: objects with a list of entities at a and a field   *)
(* b; entities with a key k and a field b that is a base value or a list.  *)
(***************************************************************************)
EXTENDS Merger

CONSTANTS a, b, k

Spelled == a :> <<"a">> @@ b :> <<"b">> @@ k :> <<"k">>

AtA  == <<"a">>
AtAB == <<"a", ".", "b">>

(* The elements of the list b of the object are data.                      *)
Data == {<<"b">>}

(* The field b of the entities of a, and of the elements of a when it is   *)
(* left in, is kept from update where the default is to keep head.         *)
RulesByPath == AtAB :> "s"

Entity(x) == Dict(b :> Base(x))
Keyed(y, x) == Dict(k :> Base(y) @@ b :> Base(x))
ListOf(xs) == List([i \in DOMAIN xs |-> Base(xs[i])])
Holder(xs) == Dict(b :> ListOf(xs))
KeyedHolder(y, entities) == Dict(k :> Base(y) @@ b :> List(entities))
Object(entities) == Dict(a :> List(entities))
ObjectWith(entities, x) == Dict(a :> List(entities) @@ b :> Base(x))

Triple(roots, heads, updates) ==
  {[root |-> r, head |-> h, update |-> u] : r \in roots, h \in heads, u \in updates}

---------------------------------------------------------------------------
ByKey   == [primary_key_fields |-> {{<<k>>}}, normalization_functions |-> <<>>]
ByField == [primary_key_fields |-> {{<<b>>}}, normalization_functions |-> <<>>]
ByKeyOrRest == [primary_key_fields |-> {{<<a>>}, {<<k>>, <<b>>}}, normalization_functions |-> <<>>]
ByBoth  == [primary_key_fields |-> {{<<k>>, <<b>>}},
            normalization_functions |-> <<b>> :> (Base(2) :> Base(1))]

Config(comparators, ops, default) ==
  [comparators |-> comparators, list_merge_ops |-> ops, default_list_merge_op |-> default]

Unconfigured == {Config(<<>>, <<>>, "KEEP_UPDATE_AND_HEAD_ENTITIES_HEAD_FIRST")}

(* The entities of a compared by their key, and those of the lists in them *)
(* kept otherwise than those of a.                                         *)
ByPath ==
  {Config(AtA :> ByKey @@ AtAB :> ByKey,
          AtAB :> "KEEP_UPDATE_ENTITIES_CONFLICT_ON_HEAD_DELETE",
          "KEEP_UPDATE_AND_HEAD_ENTITIES_CONFLICT_ON_HEAD_DELETE"),
   Config(AtA :> ByKey, AtA :> "KEEP_HEAD_ENTITIES_CONFLICT_ON_NEW_UPDATE", "KEEP_ONLY_HEAD_ENTITIES"),
   Config(AtA :> ByBoth, AtA :> "KEEP_UPDATE_AND_HEAD_ENTITIES_UPDATE_FIRST",
          "KEEP_ONLY_UPDATE_ENTITIES"),
   Config(AtA :> ByField, <<>>, "KEEP_UPDATE_AND_HEAD_ENTITIES_CONFLICT_ON_HEAD_DELETE")}

(* Base values that are equal up to a normalization of the whole of them.  *)
Normalized == [primary_key_fields |-> {{<<>>}},
               normalization_functions |-> <<>> :> (Base(2) :> Base(1) @@ Base(3) :> Base(1))]

Customized == {Config(AtA :> Normalized, <<>>, "KEEP_UPDATE_AND_HEAD_ENTITIES_HEAD_FIRST")}

TwoKeySets == {Config(AtA :> ByKeyOrRest, <<>>, "KEEP_UPDATE_AND_HEAD_ENTITIES_HEAD_FIRST")}

AllConfigs == Unconfigured \cup Customized \cup ByPath \cup TwoKeySets

---------------------------------------------------------------------------
(* Entities and fields that the sides changed, added and removed.          *)
Flat == Triple({ObjectWith(<<Keyed(1, 1)>>, 1), EmptyDict},
               {ObjectWith(<<Keyed(2, 1), Keyed(1, 2)>>, 2), Object(<<Keyed(1, 1), Entity(1)>>)},
               {ObjectWith(<<Keyed(1, 3)>>, 1), ObjectWith(<<EmptyDict, Keyed(1, 2)>>, 3),
                Object(<<Keyed(1, 1), Keyed(2, 2), Entity(2)>>)})

(* Lists in entities, and lists of lists.                                  *)
Nested == Triple({Object(<<Holder(<<1>>)>>), Dict(a :> Base(1))},
                 {Object(<<Holder(<<1>>), Entity(2)>>), Object(<<Holder(<<1, 2>>), EmptyDict>>)},
                 {Object(<<Holder(<<2>>)>>), Object(<<Holder(<<1, 3>>), Entity(2)>>)})

NestedKeyed == Triple({Object(<<KeyedHolder(1, <<Keyed(1, 1)>>)>>), EmptyDict},
                      {Object(<<KeyedHolder(1, <<Keyed(1, 1), Keyed(2, 1)>>), Keyed(2, 1)>>),
                       Object(<<KeyedHolder(2, <<Keyed(1, 2)>>), KeyedHolder(1, <<>>)>>)},
                      {Object(<<KeyedHolder(1, <<Keyed(1, 2), Keyed(3, 1)>>)>>)})

ListsOfLists == Triple({Base(1)}, {List(<<List(<<Base(1)>>), Base(2)>>)}, {List(<<List(<<Base(2)>>)>>)})

(* The same key twice in head, and in update too: two choices, or four.    *)
ManyChoices == Triple({EmptyDict}, {Object(<<Keyed(1, 1), Keyed(1, 2), Keyed(2, 1)>>)},
                   {Object(<<Keyed(1, 3), Keyed(2, 2)>>), Object(<<Keyed(1, 3), Keyed(1, 1)>>)})

BaseEntities == Triple({Object(<<Base(1)>>)}, {Object(<<Base(2)>>)}, {Object(<<Base(3)>>)})

(* Lists in fields of fields, and lists that one side does not have.       *)
InFields == Triple({EmptyDict, Dict(a :> Keyed(3, 1))},
                   {Dict(a :> KeyedHolder(1, <<Base(1)>>)), Dict(a :> Holder(<<2>>))},
                   {Dict(a :> KeyedHolder(2, <<Base(1)>>)), Dict(a :> Base(2))})

NotShared == Triple({Object(<<Keyed(1, 1)>>)}, {Object(<<Keyed(1, 2)>>)},
                    {EmptyDict, Object(<<Object(<<Keyed(1, 3)>>)>>), ObjectWith(<<Keyed(1, 2)>>, 1)})

(* Lists of data that one side or both changed.                            *)
DataList(entities) == Dict(b :> List(entities))

DataLeftIn == Triple({DataList(<<Keyed(1, 1)>>)}, {DataList(<<Keyed(2, 1)>>), DataList(<<Keyed(1, 2), Base(1)>>)},
                     {DataList(<<Keyed(3, 1), Base(1)>>), EmptyDict})

(* A dictionary, or null, where head and update have lists: its keys are   *)
(* compared with their entities.                                           *)
RootOfKeys == Triple({Object(<<>>), Dict(a :> Keyed(1, 1)), Dict(a :> Null)},
                     {Dict(a :> ListOf(<<k, 1>>)), Dict(a :> ListOf(<<k, k>>))},
                     {Dict(a :> ListOf(<<1, b>>))})

(* Two matched by one key set, whose merge has the other key of a third:   *)
(* one part of it from head, one from update.                              *)
Rest(x, y, z) == Dict(a :> Base(x) @@ k :> Base(y) @@ b :> Base(z))

Mixed == Triple({Object(<<Rest(1, 1, 1)>>)},
                {Object(<<Rest(1, 2, 1), Rest(3, 2, 2)>>)}, {Object(<<Rest(1, 1, 2)>>)})

AllKinds ==
  Flat \cup Nested \cup NestedKeyed \cup ListsOfLists \cup ManyChoices \cup BaseEntities
    \cup InFields \cup NotShared \cup DataLeftIn \cup RootOfKeys \cup Mixed

(* Entities of one key, whose lists share an entity at two positions.      *)
KeyedList(xs) == Dict(k :> Base(1) @@ b :> ListOf(xs))

InnerMoved == Triple({Object(<<KeyedList(<<1>>)>>)}, {Object(<<KeyedList(<<1>>)>>)},
                     {Object(<<KeyedList(<<2, 1>>)>>)})

KeyedEntities == {Config(AtA :> ByKey, <<>>, "KEEP_UPDATE_AND_HEAD_ENTITIES_HEAD_FIRST")}
=============================================================================
