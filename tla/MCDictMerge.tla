---------------------------- MODULE MCDictMerge ----------------------------
(***************************************************************************)
(* Instances of DictMergeCases.                                            *)
(***************************************************************************)
EXTENDS DictMergeCases

CONSTANTS a, b

One == Base(<<"x">>)
Two == Base(<<"x", "y">>)
ListOf(x) == List(<<x>>)

(* Dictionaries of the keys of a set, each with one of its values or none. *)
DictsOf(f) == {Dict(d) : d \in UNION {{e \in [ks -> UNION Range(f)] : \A k \in ks : e[k] \in f[k]} :
                                        ks \in SUBSET DOMAIN f}}

Inner == DictsOf(a :> {One, ListOf(Two)} @@ b :> {One, Two, ListOf(One)})

Objects == DictsOf(a :> {One, Two, ListOf(One)} \cup Inner)

(* Fields and lists that the sides changed, added and removed.             *)
AsWhole == Objects \cup {One, Two, ListOf(One), NOTHING}

(* Lists of several elements under a.a, which is data: base values,        *)
(* objects and lists that the sides changed, and elements that they added  *)
(* or removed.                                                             *)
Elements == {One, Two, Dict(b :> One), Dict(b :> Two), ListOf(One)}

DataValues == {<<>>} \cup {<<x>> : x \in Elements}
                \cup {<<x, y>> : x \in {One, ListOf(One), ListOf(Two), Dict(b :> Two)}, y \in {One, Two}}

ListsIn == {Dict(a :> Dict(a :> List(s))) : s \in DataValues} \cup {EmptyDict, Dict(a :> EmptyDict)}

(* A list that is no data, of objects, and null in its place.              *)
ListsBeside == {Dict(b :> v) : v \in {Null, One, ListOf(Dict(b :> One)), ListOf(Dict(b :> Two))}}
                 \cup {EmptyDict}

Cases == {AsWhole, ListsIn, ListsBeside}

Spelled == a :> <<"a">> @@ b :> <<"b">>

(* The lists a.a, and those of b.a and b.a.a, are data.                    *)
Data == {<<"a", ".", "a">>, <<"b", ".", "a">>, <<"b", ".", "a", ".", "a">>}

(* Rules below the same field, and below a list, where the default is to   *)
(* keep the longest.                                                       *)
RulesByPath == <<"a", ".", "b">> :> "s" @@ <<"b">> :> "f" @@ <<"a", ".", "a", ".", "b">> :> "s"

ASSUME StringsAssumption == OnlyStrings

(* The whole object, and an element of its list b.                         *)
Places == {<<>>, <<b, 1>>}
=============================================================================
