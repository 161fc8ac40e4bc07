---------------------------- MODULE AuthorMatch ----------------------------
(***************************************************************************)
(* Lists of authors matched by distance_function_match, with the           *)
(* normalisers and the distance of author_util.py, as the AuthorComparator *)
(* of test_merger_update.py combines them.                                 *)
(*                                                                         *)
(* An author has a name, and other fields that only tell authors apart.    *)
(***************************************************************************)
EXTENDS DistanceMatch, AuthorNames, TLC

CONSTANT AuthorLists  \* the contents that are lists of authors

Author(name, fields) == [full_name |-> name, fields |-> fields]

AllFirstNames == 10  \* no name has more

(* norm_functions: all first names, the first one, and its initial.        *)
AuthorNorms(authors) ==
  <<[x \in authors |-> NormalForm(x.full_name, AllFirstNames, FALSE)],
    [x \in authors |-> NormalForm(x.full_name, 1, FALSE)],
    [x \in authors |-> NormalForm(x.full_name, 1, TRUE)]>>

(* The distance functions that Munkres leaves open: any distance of each   *)
(* pair of names.                                                          *)
AuthorDistances(authors1, authors2) ==
  LET WithPair(p, fs) ==
        {f @@ (p :> d) : f \in fs, d \in NameDistances(p[1].full_name, p[2].full_name)}
  IN FoldSet(WithPair, {<<>>}, authors1 \X authors2)

---------------------------------------------------------------------------
NameAt(list, i) == list[i + 1].full_name

OnlyAt(list, i) == \A k \in Indices(list) : NameAt(list, k) = NameAt(list, i) => k = i

FullTokens(name) == {t \in Range(Tokens(name)) : ~IsInitial(t)}

(* Two authors of the same name, the only ones of that name in their       *)
(* lists, are matched, however near the other names are and whatever       *)
(* assignment is found; initials alone are no name.                        *)
SameNameMatched ==
  pc = "done" /\ <<l1, l2>> \in AuthorLists =>
    \A i \in Indices(l1), j \in Indices(l2) :
      /\ NameAt(l1, i) = NameAt(l2, j) /\ FullTokens(NameAt(l1, i)) # {}
      /\ OnlyAt(l1, i) /\ OnlyAt(l2, j)
      => <<i, j>> \in common

(* "Johnny, D will not be equal with Donny, J" (author_util.py:184): names *)
(* that agree in initials only, whose full words are all far from each     *)
(* other, are not matched.                                                 *)
OnlyInitialsNotEqual ==
  \A p \in common :
    \E t1 \in FullTokens(NameAt(l1, p[1])), t2 \in FullTokens(NameAt(l2, p[2])) :
      TokenDistance(t1, t2) <= Thresh
=============================================================================
