---------------------------- MODULE MatchInputs ----------------------------
(***************************************************************************)
(* What a ListMatchGraphBuilder (json_merger/graph_builder.py) is given:   *)
(* three versions of a list, the pairs of entities that the three          *)
(* comparators hold equal, and the lists whose entities are kept.          *)
(*                                                                         *)
(* An entity is <<list, index>>, with the 0-based index of the code.  Its  *)
(* content matters only through the comparators, and a comparator class    *)
(* may fill its `matches` set any way it likes, so `matches` is an         *)
(* arbitrary relation: it need not be transitive, nor one to one.          *)
(***************************************************************************)
EXTENDS Integers

CONSTANT Lengths  \* the lengths of the three lists, as functions on Lists

Lists == {"root", "head", "update"}

ASSUME LengthsAssumption == Lengths \subseteq [Lists -> Nat]

VARIABLES
  len,      \* len[l]: the length of list l
  matches,  \* the union of the `matches` sets of the three comparators
  sources   \* the lists whose entities are kept

inputs == <<len, matches, sources>>

NONE == -1  \* no index (the code's -1), no node (its None)

SourceSets == {{"update"}, {"head"}, {"update", "head"}}

OtherTwo == [root   |-> {"head", "update"},
             head   |-> {"root", "update"},
             update |-> {"root", "head"}]

Elements == UNION {{l} \X (0 .. len[l] - 1) : l \in Lists}

(* The comparator instances of the builder: (l1, l2) for each of them.     *)
Comparators == {<<"root", "head">>, <<"root", "update">>, <<"head", "update">>}

ComparedPairs ==
  {p \in Elements \X Elements : <<p[1][1], p[2][1]>> \in Comparators}

InputInit ==
  /\ len \in Lengths
  /\ matches \in SUBSET ComparedPairs
  /\ sources \in SourceSets

InputTypeOK ==
  /\ len \in [Lists -> Nat]
  /\ matches \subseteq ComparedPairs
  /\ sources \in SourceSets

---------------------------------------------------------------------------
(* x is found equal to y, whichever of the two is in the comparator's l1.  *)
Matched(x, y) == <<x, y>> \in matches \/ <<y, x>> \in matches

(* Mutant: the comparator of two lists is only asked in one direction.     *)
GetMatchesOneWay(target, x) == {y \in Elements : y[1] = target /\ <<x, y>> \in matches}

(* comparator.get_matches, for the comparator of x's list and target.      *)
GetMatches(target, x) == {y \in Elements : y[1] = target /\ Matched(x, y)}

(* What a search in a set of entities S yields for list l: the indices of  *)
(* the entities of S in l, or the one candidate "nothing".                 *)
Hits(S, l) == {i \in 0 .. len[l] - 1 : <<l, i>> \in S}
Candidates(S, l) == IF Hits(S, l) = {} THEN {NONE} ELSE Hits(S, l)

(* The (root, head, update) triples built from the candidates.             *)
Triples(S) == [root   : Candidates(S, "root"),
               head   : Candidates(S, "head"),
               update : Candidates(S, "update")]

Unambiguous(S) == \A t, v \in Triples(S) : t = v

(* The entities that triple t stands for.                                  *)
Members(t) == {<<l, t[l]>> : l \in {k \in Lists : t[k] # NONE}}

---------------------------------------------------------------------------
(* The reference notion: the entities reachable from x through matches are *)
(* those in every set that contains x and is closed under matching.        *)
Closed(S) == \A x \in S, y \in Elements : Matched(x, y) => y \in S

Class(x) ==
  {y \in Elements :
     \A S \in SUBSET Elements : x \in S /\ Closed(S) => y \in S}
=============================================================================
