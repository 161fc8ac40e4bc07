---------------------------- MODULE AuthorNames ----------------------------
(***************************************************************************)
(* The names of authors (json_merger/contrib/inspirehep/author_util.py):   *)
(* how far two of them are from each other, and their normal forms.        *)
(*                                                                         *)
(* A token is its first letter and the rest of the word, which an initial  *)
(* does not have.  A name is the tokens of simple_tokenize on either side  *)
(* of the one comma, at least one in all.  Distances are whole numbers, of *)
(* which Unit make the code's 1.0.                                         *)
(***************************************************************************)
EXTENDS Integers, Sequences, FiniteSets, FiniteSetsExt, Functions

CONSTANTS
  Unit,
  Penalty,  \* match_on_initial_penalization
  EditDist  \* the normalised edit distance of two different words, by pair

ASSUME PenaltyAssumption == Unit \in Nat /\ Penalty \in 1 .. Unit

Token(letter, rest) == [letter |-> letter, rest |-> rest]

IsInitial(t) == t.rest = ""

Name(last, first) == [last |-> last, first |-> first]

NoName == Name(<<>>, <<>>)  \* no full_name field

Tokens(name) == name.last \o name.first

(* token_distance.  NameInitial.__eq__ decides whenever one of the two is  *)
(* an initial, on whichever side: it is the overriding method of a         *)
(* subclass.                                                               *)
TokenDistance(t1, t2) ==
  IF IsInitial(t1) \/ IsInitial(t2)
  THEN CASE t1 = t2               -> 0
         [] t1.letter # t2.letter -> Unit
         [] OTHER                 -> Penalty
  ELSE IF t1 = t2 THEN 0 ELSE EditDist[{t1, t2}]

---------------------------------------------------------------------------
(* What Munkres.compute may return for two sequences of tokens.            *)
Pairings(s1, s2) ==
  {a \in SUBSET ((DOMAIN s1) \X (DOMAIN s2)) :
     /\ Cardinality(a) = Min({Len(s1), Len(s2)})
     /\ \A p, q \in a : p[1] = q[1] \/ p[2] = q[2] => p = q}

PairingCost(s1, s2, a) == MapThenSumSet(LAMBDA p : TokenDistance(s1[p[1]], s2[p[2]]), a)

LeastPairings(s1, s2) ==
  {a \in Pairings(s1, s2) :
     \A b \in Pairings(s1, s2) : PairingCost(s1, s2, a) <= PairingCost(s1, s2, b)}

(* Mutant: one pair of initials is enough.                                 *)
AnyPairOfInitials(s1, s2, a) == \E p \in a : IsInitial(s1[p[1]]) /\ IsInitial(s2[p[2]])

MatchedOnlyInitials(s1, s2, a) == \A p \in a : IsInitial(s1[p[1]]) /\ IsInitial(s2[p[2]])

(* AuthorNameDistanceCalculator: what the distance of two names can be,    *)
(* whichever pairing is found.                                             *)
NameDistances(name1, name2) ==
  IF NoName \in {name1, name2} THEN {Unit}
  ELSE LET s1 == Tokens(name1)  s2 == Tokens(name2)
       IN {IF MatchedOnlyInitials(s1, s2, a) THEN Unit
           ELSE PairingCost(s1, s2, a) \div Min({Len(s1), Len(s2)}) : a \in LeastPairings(s1, s2)}

---------------------------------------------------------------------------
(* AuthorNameNormalizer: the first names that are kept, as initials or as  *)
(* they are.  A name without a comma, as the default of a missing one is,  *)
(* raises ValueError.                                                      *)
NormalizerRaises == <<>>

Kept(first, number) == SubSeq(first, 1, Min({number, Len(first)}))

Shortened(t, to_initial) == IF to_initial THEN Token(t.letter, "") ELSE t

NormalForm(name, number, to_initial) ==
  IF name = NoName THEN NormalizerRaises
  ELSE LET kept == Kept(name.first, number)
       IN name.last \o [n \in DOMAIN kept |-> Shortened(kept[n], to_initial)]
=============================================================================
