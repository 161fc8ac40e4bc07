----------------------------- MODULE ListLayout -----------------------------
(***************************************************************************)
(* What a list unifier may make of three lists, said without its search,   *)
(* its graph and its sort: every class of matching entities that has one   *)
(* candidate per list is one unified entity, the others are choices, and   *)
(* the unified entities are in an order that respects the lists that are   *)
(* kept, if there is one.                                                  *)
(***************************************************************************)
EXTENDS MatchInputs, UnifierOps, SequencesExt, Functions

VARIABLE op  \* the operation of the list

Classes == {Class(x) : x \in {y \in Elements : y[1] \in sources}}

Nodes     == UNION {Triples(S) : S \in {T \in Classes : Unambiguous(T)}}
Ambiguous == UNION {Triples(S) : S \in {T \in Classes : ~Unambiguous(T)}}

---------------------------------------------------------------------------
Precedes(t, v) == \E l \in sources : t[l] # NONE /\ v[l] # NONE /\ t[l] < v[l]

(* The orders of the lists can be respected together: whichever nodes are  *)
(* left, one of them can come first.                                       *)
Orderable(nodes) ==
  \A S \in (SUBSET nodes) \ {{}} : \E v \in S : \A t \in S : ~Precedes(t, v)

Respectful(placed) ==
  \A j, k \in DOMAIN placed : j < k => ~Precedes(placed[k], placed[j])

(* placed has every node once, and the order that it should.               *)
IsOrder(placed) ==
  /\ ToSet(placed) = Nodes /\ IsInjective(placed)
  /\ Orderable(ToSet(placed)) => Respectful(placed)

Orders == {placed \in SetToSeqs(Nodes) : IsOrder(placed)}

---------------------------------------------------------------------------
(* What the user is told is reported as a type, a 0-based position where   *)
(* it has one, and the triple of indices of the objects it is about.       *)
Report(type, idx, body) == [type |-> type, idx |-> idx, body |-> body]

Only(l, i) == [k \in Lists |-> IF k = l THEN i ELSE NONE]
Nothing    == [k \in Lists |-> NONE]

(* An entity that only update has.                                         *)
IsNewUpdate(t) == t.root = NONE /\ t.head = NONE /\ t.update # NONE

(* The list that is left when what the operation holds back is taken out.  *)
KeptPlaces(placed) ==
  {k \in DOMAIN placed : ~(RaisesOnNewUpdate(op) /\ IsNewUpdate(placed[k]))}

Nth(places, k) == CHOOSE i \in places : Cardinality({j \in places : j <= i}) = k

LaidOut(placed) ==
  LET kept == KeptPlaces(placed) IN [k \in 1 .. Cardinality(kept) |-> placed[Nth(kept, k)]]

LostFromHead(placed) == {i \in 0 .. len["head"] - 1 : \A k \in DOMAIN placed : placed[k].head # i}

ConflictsOf(placed) ==
  {Report("MANUAL_MERGE", NONE, t) : t \in Ambiguous}
  \cup {c \in {Report("REORDER", NONE, Nothing)} : ~Orderable(ToSet(placed))}
  \cup {Report("ADD_BACK_TO_HEAD", NONE, Only("head", i)) :
          i \in {j \in LostFromHead(placed) : RaisesOnHeadDelete(op)}}
  \cup {Report("INSERT", k - 1, placed[k]) :
          k \in {j \in DOMAIN placed : RaisesOnNewUpdate(op) /\ IsNewUpdate(placed[j])}}
=============================================================================
