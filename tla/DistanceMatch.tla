--------------------------- MODULE DistanceMatch ---------------------------
(***************************************************************************)
(* distance_function_match (json_merger/contrib/inspirehep/match.py): the  *)
(* `matches` of a DistanceFunctionComparator.  Normalisation functions     *)
(* first hint pairs, which leave the lists; what remains is split into the *)
(* components of the graph of near elements, and each component is matched *)
(* by the Munkres algorithm, ties included.                                *)
(*                                                                         *)
(* An element is its index in its list; its object only matters through    *)
(* equality, the normalisation functions and the distance function.        *)
(* Distances are whole numbers of a small unit.  The components are the    *)
(* ones that BipartiteComponents computes.  A normalisation function may   *)
(* raise: its normal form is then NoForm.                                  *)
(***************************************************************************)
EXTENDS BipartiteGraph, Sequences, FiniteSets, Functions, FiniteSetsExt

CONSTANTS
  Contents,       \* the pairs of lists of objects tried
  Norms(_, _),    \* the sequences of normalisation functions for two sets of objects
  DistFns(_, _),  \* the distance functions for two sets of objects
  NoForm,
  Thresh,
  Tolerance   \* distances closer than this are taken to be equal (1e-9)

ASSUME DistancesAssumption ==
  /\ Thresh \in Nat /\ Tolerance \in Nat \ {0}
  /\ \A c \in Contents :
       DistFns(Range(c[1]), Range(c[2])) \subseteq [Range(c[1]) \X Range(c[2]) -> Nat]
ASSUME ContentsAssumption ==
  \A c \in Contents :
    /\ c[1] \in Seq(Range(c[1])) /\ Len(c[1]) <= N1
    /\ c[2] \in Seq(Range(c[2])) /\ Len(c[2]) <= N2

VARIABLES
  l1, l2,      \* the lists of objects
  dist_fn,
  norm_funcs,  \* those that have not been applied yet
  rest1,       \* the indices in l1 that have not been matched by a hint
  rest2,       \* the same for l2
  near,        \* the components that have not been matched yet
  pc,          \* "hints", "components", "done", "raised"
  common       \* the pairs of indices matched

vars == <<l1, l2, dist_fn, norm_funcs, rest1, rest2, near, pc, common>>

Indices(s) == 0 .. Len(s) - 1

Init ==
  /\ \E c \in Contents : l1 = c[1] /\ l2 = c[2]
  /\ dist_fn \in DistFns(Range(l1), Range(l2))
  /\ norm_funcs \in Norms(Range(l1), Range(l2))
  /\ rest1 = Indices(l1) /\ rest2 = Indices(l2)
  /\ near = {} /\ common = {}
  /\ pc = "hints"

Dist(i, j) == dist_fn[<<l1[i + 1], l2[j + 1]>>]

---------------------------------------------------------------------------
(* _match_by_norm_func.  The buckets of a normal form are taken in the     *)
(* order of the lists: nth is the n-th smallest index.                     *)
Bucket(s, rest, norm_fn, normed) == {i \in rest : norm_fn[s[i + 1]] = normed}

AllEqual(s, bucket) == \A i, j \in bucket : s[i + 1] = s[j + 1]

Rank(bucket, i) == Cardinality({j \in bucket : j < i})

(* Mutant: every pair of the two buckets is hinted.                        *)
HintedAll(norm_fn) ==
  UNION {LET b1 == Bucket(l1, rest1, norm_fn, normed)
             b2 == Bucket(l2, rest2, norm_fn, normed)
         IN  {p \in b1 \X b2 : Dist(p[1], p[2]) <= Thresh} : normed \in Range(norm_fn)}

Hinted(norm_fn) ==
  UNION {LET b1 == Bucket(l1, rest1, norm_fn, normed)
             b2 == Bucket(l2, rest2, norm_fn, normed)
         IN  {p \in b1 \X b2 :
                /\ Cardinality(b1) = Cardinality(b2)
                /\ AllEqual(l1, b1) \/ AllEqual(l2, b2)
                /\ Rank(b1, p[1]) = Rank(b2, p[2])
                /\ Dist(p[1], p[2]) <= Thresh} : normed \in Range(norm_fn)}

(* Some element that has not been matched has no normal form.              *)
HasNoForm(norm_fn) ==
  \/ \E i \in rest1 : norm_fn[l1[i + 1]] = NoForm
  \/ \E j \in rest2 : norm_fn[l2[j + 1]] = NoForm

HintRaises ==
  /\ pc = "hints" /\ norm_funcs # <<>>
  /\ HasNoForm(Head(norm_funcs))
  /\ pc' = "raised"
  /\ UNCHANGED <<l1, l2, dist_fn, norm_funcs, rest1, rest2, near, common>>

(* One normalisation function.                                             *)
Hint ==
  /\ pc = "hints" /\ norm_funcs # <<>>
  /\ ~HasNoForm(Head(norm_funcs))
  /\ LET new_common == Hinted(Head(norm_funcs)) IN
     /\ common' = common \cup new_common
     /\ rest1' = rest1 \ {p[1] : p \in new_common}
     /\ rest2' = rest2 \ {p[2] : p \in new_common}
  /\ norm_funcs' = Tail(norm_funcs)
  /\ UNCHANGED <<l1, l2, dist_fn, near, pc>>

FindComponents ==
  /\ pc = "hints" /\ norm_funcs = <<>>
  /\ near' = ComponentsOf({p \in rest1 \X rest2 : Dist(p[1], p[2]) <= Thresh})
  /\ pc' = "components"
  /\ UNCHANGED <<l1, l2, dist_fn, norm_funcs, rest1, rest2, common>>

---------------------------------------------------------------------------
(* What Munkres.compute may return for the distance matrix of component c: *)
(* a one-to-one assignment of all of its shorter side, of least total      *)
(* distance.                                                               *)
Assignments(c) ==
  {a \in SUBSET (c[1] \X c[2]) :
     /\ Cardinality(a) = Min({Cardinality(c[1]), Cardinality(c[2])})
     /\ \A p, q \in a : p[1] = q[1] \/ p[2] = q[2] => p = q}

Cost(a) == MapThenSumSet(LAMBDA p : Dist(p[1], p[2]), a)

Computed(c) == {a \in Assignments(c) : \A b \in Assignments(c) : Cost(a) <= Cost(b)}

SameDistance(p, q) ==
  LET d == Dist(p[1], p[2]) - Dist(q[1], q[2]) IN d < Tolerance /\ -d < Tolerance

(* Mutant: assigned pairs count as matches however far they are.           *)
TiesHoweverFar(c, a) ==
  {q \in c[1] \X c[2] :
     \E p \in a : (p[1] = q[1] \/ p[2] = q[2]) /\ SameDistance(p, q)}

(* Mutant: only the ties in a row of the matrix are looked for.            *)
TiesInRow(c, a) ==
  {q \in c[1] \X c[2] :
     \E p \in a : Dist(p[1], p[2]) <= Thresh /\ p[1] = q[1] /\ SameDistance(p, q)}

(* _match_munkres: the assigned pairs within the threshold, and those of   *)
(* the same row or column of the matrix at the same distance.              *)
Ties(c, a) ==
  {q \in c[1] \X c[2] :
     \E p \in a :
       /\ Dist(p[1], p[2]) <= Thresh
       /\ p[1] = q[1] \/ p[2] = q[2]
       /\ SameDistance(p, q)}

MatchComponent ==
  /\ pc = "components"
  /\ \E c \in near : \E indices \in Computed(c) :
       /\ common' = common \cup Ties(c, indices)
       /\ near' = near \ {c}
  /\ UNCHANGED <<l1, l2, dist_fn, norm_funcs, rest1, rest2, pc>>

Return ==
  /\ pc = "components" /\ near = {}
  /\ pc' = "done"
  /\ UNCHANGED <<l1, l2, dist_fn, norm_funcs, rest1, rest2, near, common>>

Match == Hint \/ HintRaises \/ FindComponents \/ MatchComponent \/ Return

(* The matches have been returned, or an exception: nothing happens any    *)
(* more.                                                                   *)
Returned == pc \in {"done", "raised"} /\ UNCHANGED vars

Next == Match \/ Returned

Spec == Init /\ [][Next]_vars

---------------------------------------------------------------------------
(* A hint settles its two elements: they are in no other pair, not even in *)
(* one that a tie adds, and a further normalisation function does not see  *)
(* them.                                                                   *)
HintsExclusive ==
  /\ \A p, q \in common :
       p # q /\ (p[1] \notin rest1 \/ p[2] \notin rest2) => p[1] # q[1] /\ p[2] # q[2]
  /\ \A p \in common : p[1] \in rest1 <=> p[2] \in rest2

(* No match is further than the threshold by the tolerance, though the     *)
(* assignment of a component weighs pairs that are.                        *)
WithinTolerance == \A p \in common : Dist(p[1], p[2]) < Thresh + Tolerance

(* Two elements of a list that are the same object, neither settled by a   *)
(* hint, are both matched or both not: whatever assignment Munkres has     *)
(* picked, none of them wins by its place in the list.                     *)
DuplicatesAlike ==
  pc = "done" =>
    /\ \A i, j \in rest1 :
         l1[i + 1] = l1[j + 1] =>
           ((\E p \in common : p[1] = i) <=> (\E p \in common : p[1] = j))
    /\ \A i, j \in rest2 :
         l2[i + 1] = l2[j + 1] =>
           ((\E p \in common : p[2] = i) <=> (\E p \in common : p[2] = j))

=============================================================================
