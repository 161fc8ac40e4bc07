------------------------ MODULE MCMatchGraphBuilder ------------------------
(***************************************************************************)
(* Instances of MatchGraphBuilder: every relation between lists of the given  *)
(* lengths.                                                                *)
(***************************************************************************)
EXTENDS MatchGraphBuilder

Sizes(r, h, u) == [root |-> r, head |-> h, update |-> u]

(* Two entities per list: chains through all three lists, cyclic matches,  *)
(* and ambiguity in each of the lists, in any two and in all.              *)
TwoEach == {Sizes(2, 2, 2)}

(* Empty lists and lists of different lengths.                             *)
Uneven == [root : 0 .. 1, head : 0 .. 2, update : 0 .. 2]

=============================================================================
