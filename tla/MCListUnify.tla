---------------------------- MODULE MCListUnify ----------------------------
(***************************************************************************)
(* Instances of ListUnify: every relation between lists of the given       *)
(* lengths.                                                                *)
(***************************************************************************)
EXTENDS ListUnify

Sizes(r, h, u) == [root |-> r, head |-> h, update |-> u]

(* Entities with and without a root, and choices among root, head and      *)
(* update entities.                                                        *)
Small == {Sizes(1, 2, 2), Sizes(2, 2, 1)}

(* Head and update of three entities each: nodes of one side between nodes *)
(* of both, and every permutation.                                         *)
Long == {Sizes(0, 3, 3)}

Sized == Small \cup Long
=============================================================================
