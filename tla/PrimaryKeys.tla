---------------------------- MODULE PrimaryKeys ----------------------------
(***************************************************************************)
(* Which entities a comparator holds equal (json_merger/comparator.py).  A *)
(* comparator class is a record: the key sets of primary_key_fields, each  *)
(* a set of key paths, and the normalization functions of some key paths,  *)
(* each given on the values that it changes.  A DefaultComparator has no   *)
(* key.                                                                    *)
(***************************************************************************)
EXTENDS JsonPaths

DefaultComparator == [primary_key_fields |-> {}, normalization_functions |-> <<>>]

Normal(comparator, field, value) ==
  LET changed == IF field \in DOMAIN comparator.normalization_functions
                 THEN comparator.normalization_functions[field] ELSE <<>>
  IN IF value \in DOMAIN changed THEN changed[value] ELSE value

HaveFieldEqual(comparator, obj1, obj2, field) ==
  LET o1 == Get(obj1, field)  o2 == Get(obj2, field)
  IN IF Missing \in {o1, o2} THEN o1 = o2
     ELSE Normal(comparator, field, o1) = Normal(comparator, field, o2)

AreFieldsNothing(obj1, obj2, field) == Missing \in {Get(obj1, field), Get(obj2, field)}

(* equal: some key set agrees in all its fields, and one of them is there. *)
Equal(comparator, obj1, obj2) ==
  \/ obj1 = obj2
  \/ \E field_set \in comparator.primary_key_fields :
       /\ \A field \in field_set : HaveFieldEqual(comparator, obj1, obj2, field)
       /\ \E field \in field_set : ~AreFieldsNothing(obj1, obj2, field)
=============================================================================
