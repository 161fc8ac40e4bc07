------------------------- MODULE DictMergeCasesProofs -------------------------
(***************************************************************************)
(* What a three-way merge of dictionaries promises, for JSON values of any *)
(* shape, lists that are left in included.                                 *)
(***************************************************************************)
EXTENDS DictMergeCases, DictMergeProofs

CasesInv ==
  /\ root \in UNION Families /\ head \in UNION Families /\ update \in UNION Families
  /\ result = Pending \/ result = MergeObjects(root, head, update, key_path)

LEMMA CasesAlways == Spec => []CasesInv
<1>1. Init => CasesInv
  BY DEF Init, CasesInv
<1>2. CasesInv /\ [Merge \/ Done]_vars => CasesInv'
  <2> SUFFICES ASSUME CasesInv, [Merge \/ Done]_vars PROVE CasesInv'
    OBVIOUS
  <2>1. CASE Merge
    BY <2>1 DEF CasesInv, Merge
  <2>2. CASE Done \/ UNCHANGED vars
    BY <2>2 DEF CasesInv, Done, vars
  <2> QED
    BY <2>1, <2>2
<1> QED
  BY <1>1, <1>2, PTL DEF Spec

LEMMA ValueTree ==
  ASSUME NEW v \in UNION Families
  PROVE  IsDict(v) => Tree(v)
<1>1. v = NOTHING => ~IsDict(v)
  BY DEF IsDict, NOTHING
<1> QED
  BY <1>1, ValuesAssumption, JsonTree

(* What the merge of two dictionaries has computed.                        *)
MergedAs(m) ==
  /\ MergeOf(m)
  /\ m.key_path = key_path /\ m.oldhead = head /\ m.oldupdate = update
  /\ result = Outcome(m.merged, ShownBy(m), m.lists, FALSE)
  /\ OldRoot = m.oldroot
  /\ Unlisted(OldRoot) = m.cut /\ Unlisted(head) = m.head /\ Unlisted(update) = m.update
  /\ Unlisted(result.root) = m.seen

LEMMA DictsMerged ==
  ASSUME CasesInv, Merged, Dicts
  PROVE  \E m : MergedAs(m)
<1> DEFINE m == TheMerge(root, head, update, key_path)
<1>1. MergeOf(m)
  BY ValueTree, TheMergeIs DEF CasesInv, Dicts
<1>2. result = MergeDicts(root, head, update, key_path)
  BY DEF CasesInv, Merged, Dicts, MergeObjects
<1>3. result = Outcome(m.merged, ShownBy(m), m.lists, FALSE)
  <2>1. ~result.raised
    BY DEF Merged
  <2>2. result # Outcome(NOTHING, {}, {}, TRUE)
    BY <2>1 DEF Outcome
  <2> QED
    BY <1>2, <2>2, MergeDictsMeans
<1>4. result.root = m.merged /\ result.skipped = m.lists
  <2> HIDE DEF m
  <2> QED
    BY <1>3 DEF Outcome
<1>5. /\ m.key_path = key_path /\ m.oldroot = OldRootOf(root) /\ m.oldhead = head /\ m.oldupdate = update
      /\ m.cut = CutLists(m.oldroot, m.lists) /\ m.head = CutLists(head, m.lists)
      /\ m.update = CutLists(update, m.lists) /\ m.seen = CutLists(m.merged, m.lists)
  BY DEF TheMerge
<1>6. OldRoot = m.oldroot
  BY <1>5 DEF OldRoot, OldRootOf, Dicts
<1> HIDE DEF m
<1>7. MergedAs(m)
  BY <1>1, <1>3, <1>4, <1>5, <1>6 DEF MergedAs, Unlisted
<1> QED
  BY <1>7

LEMMA MergedFields ==
  ASSUME NEW m, MergedAs(m), Dicts
  PROVE  /\ result.root = m.merged /\ result.conflicts = ShownBy(m) /\ result.skipped = m.lists
         /\ ChangesOf(head) = Diff(m.cut, m.head) /\ ChangesOf(update) = Diff(m.cut, m.update)
         /\ Disagreements = ConflictsOf(m.cut, m.head, m.update)
<1>1. result.root = m.merged /\ result.conflicts = ShownBy(m) /\ result.skipped = m.lists
  BY DEF MergedAs, Outcome
<1>2. ChangesOf(head) = Diff(m.cut, m.head) /\ ChangesOf(update) = Diff(m.cut, m.update)
  BY DEF MergedAs, ChangesOf
<1>3. Disagreements = ConflictsOf(m.cut, m.head, m.update)
  BY <1>2 DEF Disagreements, ConflictsOf
<1> QED
  BY <1>1, <1>2, <1>3

LEMMA BaseMerged ==
  ASSUME CasesInv, Merged, ~Dicts
  PROVE  /\ result = MergeBaseValues(root, head, update, key_path)
         /\ result.root \in {head, update} /\ result.skipped = {}
         /\ Agreed(root, head, update) =>
              /\ result.conflicts = {}
              /\ result.root = IF UpdateWins(root, head, update) THEN update ELSE head
         /\ ~Agreed(root, head, update) =>
              \A obj \in {head, update} : obj = result.root \/ Conflict("SET_FIELD", <<>>, obj) \in result.conflicts
<1>1. result = MergeBaseValues(root, head, update, key_path) /\ ~result.raised
  BY DEF CasesInv, Merged, Dicts, MergeObjects
<1>2. CASE Agreed(root, head, update)
  <2>1. result = Outcome(IF UpdateWins(root, head, update) THEN update ELSE head, {}, {}, FALSE)
    BY <1>1, <1>2 DEF MergeBaseValues
  <2> QED
    BY <1>1, <1>2, <2>1 DEF Outcome
<1>3. CASE ~Agreed(root, head, update)
  <2> DEFINE strategy == Decide(DefaultRule, head, update)
             kept     == IF strategy = "f" THEN head ELSE update
             lost     == IF strategy = "f" THEN update ELSE head
  <2>1. key_path = <<>>
    BY <1>1, <1>3 DEF MergeBaseValues, Outcome
  <2>2. result = Outcome(kept, {Conflict("SET_FIELD", <<>>, lost)}, {}, FALSE)
    BY <1>1, <1>3, <2>1 DEF MergeBaseValues
  <2>3. result.root = kept /\ result.conflicts = {Conflict("SET_FIELD", <<>>, lost)} /\ result.skipped = {}
    BY <2>2 DEF Outcome
  <2>4. {kept, lost} = {head, update}
    OBVIOUS
  <2> HIDE DEF kept, lost
  <2> QED
    BY <1>1, <1>3, <2>3, <2>4
<1> QED
  BY <1>2, <1>3

---------------------------------------------------------------------------
(* Whatever head or update changed, in the elements of the lists left in   *)
(* too, is in the merged value, or a conflict shows it: no patch of        *)
(* inspire_dictdiffer is lost by _solve_dict_conflicts, by the lists that  *)
(* are put back or by the patches applied after it.                        *)
THEOREM ChangesAlwaysKeptOrShown == Spec => []ChangesKeptOrShown
<1>1. CasesInv => ChangesKeptOrShown
  <2> SUFFICES ASSUME CasesInv, Merged, NEW p \in ChangesOf(head) \cup ChangesOf(update)
               PROVE  \/ Get(Unlisted(result.root), p.path) = p.value
                      \/ PatchConflict(p) \in result.conflicts
    BY DEF ChangesKeptOrShown
  <2>1. CASE Dicts
    <3>1. PICK m : MergedAs(m)
      BY <2>1, DictsMerged
    <3>2. /\ result.conflicts = ShownBy(m)
          /\ ChangesOf(head) = Diff(m.cut, m.head) /\ ChangesOf(update) = Diff(m.cut, m.update)
      BY <2>1, <3>1, MergedFields
    <3>3. MergeOf(m) /\ Unlisted(result.root) = m.seen
      BY <3>1 DEF MergedAs
    <3> QED
      BY <3>2, <3>3, KeptOrShown
  <2>2. CASE ~Dicts
    <3>1. PICK obj \in {head, update} : /\ obj \notin {root, NOTHING}
                                        /\ p = [type |-> "change", path |-> <<>>, value |-> obj]
      BY <2>2 DEF ChangesOf, WholeChange
    <3>2. p.path = <<>> /\ p.value = obj /\ p.type = "change" /\ PatchConflict(p) = Conflict("SET_FIELD", <<>>, obj)
      BY <3>1 DEF PatchConflict
    <3>3. Get(Unlisted(result.root), p.path) = result.root
      BY <2>2, <3>2, GetEmpty DEF Unlisted
    <3>4. CASE Agreed(root, head, update)
      <4>1. result.root = IF UpdateWins(root, head, update) THEN update ELSE head
        BY <2>2, <3>4, BaseMerged
      <4>2. result.root = obj
        BY <3>1, <3>4, <4>1 DEF Agreed, UpdateWins
      <4> QED
        BY <3>2, <3>3, <4>2
    <3>5. CASE ~Agreed(root, head, update)
      BY <2>2, <3>1, <3>2, <3>3, <3>5, BaseMerged
    <3> QED
      BY <3>4, <3>5
  <2> QED
    BY <2>1, <2>2
<1> QED
  BY <1>1, CasesAlways, PTL

(* The merged value differs from root only where head or update does, and  *)
(* has there what that side has, in the elements of a list left in too.    *)
THEOREM NothingEverInvented == Spec => []NothingInvented
<1>1. CasesInv => NothingInvented
  <2> SUFFICES ASSUME CasesInv, Merged
               PROVE  IF Dicts
                      THEN Diff(Unlisted(OldRoot), Unlisted(result.root)) \subseteq ChangesOf(head) \cup ChangesOf(update)
                      ELSE result.root \in {head, update}
    BY DEF NothingInvented
  <2>1. CASE Dicts
    <3>1. PICK m : MergedAs(m)
      BY <2>1, DictsMerged
    <3>2. ChangesOf(head) = Diff(m.cut, m.head) /\ ChangesOf(update) = Diff(m.cut, m.update)
      BY <2>1, <3>1, MergedFields
    <3>3. MergeOf(m) /\ Unlisted(OldRoot) = m.cut /\ Unlisted(result.root) = m.seen
      BY <3>1 DEF MergedAs
    <3>4. Diff(m.cut, m.seen) \subseteq Diff(m.cut, m.head) \cup Diff(m.cut, m.update)
      BY <3>3, OnlyTheirChanges
    <3> QED
      BY <2>1, <3>2, <3>3, <3>4
  <2>2. CASE ~Dicts
    BY <2>2, BaseMerged
  <2> QED
    BY <2>1, <2>2
<1> QED
  BY <1>1, CasesAlways, PTL

(* The lists that the merger unifies afterwards can be put in their place, *)
(* and until then the merged value has what root has there: the patches    *)
(* that are applied after the lists were put back leave them alone.        *)
THEOREM ListsAlwaysAsInRoot == Spec => []ListsAsInRoot
<1>1. CasesInv => ListsAsInRoot
  <2> SUFFICES ASSUME CasesInv, Merged, NEW p \in result.skipped
               PROVE  /\ Settable(result.root, p)
                      /\ Get(result.root, p) = IF Get(OldRoot, p) = Null THEN Missing ELSE Get(OldRoot, p)
    BY DEF ListsAsInRoot
  <2>1. Dicts
    BY BaseMerged
  <2>2. PICK m : MergedAs(m)
    BY <2>1, DictsMerged
  <2>3. result.root = m.merged /\ result.skipped = m.lists
    BY <2>1, <2>2, MergedFields
  <2>4. MergeOf(m) /\ OldRoot = m.oldroot
    BY <2>2 DEF MergedAs
  <2>5. Get(m.merged, p) = IF Get(m.oldroot, p) = Null THEN Missing ELSE Get(m.oldroot, p)
    BY <2>3, <2>4, ListsRestored
  <2>6. IsDict(Get(m.merged, Front(p)))
    BY <2>3, <2>4, ParentMerged
  <2> QED
    BY <2>3, <2>4, <2>5, <2>6 DEF Settable
<1> QED
  BY <1>1, CasesAlways, PTL

(* Where the two sides disagree, the rule of the path, positions in lists  *)
(* left out of it, decides: the change of the other side is shown, and     *)
(* that of the side named is in the merged value.                          *)
THEOREM RulesAlwaysDecide == Spec => []RulesDecide
<1>1. CasesInv => RulesDecide
  <2> DEFINE Wins(c) == IF RuleOver(c) = "f" THEN 1 ELSE 2
  <2> SUFFICES ASSUME CasesInv, Merged, Dicts,
                      NEW c \in Disagreements, RuleOver(c) # "longest"
               PROVE  /\ PatchConflict(c[3 - Wins(c)]) \in result.conflicts
                      /\ (\A d \in Disagreements : d[Wins(c)] = c[Wins(c)] => RuleOver(d) = RuleOver(c))
                           => Get(Unlisted(result.root), c[Wins(c)].path) = c[Wins(c)].value
    BY DEF RulesDecide
  <2>1. PICK m : MergedAs(m)
    BY DictsMerged
  <2>2. /\ result.conflicts = ShownBy(m)
        /\ Disagreements = ConflictsOf(m.cut, m.head, m.update)
    BY <2>1, MergedFields
  <2>3. MergeOf(m) /\ Unlisted(result.root) = m.seen /\ m.key_path = key_path
    BY <2>1 DEF MergedAs
  <2>4. ASSUME NEW d \in Disagreements, RuleOver(d) # "longest"
        PROVE  Strategy(d, m.head, m.update, m.key_path) = RuleOver(d)
    BY <2>3, <2>4 DEF Strategy, RuleOver, Decide
  <2>5. PatchConflict(Reported(c, RuleOver(c))) \in ShownBy(m)
    BY <2>2, <2>4 DEF ShownBy
  <2>6. Reported(c, RuleOver(c)) = c[3 - Wins(c)]
    <3>1. 3 - 1 = 2 /\ 3 - 2 = 1
      OBVIOUS
    <3> QED
      BY <3>1 DEF Reported
  <2>7. ASSUME \A d \in Disagreements : d[Wins(c)] = c[Wins(c)] => RuleOver(d) = RuleOver(c)
        PROVE  Get(m.seen, c[Wins(c)].path) = c[Wins(c)].value
    <3> DEFINE n == Wins(c)
    <3>1. n \in {1, 2} /\ (RuleOver(c) = "f" <=> n = 1)
      OBVIOUS
    <3>2. \A d \in Disagreements : d[n] = c[n] =>
            (Strategy(d, m.head, m.update, m.key_path) = "f" <=> n = 1)
      BY <2>4, <2>7, <3>1
    <3> HIDE DEF n
    <3>3. Get(m.seen, c[n].path) = c[n].value
      BY <2>2, <2>3, <3>1, <3>2, RuleNamesSide
    <3> QED
      BY <3>3 DEF n
  <2> QED
    BY <2>2, <2>3, <2>5, <2>6, <2>7
<1> QED
  BY <1>1, CasesAlways, PTL

(* Where one side changed nothing the merge is the other side, and where   *)
(* both agree it is what they agree on: no conflict is shown, and nothing  *)
(* but the shared lists differs from that side.                            *)
THEOREM ThreeWayLawsHold == Spec => []ThreeWayLaws
<1>1. CasesInv => ThreeWayLaws
  <2> SUFFICES ASSUME CasesInv, Merged, NOTHING \notin {head, update}
               PROVE  /\ OneSided(root, head, update)
                      /\ OneSided(root, update, head)
                      /\ OneSided(head, update, head)
    BY DEF ThreeWayLaws
  <2>1. CASE Dicts
    <3>1. PICK m : MergedAs(m)
      BY <2>1, DictsMerged
    <3>2. result.conflicts = ShownBy(m)
      BY <2>1, <3>1, MergedFields
    <3>3. /\ MergeOf(m) /\ Unlisted(OldRoot) = m.cut /\ Unlisted(head) = m.head
          /\ Unlisted(update) = m.update /\ Unlisted(result.root) = m.seen
      BY <3>1 DEF MergedAs
    <3>4. \A obj \in {head, update} : root = obj => OldRoot = obj
      BY <2>1 DEF Dicts, OldRoot
    <3>5. root = head => m.cut = m.head
      BY <3>3, <3>4
    <3>6. root = update => m.cut = m.update
      BY <3>3, <3>4
    <3>7. head = update => m.head = m.update
      BY <3>3
    <3> QED
      BY <3>2, <3>3, <3>5, <3>6, <3>7, OneSidedMerge DEF OneSided
  <2>2. CASE ~Dicts
    <3>1. Agreed(root, head, update) =>
            /\ result.conflicts = {}
            /\ result.root = IF UpdateWins(root, head, update) THEN update ELSE head
      BY <2>2, BaseMerged
    <3>2. \A obj : Unlisted(obj) = obj
      BY <2>2 DEF Unlisted
    <3> QED
      BY <3>1, <3>2 DEF OneSided, Agreed, UpdateWins
  <2> QED
    BY <2>1, <2>2
<1> QED
  BY <1>1, CasesAlways, PTL

(* What is kept as the longest has a length.                               *)
LEMMA LengthOfDict ==
  ASSUME NEW w, IsDict(w)
  PROVE  Length(w) = Cardinality(Steps(w))
BY DEF Length, IsDict

LEMMA FieldLength ==
  ASSUME OnlyStrings, NEW v \in UNION Families, Tree(v), IsDict(v), NEW L, Apart(L),
         NEW cut, Cut(L, v, cut), Tree(cut),
         NEW p \in Seq(AllSteps), p # <<>>, ~IsNone(Get(cut, p))
  PROVE  Length(Get(cut, p)) \in Nat
<1> DEFINE w == Get(cut, p)
           values == {Get(v, q) : q \in PathsOf(v)}
<1>1. w # Missing /\ w # Null
  BY DEF IsNone
<1>2. /\ p \in PathsOf(v) /\ OneShape(w, Get(v, p))
      /\ ~IsContainer(Get(v, p)) => w = Get(v, p)
  BY <1>1, CutField
<1>3. v # NOTHING
  BY DEF IsDict, NOTHING
<1>4. IsJson(v)
  BY <1>3, ValuesAssumption
<1>5. Get(v, p) \in values
  BY <1>2
<1>6. /\ Get(v, p) = Null \/ Get(v, p).kind \in {"base", "dict", "list"}
      /\ IsList(Get(v, p)) => Get(v, p).elems \in Seq(values)
  BY <1>4, <1>5 DEF IsJson
<1>7. ASSUME IsDict(w) PROVE Length(w) \in Nat
  <2>1. IsFiniteSet(Steps(w))
    BY <1>7, FiniteSteps DEF IsContainer
  <2>2. Cardinality(Steps(w)) \in Nat
    BY <2>1, FS_CardinalityType
  <2> HIDE DEF w
  <2> QED
    BY <1>7, <2>2, LengthOfDict
<1>8. CASE IsList(w)
  <2>1. IsList(Get(v, p))
    BY <1>2, <1>8 DEF OneShape
  <2> DEFINE n == Len(Get(v, p).elems)
  <2>2. n \in Nat /\ DOMAIN Get(v, p).elems = 1 .. n
    BY <1>6, <2>1
  <2>3. Steps(Get(v, p)) = 1 .. n
    BY <2>1, <2>2 DEF Steps, Children, IsList, IsDict
  <2>4. WellFormed(cut)
    BY DEF Tree
  <2> HIDE DEF n
  <2>5. Len(w.elems) = n
    BY <1>8, <2>2, <2>3, <2>4, CutList
  <2>6. Length(w) = Len(w.elems)
    <3> HIDE DEF w
    <3> QED
      BY <1>8 DEF Length, IsList, IsDict
  <2> QED
    BY <2>2, <2>5, <2>6
<1>9. ASSUME ~IsDict(w), ~IsList(w) PROVE Length(w) \in Nat
  <2>1. ~IsContainer(Get(v, p))
    BY <1>2, <1>9 DEF OneShape, IsContainer
  <2>2. w = Get(v, p) /\ w.kind = "base"
    BY <1>1, <1>2, <1>6, <2>1 DEF IsContainer, IsDict, IsList
  <2>3. Len(w.is) \in Nat
    BY <1>2, <1>3, <2>2 DEF OnlyStrings
  <2> HIDE DEF w
  <2>4. Length(w) = Len(w.is)
    BY <1>9 DEF Length
  <2> QED
    BY <2>3, <2>4
<1> QED
  BY <1>7, <1>8, <1>9

(* What the rule gets of both sides where the value is measured.           *)
LEMMA MeasuredFound ==
  ASSUME NEW x, x.path \in Seq(AllSteps), Measured(x), x.path # <<>>,
         Len(x.path) = 1 => x.path[1] \in Keys, NEW obj
  PROVE  Found(obj, x) = Get(obj, x.path)
<1> DEFINE p == x.path
<1>1. CASE x.type = "change"
  <2>1. p \o <<>> = p
    OBVIOUS
  <2>2. Len(p) = 1 \/ Fields(p) # p
    BY DEF Measured
  <2>3. Len(p) = 1 => ~(Len(p) > 1)
    OBVIOUS
  <2>4. Found(obj, x) = IF Fields(p) = p /\ Len(p) > 1 THEN Missing ELSE Get(obj, p \o <<>>)
    BY <1>1, Zenon DEF Found
  <2> QED
    BY <2>1, <2>2, <2>3, <2>4
<1>2. CASE x.type # "change"
  <2>1. Len(p) = 1 /\ p[1] \in Keys
    BY <1>2 DEF Measured
  <2>2. Front(p) = <<>> /\ Last(p) = p[1] /\ <<>> \o <<Last(p)>> = p
    BY <2>1 DEF Front, Last
  <2>3. Last(p) # 1
    BY <2>1, <2>2, KeysAssumption
  <2> HIDE DEF p
  <2>4. Found(obj, x) = Get(obj, <<>> \o <<Last(p)>>)
    BY <1>2, <2>2, <2>3 DEF Found, p
  <2> QED
    BY <2>2, <2>4 DEF p
<1> QED
  BY <1>1, <1>2

LEMMA DisagreementPath ==
  ASSUME NEW m, MergeOf(m), NEW c \in ConflictsOf(m.cut, m.head, m.update)
  PROVE  /\ c[1].path # <<>> /\ c[1].path \in Seq(AllSteps)
         /\ Len(c[1].path) = 1 => c[1].path[1] \in Keys
<1>1. Tree(m.cut) /\ IsDict(m.cut) /\ Tree(m.head) /\ IsDict(m.head)
  BY MergeTrees
<1>2. c[1] \in Diff(m.cut, m.head)
  BY ConflictIs DEF ConflictsOf
<1> DEFINE p == c[1].path
<1>3. p \in Differing(m.cut, m.head) /\ p \in Seq(AllSteps) /\ p # <<>>
  BY <1>1, <1>2, DiffIs DEF PatchOK
<1>4. ASSUME Len(p) = 1 PROVE p[1] \in Keys
  <2>1. PICK obj \in {m.cut, m.head} : p \in PathsOf(obj)
    BY <1>3 DEF Differing
  <2>2. Into(obj, p)
    BY <1>3, <2>1, KeyPathsOf
  <2> HIDE DEF p
  <2>3. 0 \in Nat /\ 0 < Len(p) /\ SubSeq(p, 1, 0) = <<>> /\ 0 + 1 = 1
    BY <1>3, <1>4
  <2>4. p[1] \in Steps(Get(obj, <<>>))
    BY <2>2, <2>3 DEF Into
  <2>5. Get(obj, <<>>) = obj /\ <<>> \in Seq(AllSteps)
    BY GetEmpty
  <2>6. Steps(obj) \subseteq Keys
    BY <1>1, <2>1, <2>5 DEF Tree, Fitting, Fits
  <2> QED
    BY <2>4, <2>5, <2>6
<1> QED
  BY <1>3, <1>4

(* A field, or a value in a list, that both sides changed has the longest  *)
(* of the two values where that is the rule, and a field that a side       *)
(* removed has the other side's.                                           *)
THEOREM LongestAlwaysKept ==
  ASSUME OnlyStrings
  PROVE  Spec => []LongestKept
<1>1. CasesInv => LongestKept
  <2> DEFINE values(c) == {v \in {c[1].value, c[2].value} : ~IsNone(v)}
  <2> SUFFICES ASSUME CasesInv, Merged, Dicts, NEW c \in Disagreements,
                      c[1].path = c[2].path, Measured(c[1]), RuleOver(c) = "longest", values(c) # {}
               PROVE  LET kept == Get(Unlisted(result.root), c[1].path)
                      IN kept \in values(c) /\ \A v \in values(c) : Length(v) <= Length(kept)
    BY DEF LongestKept
  <2>1. PICK m : MergedAs(m)
    BY DictsMerged
  <2>2. c \in ConflictsOf(m.cut, m.head, m.update)
    BY <2>1, MergedFields
  <2>3. /\ MergeOf(m) /\ Unlisted(result.root) = m.seen /\ m.key_path = key_path
        /\ m.oldhead = head /\ m.oldupdate = update
    BY <2>1 DEF MergedAs
  <2> DEFINE p  == c[1].path
             v1 == c[1].value
             v2 == c[2].value
             s  == Strategy(c, m.head, m.update, m.key_path)
             kept == Get(m.seen, p)
  <2>4. /\ p \in Seq(AllSteps) /\ v1 # v2 /\ v1 = Get(m.head, p) /\ v2 = Get(m.update, p)
        /\ kept = IF s = "f" THEN v1 ELSE v2
    BY <2>2, <2>3, SamePathDecided
  <2>5. p # <<>> /\ (Len(p) = 1 => p[1] \in Keys)
    BY <2>2, <2>3, DisagreementPath
  <2>6. s = KeepLongest(v1, v2)
    <3>1. Found(m.head, c[1]) = v1 /\ Found(m.update, c[1]) = v2
      BY <2>4, <2>5, MeasuredFound
    <3>2. RuleFor(m.key_path \o p) = "longest"
      BY <2>3 DEF RuleOver
    <3> QED
      BY <3>1, <3>2 DEF Strategy, Decide
  <2>7. /\ Tree(m.head) /\ Tree(m.update) /\ Apart(m.lists)
        /\ Tree(head) /\ IsDict(head) /\ Cut(m.lists, head, m.head)
        /\ Tree(update) /\ IsDict(update) /\ Cut(m.lists, update, m.update)
    BY <2>3, MergeTrees DEF MergeOf
  <2> HIDE DEF p, v1, v2, s, kept
  <2>8. ~IsNone(v1) => Length(v1) \in Nat
    BY <2>4, <2>5, <2>7, FieldLength DEF CasesInv
  <2>9. ~IsNone(v2) => Length(v2) \in Nat
    BY <2>4, <2>5, <2>7, FieldLength DEF CasesInv
  <2>10. s = "f" <=> IsNone(v2) \/ (~IsNone(v1) /\ Length(v1) >= Length(v2))
    BY <2>6 DEF KeepLongest
  <2>11. ~IsNone(v1) \/ ~IsNone(v2)
    BY DEF v1, v2
  <2>12. ~IsNone(kept) /\ kept \in {v1, v2} /\ \A v \in {v1, v2} : ~IsNone(v) => Length(v) <= Length(kept)
    BY <2>4, <2>8, <2>9, <2>10, <2>11
  <2> QED
    BY <2>3, <2>12 DEF p, v1, v2, kept
<1> QED
  BY <1>1, CasesAlways, PTL
=============================================================================
