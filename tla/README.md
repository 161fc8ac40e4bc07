# json_merger in TLA+

json_merger performs a three-way merge of JSON records: `root` is the common
ancestor, `head` the version in use, `update` a version to integrate. Its
distinctive part is the merge of *lists of entities*, which matches the
entities of the three lists, merges those that match, puts the result in an
order that respects both `head` and `update`, and hands what it cannot decide
to a user as conflicts. The library is sequential: what makes it hard is not
concurrency but long computations over arbitrary match relations, in several
passes that share index maps and statistics.

## Inventory

| Component | State | Operations | Talks to |
|---|---|---|---|
| Match graph builder (`graph_builder.py`) | nodes, index maps, multiple match choices, stats, graph | `_get_matches`, `_add_matches`, `_push_node`, `_populate_nodes`, `_get_next_node`, `build_graph` | asks three comparators; writes two stats objects |
| Match statistics (`stats.py`) | indices in the result, indices matched with root only, root matches | `move_to_result`, `add_root_match`, derived sets | written by the builder, read by the unifier and published by the merger |
| Graph sort (`graph_builder.py`) | in-degrees, stack, visited, output | `toposort`, `sort_cyclic_graph_best_effort` | called by the unifier |
| List unifier (`list_unify.py`) | unified list, conflicts | `unify` | runs the builder, the sort; raises `MergeError` or `MaxThresholdExceededError` |
| Comparators (`comparator.py`) | set of matching index pairs | `process_lists`, `get_matches`, `equal` | read by the builder |
| Distance matching (`contrib/inspirehep/match.py`, `comparators.py`) | union-find parents, remaining elements, matches | `distance_function_match`, `_match_by_norm_func`, `_match_munkres`, `_find`, `_union` | a comparator; calls munkres |
| Recursive merger (`merger.py`) | merged and aligned objects, stats per path, conflicts | `merge`, `_recursive_merge`, `_build_aligned_lists_and_stats` | runs the dictionary merger on objects and the unifier on lists, recurses on unified entities |
| Dictionary merger (`dict_merger.py`) | list backups, conflict set, merged root | `_backup_lists`, `_restore_lists`, `_merge_base_values`, `_merge_dicts`, `_get_rule_for_field` | calls inspire_dictdiffer |
| Key paths (`utils.py`) | none | get, set, delete at a path, prefixes | used by the two mergers |
| Conflicts (`conflict.py`), configuration (`config.py`), errors, `NOTHING` | none | `with_prefix`, `to_json` | used everywhere |
| Author names (`contrib/inspirehep/author_util.py`) | none | tokens, normalisation, distance | a distance function |

What each must guarantee:

* **builder**: entities connected by any chain of matches are one entity; an
  entity is merged once, or offered to the user, never both and never neither;
  the stats describe the nodes; it returns;
* **sort**: every node once; both orders respected whenever that is possible;
  the fallback taken exactly when it is not; it returns;
* **unifier**: no kept entity lost or duplicated, the result in order or
  REORDER reported, the right entities put up as ADD_BACK_TO_HEAD and INSERT;
* **distance matching**: matches near the threshold at most, each hint
  exclusive, equal elements treated alike whatever Munkres picks; with author
  names, the only two authors of one name matched, and initials alone no match;
* **mergers**: every conflict of every level reported under the path where it
  occurred, lists cut out of a dictionary put back, stats and alignment per list.

The hard behaviours, with the line where each bites, are the `hazards` of
`PROJECT.json`.

## Modules

| Module | Models |
|---|---|
| `MatchInputs` | the lists, the comparators' matches, candidates and triples; `Class`, the reference notion of "the same entity" |
| `MatchStats` | `ListMatchStats` as a record with pure operations |
| `MatchGraphBuilder` | `build_graph`, one action per step of the search and of the loops |
| `EntityClasses` | the promise of the builder: classes resolved in no given order |
| `GraphSort` | `toposort` and its fallback |
| `UnifierOps` | the operations on lists and their tables |
| `ListLayout` | which orders and conflicts three lists may give, without search, graph or sort |
| `UnifierPromise` | the promise of the unifier: one step to one of those layouts |
| `ListUnify` | `unify`, which INSTANCEs `MatchGraphBuilder` and `GraphSort` on shared variables and runs them in turn |
| `BipartiteGraph` | two lists as the sides of a graph; `ComponentsOf`, the reference components |
| `BipartiteComponents` | `BipartiteConnectedComponents`: union-find, its path compression step by step |
| `DistanceMatch` | `distance_function_match` on top of `ComponentsOf` |
| `AuthorNames` | `author_util.py`: tokens, the distance of two names, the normalisers |
| `AuthorMatch` | `DistanceMatch` on lists of authors, with the normalisers and the distance of `AuthorNames` |
| `JsonPaths` | JSON values, key paths and configuration strings (`utils.py`) |
| `PrimaryKeys` | `equal` of `PrimaryKeyComparator` and `DefaultComparator` |
| `DictMerge` | `SkipListsMerger` as operators |
| `ConflictPatch` | `Conflict.to_json` and what a reader of the patch does |
| `DictMergeCases` | `SkipListsMerger.merge` on every triple of a set of values |
| `Merger` | `Merger.merge` as a stack of `_recursive_merge` calls, on `DictMerge`, `PrimaryKeys` and `ListLayout` |
| `MatchGraphBuilderProofs` | theorems about `MatchGraphBuilder`, among them that it implements `EntityClasses` |
| `GraphSortProofs` | theorems about `GraphSort` |
| `ListUnifyProofs` | theorems about `ListUnify`, among them that it implements `UnifierPromise` |
| `BipartiteComponentsProofs` | theorems about the union-find |
| `DistanceMatchProofs` | theorems about `DistanceMatch` |
| `DictMergeProofs` | lemmas on JSON values, paths, patches and what `DictMerge` computes |
| `DictMergeCasesProofs` | theorems about `DictMergeCases` |
| `MergerProofs` | theorems about `Merger` |
| `MC...` | instances for TLC |

Modules are composed where the code calls: `ListUnify` runs `MatchGraphBuilder`
and `GraphSort`; `DistanceMatch` uses the components that `BipartiteComponents`
is shown to compute; `Merger` uses `DictMerge` as it is, and of the unifier what
`ListLayout` says. That is no assumption: `ListUnify` is shown to implement
`UnifierPromise`, which is `ListLayout` in one step. The chain is
`MatchGraphBuilder` => `EntityClasses` for the search, `ListUnify` =>
`UnifierPromise` for the whole unifier, and `Merger` on top of it. Both
refinements are proved, for lists of any length, and so is what `Merger` makes of
that promise at every level of nesting (`EntitiesKeptOrShown`).

### Correspondence with the code

*Entities* are pairs `<<list, index>>`. Their content reaches the unifier only
through the comparators' `matches`; as an application may supply any comparator
class, `matches` is an arbitrary set of pairs, constrained only to the pairs
that the three comparators are asked about.

*`MatchGraphBuilder`.* `phase` and `pos` are the loop and its index in
`_populate_nodes`; `found` and `queue` are `indices` and `q` of `_get_matches`;
the other variables have the attributes' names. `StartSearch`, `Expand`,
`FinishSearch` are one iteration of a loop; `EndLoop` leaves it; `AddStats` and
`LinkNodes` are the rest of `build_graph`. The queue is a set from which any
element may be taken: a first-in-first-out order is one of those behaviours, and
what is proved holds for all. Node ids start from 1 and `FIRST` is 0. A node
holds the triple of indices; the objects (`node_data`) are those at the indices.

*`GraphSort`.* `CountInDegrees`, `PopNode`, `FinishToposort` are `toposort`;
`GiveUp` is its `ValueError` together with the call of the fallback; `WalkFirst`,
`WalkSecond`, `EndOfChain` are the two loops of the fallback. The raise inside
the loop of `toposort` (line 256) is modelled; it is never taken, because a
visited node has in-degree 0 (lemma `NeverMetAgain`): all cycles are found by
the length check of line 264.

*`ListUnify`.* `stage` is where `unify` is. `RaiseTooMany` is the threshold
(`MAX_DETAILED_CONFLICTS`, 0 when unset or "0"), `ReportChoices` the
MANUAL_MERGE conflicts, `PlaceNodes` the layout with its REORDER conflict,
`ReportHeadDeletes` and `ReportNewUpdates` the two kinds of operation that
raise, `DeleteHighest` one iteration of the loop that takes the entities held
back out of the list, from the last position to the first (`idx_to_remove` is
what it still has to do), `Finish` the `MergeError`. The refinement `P` of `UnifierPromise` hides
the stages before the last one; the promise's `placed` is `Placed`, the layout
before anything is deleted. A report of `ListLayout` and `ListUnify` carries
indices of entities instead of the entities; `Merger` puts the objects in.

*`BipartiteComponents`.* `_find`'s two loops are steps (`Climb`, `Compress`),
`caller` tells which of the three calls of `_find` is running and `parent_1` is
what `_union` holds while the second one compresses paths. Edges come in any
order, and so do keys: the code's orders are among them.

*`DistanceMatch`.* An element is its index. Which normalisation functions and
which distance functions go with two lists is said by the operators `Norms` and
`DistFns` that a module is instantiated with; `NoForm` is the value that stands
for an exception of a normalisation function (`HintRaises`). `Hint` is one
normalisation function (`_match_by_norm_func` and the removal of what it matched),
`FindComponents` the near graph, `MatchComponent` one component. Munkres is
external: `Computed` is every one-to-one assignment of the shorter side with the
least total distance, and any of them may be returned. Distances are whole
numbers and `Tolerance` stands for the 1e-9 of `match.py:157`. Distances equal
within it need not be transitive; the distances of the run are chosen so that
the threshold, just above it (within the tolerance of a tie) and far away all
occur. (`__init__.py` calls the
class attribute `normalization_functions`; the code reads `norm_functions`.)

*`AuthorNames` and `AuthorMatch`.* A token is its first letter and the rest of
the word, empty for an initial: two words are the same exactly when both agree.
A name is the tokens before and after its one comma, at least one in all; a name
of no token makes the code compute a pairing of nothing, which is not modelled.
`unidecode`, UTF-8 decoding and `editdistance` are external: the normalised
distance of two words is the table `EditDist`. Munkres again may return any
pairing of least cost, so the distance of two names is one of a set
(`NameDistances`) and a distance function is any choice from these sets. 1.0 is
`Unit`; the division is exact for the numbers of the run, as `Unit` and the
distances are multiples of 2, and names of three tokens meet only their equals
or shorter ones. The
normalisers of `AuthorNorms`, the threshold and the penalty are those of the
comparator in `tests/acceptance/test_merger_update.py`.

*`PrimaryKeys`.* A comparator class is its `primary_key_fields` and its
`normalization_functions`, each given on the values that it changes. A key path
that an object lacks is `Missing`.

*`JsonPaths` and `DictMerge`.* A value is a base value, a list, a dictionary or
`Null`, which the code's `get_obj_at_key_path` cannot tell from nothing at all
(`_restore_lists`, `keep_longest` and `to_json` leave it out); positions count
from 1. Keys are no numbers (`KeysAssumption`), as the keys of a
JSON object are strings: a step of a path tells by itself what it leads into. Key names matter in one place only, where
`get_conf_set_for_key_path` compares strings, so `Spelling` gives keys their
characters. `MergeObjects` is `SkipListsMerger.merge`. inspire_dictdiffer is
external and modelled as `dict_merger.py`, `__init__.py:302` and the tests of
data lists show it: a patch is a minimal differing path (`Differing`), where
dictionaries are looked into key by key and *lists that were left in position by
position*: lists of data, and lists that only root and one side have. A path may
lead through both, as `('a', 0, 'b')` does; two patches conflict if they differ and
one path is a prefix of the other; of two conflicting patches the one the strategy
does not prefer is left out. A patch may be in several conflicts that rules
decide differently; then both sides' changes are left out, and shown.

`Strategy` is the rule configured for the path of head's patch without its
positions, or the default. `Found` is what `keep_longest` gets to measure, which
is not always what the patch is about: the field of a patch that leads into a list
is itself a list and is looked up step by step, any other is one dotted string,
found only where it is one key; and a key or position that is added or removed
comes apart, where the position 0 counts as none. The
length of a base value is its number of characters; of a number the code's
`len` would raise, so base values stand for strings where that rule applies.
Looking a position up inside such a string, which Python would do, is not
modelled.

*Patches that shift each other.* A removal from a list changes what the later
positions mean, and an element that both sides appended is in the patches twice.
The code applies removals first (`dict_merger.py:182`), but in which order the
library finds them, and what it does with a position that has moved, is not shown
in this repository. `Shifting` says exactly when this could matter; `MergeDicts`
then ends without a result, and `Merger` with the outcome `shifting`, of which no
property speaks. In the `dict_merge` run that is 846 of the 23225 merges.

*`Merger`.* `calls` is the stack of `_recursive_merge`, `at` the place of a call:
`entry`, `lists` (the loop over lists), `elements` (the loop over unified
triples). `StartList` picks any list left (the code takes them in the order of
a set) and makes the `ListUnifier`, kept in the call as the local variable
`unifier` is: the three lists, the operation configured for the path, and what
the three comparators configured for it match. `UnifyLists` is `unify`, which takes any
order of the entities that `ListLayout` accepts, with its conflicts. `MergeElement` and `ReturnElement` are
the recursive call and its return, `FinishList` the list's end with
`_build_aligned_lists_and_stats`. A merge ends in `Return`, in a rule look-up
error (a `TypeError`), or in a raise of
`TooManyToUnify`: `MaxThresholdExceededError` is no `MergeError`, passes through
every level and leaves `merged_root` unset.

Where head and update share a list, root may have anything (`ListAt`). Nothing or
null there is no list at all; null was not put back by `_restore_lists`. A
dictionary is enumerated by the comparators like a list of its keys
(`comparator.py:47`), in any fixed order, so that a base value of head or update
may match a key; when such a match is ambiguous the choices are read by index
(`graph_builder.py:175`), which raises `KeyError` (`RootKeyError`). A number
cannot be enumerated (`RootNotAList`, a `TypeError`). A comparator whose key is the empty
path stands for one that normalizes whole base values. The three objects merged are JSON values (`InputsAssumption`), as the
library's name says. A string as root's value
at a list field would be enumerated character by character; that case alone is
not modelled, and base values there stand for numbers.

Each property has a mutant: an operator before the definition it replaces,
marked "Mutant", that is the definition with a plausible bug. It is used by no
run.

## Runs

| Run | Instance | Question |
|---|---|---|
| `match_graph` | 2 entities per list, all 4096 match relations, 3 source sets | are classes found, merged once, never lost, the stats right? |
| `match_graph_live` | root 0..1, head 0..2, update 0..2 | does the builder return, and implement `EntityClasses`? |
| `graph_sort` | every match graph of at most 4 nodes, both tie-breaks | complete, ordered, cycle detection exact, returns? |
| `list_unify` | (1,2,2), (2,2,1) and (0,3,3) entities, every operation, limits none and 3 | does the composition implement the promise of a unifier, lose nothing, report the right conflicts, and describe its layout in the stats? |
| `components` | every graph between 2 and 3 elements, edges in any order | trees right through every compression, components exact, returns? |
| `distance_match` | lists of up to two of two objects, and lists of three with duplicates, with every distance function into {0, 144, 145, 400} and up to two norm functions; lists of up to two of eight authors, and of three similar ones in every order | hints exclusive, matches near, duplicates treated alike, the same name matched? |
| `dict_merge` | every triple of each of three families, at the top and in a list, with a rule for either side and `keep_longest` as default: nested objects with lists that are shared or not, lists of data of up to two base values, objects and lists, a list of objects beside null | changes kept or shown, in the elements of lists too, nothing invented, lists in their place, rules by path, the longest kept? |
| `merger` | flat, nested and mixed lists, lists of data, roots that are dictionaries, null or numbers; no configuration, four configurations of comparators and operations by path, one of normalized base values, and one of two key sets; at most two choices | entities, conflicts and alignment in the right place, kept or shown as configured, a key twice only if one entry mixes both sides' keys? |
| `nested_aligned`, `base_conflict`, `conflict_patch_body`, `only_initials` | small cases of the same modules | expected violations, see Findings |

The bounds. They matter for what is only model-checked (see Proofs); the
theorems hold without them. Two entities per list are the least with ambiguity
in every list, with chains through all three lists that come back to the list
they started from, and with two classes at once. Four nodes give cycles of every
length up to four, a cycle that the walk reaches late, and nodes of one side
between nodes of both. Three entities per list let unify meet every permutation
of the nodes, with nodes of one side in between. `MaxNodes` bounds the graphs
that `GraphSort` starts from; in `ListUnify` the graphs are those that the
builder has built, and `BuiltGraphIsMatchGraph` checks that they are graphs that
the `graph_sort` run covers, for up to `MaxNodes` nodes.

Two and three elements give union-find trees that a compression flattens while
the other end's root is held, and components of every shape with up to five
nodes. Three elements with two equal ones are the least on which Munkres must
choose among equals. Two levels of dictionaries, two keys in the inner one,
give every pair of patch kinds at one path and at a path and one above it; a list
at each level gives lists to cut inside what a side adds, removes or replaces.
`Families` keeps apart values that need not meet. In the family of lists of data
two different lists meet at one path in every combination: elements that both
changed alike or differently, objects and lists in them that are merged in turn,
elements added or removed by one side or both; with rules for paths below the list. The merger's
inputs nest lists in entities of lists and lists in lists, two deep, with at most
two entities a list; the recursion treats each further level as the second.
`Falsy` contains a base value of the inputs, so that placeholders for entities
that are false occur. Objects in a field of
an object have lists that only head and update share, and lists in a field that
only one of them has, so that a conflict is about an object without the lists
cut out of it. The inputs with the same key twice have two choices, which
the limit of 2 lets through, or four, which it does not. The comparator of two
key sets, one of them composite, matches entities by the one while their merge
gets the other from both sides, and another entry has it already. Authors share a name
with other fields, with an initial, with one first name more, swapped, misspelt
within and beyond the threshold, or have none.

Fairness is weak fairness of the whole step relation of a computation
(`BuildGraph`, `SortGraph`, `GetComponents`): the code is one thread that runs until it
returns. The stuttering steps `Built`, `Sorted`, `Yielded` are the state after
that, and have no fairness.

## Proofs

The theorems hold for every value of the constants: lists of any length, any
matches, operations, limits, distances and normalisation functions. The
assumptions are those that the modules state, and TLC evaluates each of them in
the runs: lengths, limits and `MaxNodes` are natural numbers, the operations are
the code's (`OpsAssumption`, `ConfigsAssumption`), keys are no numbers and the
objects merged are JSON, finite and of some depth (`KeysAssumption`,
`DepthAssumption`, `InputsAssumption`, `ValuesAssumption`), distances are natural numbers and the two lists fit
in the sizes that are given (`DistancesAssumption`, `ContentsAssumption`).

### The builder (`MatchGraphBuilderProofs`)

`TypeOK` is inductive. `SearchFindsClass` is not: `SearchInv`
says that everything found is in the class of the start, and that whatever is
found and no longer queued has all its matches found; so when the queue is
empty `found` is closed under matching, hence contains the class. `Class(x)` is
the intersection of all closed sets that contain `x`, which needs no recursion
and lets the proof work by exhibiting closed sets; `ClassIsClosure` and
`SameClass` make classes a partition. With it, `NodesInv` says that each node is
the one triple of an unambiguous class and that an index has a node exactly
when its class is one; `ChoicesInv` that choices are triples of ambiguous
classes; as classes partition the entities, nodes and choices cannot overlap
(`OneNodePerEntity`, `ChoicesNotMerged`) and `WantsNode` never holds of an
entity whose class is a node (`IndexNeverRepointed`). `HandledInv` says that
every entity behind the loops is in a node or a choice (`NothingLost`), and
`StatsInv` what the stats hold in each phase (`StatsAgree`).

`ResolvedInv` and `MadeOfKept` say the same of whole classes: those behind the
loops are resolved, and nothing else has been. With them each iteration is one
step of `EntityClasses` or a stutter (`BuilderImplementsClasses`). `Linked` says
where the edges of the finished graph lead, and `ChainBuilt` that on each kept
list they are one chain, through the nodes of that list in its order.

### The sort (`GraphSortProofs`)

`GraphInv` gives each side its chain, a sequence without repetition, and every
node a place in one of them; `OneChain` shows that the chain is determined. What
`toposort` keeps is that in-degrees count the edges not yet followed and that
the stack has exactly the free nodes (`StackInv`), that the output is closed
under predecessors (`OutputInv`: nothing is put out before what precedes it), and
the tie-break, which needs to hold in the output, between it and the top of the
stack, and down the stack to be inductive (`TieInv`). What the fallback keeps is
how far each walk has come (`WalkInv`). The step that is not routine is
`LeftReordered`: when `toposort` stops before every node is out, the first nodes
left of the two chains each wait for the other chain, so two nodes are in
opposite orders. Chains have no length bound, so facts about all of a chain are
proved with `Least`, the least counterexample of a property of its positions.

### The unifier (`ListUnifyProofs`)

The two computations that `unify` runs keep the invariants proved of them
(`UnifyRunsBuilder`, `StepOfUnify`), and `BuiltGraph` hands the one's result to
the other: the chains of a finished graph give the sort's `GraphInv`, whatever
their size, and `GraphIsListed` that a graph of up to `MaxNodes` nodes is one
that `GraphSort` starts from (`BuiltGraphIsMatchGraph`).
`ReportsInv` lists the conflicts that exist at each stage. `LaidOutInv` is what
the loop of removals needs: there is an increasing map `Remaining(f)` from the
places of the list to the layout's, every place missing from it was to be removed,
and up to the highest position still to be removed it is the identity, so that
this position means what it meant when the loop began (removing from the first to
the last breaks just this). `KeptOrShown`, `HeadDeletesReported` and
`StatsDescribeLayout` follow when the removals are over; they rest on `NodesInv`,
`StatsInv` and the sort's `Complete`.

`UnifyImplementsPromise` combines all of it. The nodes and choices are those of
`ListLayout` (`PromisedNodes`); the output has each node once (`OrderMeans`),
respects both lists if `Orderable` says that something can (`OrderableMeans`: an
orderable set of nodes has no two in opposite orders, so the sort did not fall
back, and a set that is not orderable has such a pair, found by the sort); the
conflicts are those of `ListLayout` (`ReportsMean`), and what the removals leave
is what it lays out (`LaidOutMeans`, with `Ranks`: an increasing sequence is
determined by its elements).

Inserting what the INSERT conflicts hold at the positions they give, from the
lowest, rebuilds the layout (`InsertsRestoreTheOrder`). `PutBack(s, n, g)` says
that after the insertions up to `n` the list is the layout without the entities
held back behind `n`, with `g` the increasing map of its places; in particular
it is the identity up to `n`, which is why the next position means what it says.

### The dictionary merger (`DictMergeProofs`, `DictMergeCasesProofs`)

`CasesInv` only says that a result is that of `MergeObjects`; the work is what
that computes, for values of any depth and width and any rules. Everything is
seen through `Get` at paths of keys and positions. `Effect(patches, obj, new)` says what a set of
patches beside each other makes of a value: what is below a patch is what it
says, what is beside all of them does not change, and a dictionary or list above
them gains or loses a step of theirs and nothing else. It holds of one patch
(`EffectOfSetting`, `EffectOfRemoval`), composes (`EffectCompose`), and so holds of a
finite set in whatever order it is applied (`EffectOfAll`, by the least number of
patches for which it would not). Cutting lists out and putting them back are sets
of patches too (`CutEffect`, `RestoreEffect`).

The changes of one side are beside each other (`DiffApart`); two changes that
conflict are not, and at most one of them is applied, so the patches applied are
beside each other (`UnifiedOK`), and where both sides changed the same path one of
the two is (`OneIsApplied`). The step that is not routine is that the lists put
back before the patches are applied survive them: a change at or below a list
that was cut out cannot be, and one above it only where root has no such list
(`ChangeAndList`; above a list that is cut out there are dictionaries only,
`KeysOnDicts`). That a null of root is not put back changes nothing else (`Regained`). From there `PatchSeen` and `NothingElse` say what the merged value
is with the lists left out: at a patch what the patch says, elsewhere what root
has. The theorems speak of the merges that have a result: not of patches that
shift each other. That gives `ChangesKeptOrShown`, `NothingInvented`, `ListsAsInRoot`,
`RulesDecide`, and `LongestKept` where every base value is a string
(`OnlyStrings`; `len` raises otherwise). For `ThreeWayLaws` the merged value has to
be equal to a side: `AlikeEqual` makes two values equal that are alike at every
path, from the depth up.

### The recursion (`MergerProofs`)

`EntitiesKeptOrShown` speaks of the end of a merge, at every path of `stats`. The
objects that a path comes from are found again through the triple of the
innermost entity on it (`Behind`), while the computation holds them in a call
that has long returned. `KeptInv` ties the two at every moment of the recursion,
in parts that mention the whole stack:

* `CallsOK` and `CallsNest`: the objects of each call are JSON values or absent,
  root possibly a key of a dictionary that stood for a list (`Roots`),
  and a call is on the next triple of the list that the call below it is at, so
  that its path is that list's with the position added;
* `ListsLeftNew` and `EntitiesLeftNew`: no list still to be unified by a call,
  and no list in an entity still to come, has stats. Without this a later list
  could overwrite the triples of an earlier one;
* `StatsKept` and `CallsKept`: what the property says of a list holds with the
  objects found through the entity around it, which is in the stats or, while
  its list is open, in the `unified` of the call. This is where the operation
  of the list's path and the conflicts of the unifier come in (`UnifiedKeeps`,
  from `ListLayout` alone).

Each action pushes, replaces or pops the first call (`PushEffect`,
`ReplaceEffect`, `ReturnEffect`), and one lemma for each of these moves says what
carries the six parts over.

`OutermostAligned` is about what `Set` does to the aligned copies (`SetThere`,
`SetAbove`, `SetBeside`: at a path, above it and beside it). The end of a list in
a list writes into the copy of the list around it, which may even have become a
list of other objects by then; `AlignedInv` says why the outermost lists are none
the worse. `CallsBelow`: all calls but the outermost are in the list that the
outermost is at, which has not been aligned yet (`ListsLeftNew` again). Two lists
of one object part at a step (`ListPathsPart`), so that a write in one leaves the
other as it is (`AlignedSoFar`) and the dictionaries above it in place
(`PlacesKept`).

`EntitiesInPlace` needs to know that what is put in the merged object stays. A
list is written into the `root` of its call when it is finished, and that `root`
into an element of the list around it when the call returns. `PlacedInv` follows
it: every list with stats is, as its triples say, in the `root` of a call of the
stack or in an element of a `new_list` (`ListsPlaced`, by `InRoot`, `InNew` and
`InCall`), and every call is on the next triple of the one below it
(`CallsEntered`). That a list written later leaves an earlier one alone rests on
the two being at different fields of one object (`ListsLeftNew`,
`ListPathsPart`), and `RootReady` says that the place of each list still to be
unified is there to be written. That comes from the dictionary merger's theorems
(`ObjectsMerged`): its result has the lists as root has them and dictionaries
above them, and is what both sides agree on when there are none.
What an action makes of a call
is bounded by `Inherits`: it has at least the lists the call had, where it had
them.

`ConflictsLocated` relates what is reported of an entity to what was unified
around it, long before. `MeantInv` says of every conflict so far that it is meant
(`ConflictMeant`) by a triple that an entity on its path is merged from, found in
`stats` or in the `unified` of an open call (`OriginsOf`): a field conflict has the
value of head or update in that triple, unified lists apart (`FieldMeant`), and a
conflict about a list holds entities of the list in that triple. The entity is
not the path up to its last position, as that position may be one in a list of data, which
was merged as a field. It needs that each call merges such a triple
and that what it has left of root's lists is root's (`CallMeant`, `RootLists`).
What is unified stays known when a list is finished or a call returns
(`UnifiedGrows`), so a conflict once meant stays so. What is new comes from
`FieldsMeant` for the dictionary merger, whose conflicts are changes of a side,
and from `ListConflictsSay` for the unifier. At the end `stats` alone holds the
triples, and `PlacedInv` says that the entity is in the merged object.

### Distance matching (`BipartiteComponentsProofs`, `DistanceMatchProofs`)

`SameRootIffConnected` speaks of following `parents` to the end, which a
compression changes under way. `ForestInv` names the map from nodes to roots:
one `rt` exists that agrees with every parent and tells connected nodes from the
others (`Tells`), and the pointers lead where `rt` says (`Leads`, reachability as
the sets that are closed upward). A compression leaves `rt` as it is, a union
changes it for one tree; `FindInv` says what the two halves of `_union` hold
between their steps. `DistanceMatch` uses components by their definition;
`MatchInv` says that what is left at each step is free of hinted elements, and
that two elements that are the same object are in the same component, or in none.
From the least total distance of an assignment only ranges are needed, so the
theorems hold for whatever one-to-one assignment Munkres returns.

### What is only model-checked

* Termination of the builder, the sort and the union-find: liveness under
  fairness and ENABLED are outside the prover.
* `OnlyMixedKeysCollide`, which depends on what the comparator of a list makes of
  entities after their own lists and fields were merged. Two merged entries may
  have one key: with the key sets `[id]` and `[k, b]`, two entities matched by
  their `id` are merged to the `k` of head and the `b` of update, which together
  may be the key of a third entity, as in the input `Mixed`. The property says
  that this is the only way: an entry with a key that was its own on one side
  shares it with no other such entry;
* `SameNameMatched`: names are sequences of words that are cut, paired and compared
  one by one, and need induction over data, for which no installed prover can use
  the library's theorems.

## Findings

* `nested_aligned`: `merger.py:146` promises one index for all matched entities;
  a list inside an entity is aligned before the list around it, whose alignment
  then replaces the entity that held it (`OutermostAligned` is what holds);
* `base_conflict`: `merger.py:218` says that merged_root is populated even if
  conflicts occur; a conflict between base values in a list ends in a
  `TypeError` (`dict_merger.py:235` adds a tuple to a list);
* `conflict_patch_body`: the patch of a SET_FIELD whose body is a list sets the
  field to the elements one after the other;
* `only_initials`: `author_util.py:184` says that "Johnny, D" and "Donny, J" are
  not equal; each initial is paired with the other name's full word, which is not
  a pair of initials, and the distance is the penalty, 0.05.

Seen while modelling and described by the model, with no run of its own:

* `stats.py:39` says that `in_result_idx` are the elements "present in the end
  result"; entities that `unify` deletes after the stats were computed
  (`list_unify.py:148`) stay in it (`StatsDescribeLayout` is what holds);
* `keep_longest` keeps head for every field below the top of the object, whatever
  the lengths: the path of the patch is looked up as one dotted key
  (`dict_merger.py:240`, against `config.py:41`);
* names of initials only are at distance 1.0 even when they are the same
  (`author_util.py:185`), and a name without exactly one comma raises
  `ValueError` (`author_util.py:72`), a missing `full_name` in a normaliser too
  (`author_util.py:116`), while the distance function returns 1.0;
* an entity with two root matches gets no root match (`graph_builder.py:154`) and
  is in `not_in_result_not_root_match_idx`, of which `stats.py:56` says "not
  matched with any root elements";
* ties make the distance matches not one to one (`match.py:156`, against
  `__init__.py:352`), and a pair that ties with a match is not tested against
  the threshold (`match.py:157`, against `match.py:146`; `WithinTolerance` is
  what holds);
* a root value that is no list is only replaced by an empty list at the path of
  the call itself (`merger.py:235`); below it, a number ends in a `TypeError`
  (`RootNotAList`), and a dictionary is matched by its keys and may end in a
  `KeyError` (`RootKeyError`);
* matched entities may be merged into an entry with the key of another one
  (`merger.py:262`; `OnlyMixedKeysCollide` is what holds);
* only lists that both head and update have get stats (`merger.py:150` speaks of
  every list field), and any entity that is false in Python becomes a
  placeholder (`merger.py:318`);
* configuration strings are compared as strings: in the elements of a list `a`,
  the data list `ab` is taken for the field `b` (`utils.py:96`), although
  `merger.py:105` calls a configuration string "the path towards a list field".
  `ConfSet` computes it, and no property says otherwise: which lists are data is
  taken as the code finds it;
* the index of the first element is false in Python: where an element is added to an
  empty list, the rule gets to measure the lists instead of the element
  (`dict_merger.py:218`, `Found`);
* a SET_FIELD conflict may be at a path that merged_root lacks, where a JSON
  patch cannot `replace` (`conflict.py:116`).

## Plan

1. (done) builder, stats, sort, unifier; distance matching; key paths, dictionary
   merger, recursive merger; theorems on the builder.
2. (done) primary keys; `keep_longest`; operations and comparators by path in
   `Merger`; the promise of the unifier, implemented by `ListUnify` and used by
   `Merger`; author names and the matching of authors.
3. (done) theorems on the sort, the union-find, distance matching and the
   unifier; the refinements of `EntityClasses` and `UnifierPromise`.
4. (done) the INSERT conflicts rebuild the layout; the recursion keeps or shows
   every entity, at every level, has it in its place, aligns the outermost
   lists, and every conflict points at what it is about.
5. (done) the dictionary merger, patch by patch: nothing lost, nothing invented,
   the lists in their place, the rules obeyed, the three-way laws; the elements of
   lists of data included, and all of the above for them.

What is left to TLC is listed under "What is only model-checked".

## Not modelled

* `__init__.py` and `setup.py`: documentation and packaging.
* Decoding, transliteration, edit distance, Munkres and inspire_dictdiffer are
  other packages; each is modelled only as the code uses it (see above). Merges
  whose patches of one list shift each other are left out, for the same reason.
* Rules of the dictionary merger and comparators that an application writes
  itself, except as the arbitrary relation of `MatchInputs`, and the arbitrary
  distances and normalisation functions of `DistanceMatch`.
* The representation of `NOTHING`, of exceptions and of frozen conflict bodies,
  and logging.
