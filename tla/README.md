# Formal models of prolly-gunna

TLA+ models of the prolly tree of this repository (`src/src/…`, Rust compiled to
WebAssembly), TLC configurations that check them on small instances, and
theorems about them that TLAPS checks for every instance.

## 1. Inventory

| part | code | state it keeps | operations that change it |
|---|---|---|---|
| chunk store | `store/mem_store.rs`, `chunk.rs` | a map from Blake3 hashes to bytes behind a `RwLock` | `put`, `delete_batch`, loading from a JavaScript map |
| node | `node/definition.rs`, `tree/io.rs` | none: immutable values | |
| tree | `tree/prolly_tree.rs`, `tree/core_logic.rs`, `tree/modification.rs` | `root_hash`, `config`, a handle on the store | `insert`, `insert_batch`, `delete`, `checkout`, each again as a `_sync` twin except batch and checkout |
| garbage collector | `gc.rs` | for one call: `live_chunks_set`, `queue` | `collect` |
| facade | `lib.rs` | a mutex around the tree, the list of listeners, the queued futures | the methods of `PTree`, `onChange`, `offChange` |
| cursor and scan | `tree/cursor.rs`, `tree/types.rs`, `scan` and `scan_sync` | a stack of loaded nodes, a position | opening, `next`, and scans by bounds, offset and limit, in both directions |
| hierarchy scan | `tree/hierarchy_cursor.rs` | two queues: nodes to visit, nodes whose entries are being listed | one page by depth, offset and limit |
| diff | `diff.rs` | none across calls | |
| file format | `store/format_v2.rs`, `store/file_io_v2.rs` | a file | save, load |
| configuration, errors, conversions | `common.rs`, `error.rs`, `wasm_bridge.rs` | none | |
| event emitter | `events.ts` | a listener map | not imported by anything |

How they interact.  JavaScript calls the facade.  An asynchronous method queues
a future; when the event loop polls it, it takes the tree's mutex, calls the
tree, tells the listeners if the root changed, and releases the mutex.  A
synchronous method does the same at once with `try_lock`.  The tree loads and
stores nodes by hash; it never overwrites one: an edit stores the nodes on the
way from the leaf to a new root, then sets `root_hash`.  Versions are old roots;
they share chunks with the live tree through the one store.  The collector
deletes from that store what no live root reaches.  A `PTreeCursor` holds a
handle on the store and the nodes it has loaded, and no lock between two calls
of the application; a paged scan holds nothing but the key that the application
passes on from one page to the next.

What is hard, and what makes each part correct:

* **tree.**  Long sequences of splits, borrows, merges, root growth and root
  collapse; entries of a parent that copy facts of a child (boundary key, hash,
  item count); two hand-written copies of every operation.  *Correct* when each
  call does what it does to a map, keys are in order under exact boundaries,
  leaves are at one depth, counters are exact, nodes keep their size, and both
  copies make the same tree.
* **store and versions.**  Calls that stop half way, loads from incomplete
  exports, loads under another configuration, versions that share chunks.
  *Correct* when every reference of a stored chunk resolves at every moment,
  a version stays what it was as long as it is there, and a tree with missing
  chunks fails instead of answering wrongly.
* **collector.**  Shared chunks, the tree's own root not among the roots given.
  *Correct* when it takes exactly what no live root reaches, and ends.
* **facade.**  Synchronous calls between queued ones, listeners that call back
  while the mutex is taken and the listener list is borrowed, calls that fail
  half way.  *Correct* when listeners can follow the root from their events,
  and every call settles.
* **cursor and scan.**  Bounds, offsets and limits at leaf edges in both
  directions; a step to the next leaf that fails with half the stack popped; an
  edit or a collection between two steps of a cursor or two pages.  *Correct*
  when a page is what the same request selects from the sequence of entries, a
  cursor gives the version it was opened on, and pages fit together.
* **hierarchy scan.**  Two queues, pushed at different ends, and an offset that
  counts in their common order.  *Correct* when pages are parts of one walk.
* **diff.**  Two trees cut at different keys, possibly of different height.
  *Correct* when what it reports of a key is the key's value on each side.
* **file format.**  Offsets that are known only after what they point over was
  written, three kinds of checksums.  *Correct* when a file loads as what was
  saved, and a damaged one never as something else.

The hazards, each at its line, with the properties that watch it, are in
`PROJECT.json`.

## 2. Modules

| module | models | extends |
|---|---|---|
| `Node` | nodes, stored values, the changes one operation makes to one node or to one list of children; what of a subtree a search relies on | |
| `ProllyTree` | one tree over its store, node by node: get, insert, delete, checkout, load, collection | `Node` |
| `MapStore` | abstract: a map with atomic calls | |
| `VersionedMap` | abstract: a map with versions, checkouts, collections and, as `LossySpec`, failing calls | `MapStore` |
| `TreeMap` | what a tree promises: the refinement mapping to `VersionedMap`, and what holds in the middle of a call to make it true | `ProllyTree`, an instance of `VersionedMap` |
| `Lossy` | a tree that is loaded without some of its chunks | `TreeMap` |
| `TreeOps` | the synchronous operations as recursive functions from root to root | `Node` |
| `Cursor` | a cursor over one version: positioning, the neighbouring leaf, stepping, with what the store holds at the moment | `Node` |
| `Scan` | the start of a scan, and one page of `scan` and of `scan_sync` | `Cursor` |
| `TreeHandle` | the store and the root that readers share with the rest | |
| `CursorReader` | a `PTreeCursor` on a tree that something else edits and collects, and what it promises | `TreeHandle`, `Cursor` |
| `Paging` | a range read page by page from a tree that something else edits, and what the pages promise together | `TreeHandle`, `Scan` |
| `Readers` | that cursor, and those pages, among edits and collections | `CursorReader`, `Paging`, `TreeOps` |
| `Hierarchy` | one page of the hierarchy scan | `Node` |
| `Diff` | the differences of two versions | `Node` |
| `FileFormat` | the layout of a file, saving and loading | `Node` |
| `Reads` | single reads of a tree, among whatever else happens to it: pages of scans; a tree is saved and loaded, with damage to the file in between | `TreeHandle`, `Scan`, `FileFormat` |
| `PTree` | the facade: mutex, event loop, listeners, batches; what a call does to the tree is its constant `EffectOf` | `Node` |
| `Listening` | what the listeners of a facade know from their events | `PTree` |
| `TreeEffects` | what a call does to the tree: the value the runs give to `EffectOf` | `TreeOps` |
| `MCTree` | the runs of edits alone, from the empty tree and from trees of three levels | `TreeMap`, `TreeOps` |
| `MCVersions`, `MCReload` | runs of all calls with the store in the state; runs that start with a load | `TreeMap`, `TreeOps`; `Lossy` |
| `MCReaders` | one cursor or one paged scan over a tree that changes | `Readers` |
| `MCReads` | single reads with all arguments, over a tree that may lack a chunk | `Reads`, `Hierarchy`, `Diff`, `TreeOps` |
| `MCEvents` | an application of the facade and its listeners | `Listening`, `TreeEffects` |
| `NodeProofs` | lemmas on one node: what each operation returns; the order of keys; nodes as sets of slots, and what is stored below them | `Node`, `TLAPS` |
| `ProllyTreeProofs` | theorems: types, closure, levels, counters, collection, the order of keys; nodes keep to their fanout, a delete never lacks a sibling | `ProllyTree`, `NodeProofs` |
| `MapProofs` | theorems: the tree refines the map with versions; counts and searches of the current tree | `TreeMap`, `ProllyTreeProofs` |
| `WalkProofs` | lemmas on a walk through the leaves: where a descent and a move to the next leaf end, and what is ahead of a cursor, in both directions | `Cursor`, `NodeProofs` |
| `CursorProofs` | theorems: a cursor gives its version and fails only if that was taken | `CursorReader`, `WalkProofs` |
| `LossyProofs` | theorems: the same for trees with chunks missing, for cursors on them and for scans of them | `Lossy`, `MapProofs`, instances of `CursorProofs` and `ReadsProofs` |
| `ListeningProofs` | theorems: listeners know the root, events are in order | `Listening`, `NodeProofs` |
| `ReadsProofs` | theorems: pages of a scan are right and join, also while the tree is edited; a saved file is loaded, a damaged one noticed | `Reads`, `Paging`, `WalkProofs` |

Definitions preceded by a comment "(Faulty: …)" are never part of a
specification: each is a plausible mistake in the operation after it, and
`PROJECT.json` lists the property that notices when it is put in its place.

### How the state corresponds to the code

* *A chunk stands for its own hash.*  Where the code holds a hash, the models
  hold the chunk itself, and "the hash resolves" is "the chunk is in `store`".
  This takes Blake3 to be injective and the store to be content-addressed,
  which `put` is (it hashes what it is given).
* *Keys* are integers: the code uses nothing of byte strings but their order.
  *Values* are model values; `Cdc[v]` is the sequence of data chunks FastCDC
  cuts `v` into, empty when it is inlined.  The code's two representations of
  chunked values, one hash or several, are one record with a sequence.
* *A call is a sequence of steps, one for each node visited* (`pc`, `call`,
  `at`, `path`, `update`).  The recursion of `core_logic.rs` is the stack
  `path`; `ProcessedNodeUpdate` and `DeleteRecursionResult` are the one or two
  entries, or none, in `update`.  What is stored while one frame of the
  recursion runs is stored in one step: the mutex is held, so no other call
  sees the difference, and `StoreClosed` holds between the steps, where a call
  may fail.
* `reply` is the last call that returned and its outcome.  `versions` are the
  roots the application has been given; it can check any of them out later.
* *A cursor* is `[path, at]`: the stack of loaded nodes, and the position of
  the next entry in its leaf.  Stepping is a function from a cursor and the
  present store to a cursor and an outcome, because a step that fails leaves
  the stack as it then is, and the application may ask again.  The code's
  asynchronous and synchronous functions are the same text here; where `scan`
  and `scan_sync` differ, `Scan` and `ScanSync` do: the next cursor of the first
  is the first key of the next page, that of the second the last key of this
  one, and a limit of 0 fetches nothing or one entry.
* In `Readers` one step of a cursor, one page, one edit and one collection are
  each one step.  A page holds the mutex; a cursor step does not, but edits only
  add chunks, a sweep is one operation on the store, and a cursor step over the
  in-memory store never waits.
* *A file* is a sequence of cells, one for each field, chunk or JSON text, and
  offsets count cells.  The layout is that of the code (header, chunks, index
  block, metadata block, EOF block).  A checksum is the cells it is of: CRC32 is
  taken to notice any one field altered, Blake3 to have no collisions.  The EOF
  block repeats two offsets, which the code reads and never compares.
* In `PTree` everything happens in the order of one JavaScript thread: `tasks`
  are the queued futures, `emitting` is the stack of emissions under way.  Over
  the in-memory store a future never waits for anything but the mutex, so one
  poll is one step, interrupted only by the listeners it calls.  What a call
  does to the tree is a constant, `EffectOf`: the mutex, the queue and the
  listeners do not depend on it.  The runs take `TreeEffects` for it, which is
  the function of `TreeOps` for the synchronous twin; that the asynchronous one
  ends with the same root is what `SyncAgrees` checks.
  That an exception of a listener is logged and that a method of the facade
  that panics on the borrowed list surfaces as an exception of the listener is
  how `wasm-bindgen` calls JavaScript; that a new future is queued and polled
  later is how `wasm-bindgen-futures` spawns it.

### Behaviour worth knowing

The models follow the code where a reader of the API might expect otherwise:

* An excluded `start_bound` is stepped over after the offset was skipped, so
  the excluded entry counts towards the offset (`Passed` in `MCReads`).
* `hierarchyScan` takes a `start_key`, which `tree/types.rs:81` documents, and
  never reads it; no property is about it.
* `nextPageCursor` of `scanItems` is the first entry of the next page, that of
  `scanItemsSync` the last one of this page.  `Paging` passes each on as this
  demands, the first with `startInclusive`.  `test/scan.test.ts:313` passes the
  first without, and so expects pages that leave out one entry each.
* `triggerGc` keeps the tree's own root too, whether or not it is listed
  (`test/gc.test.ts:225` relies on it); the repository's README:373 names only the
  listed hashes.
* After a delete the root is replaced by an only child once, not until it has
  more than one, so under a minimum fanout of one a root may keep a single
  child; searches are right and the tree is a level too high.

## 3. Runs

All runs name their bounds as constants of the MC module or in the `.cfg`.

* **trees** (`MCTree`).  Three uses in one run.  `Narrow`: every tree that
  inserts and deletes build over five keys and two values under fanouts
  (target 2, minimum 1) and (3, 1), with no bound on the number of calls: up to
  three levels, with leaves and internal nodes that vanish.  `Wide`: the same
  over ten keys and one value under (4, 2) and (5, 2), where a node underflows
  before it vanishes: leaves borrow from either side and merge.  `Grown`: up to
  three calls from trees of three levels under (4, 2), chosen so that internal
  nodes, too, borrow from the left, from the right and merge.  Checks
  `TreeSearchable` (in the current tree each leaf is in its range, boundaries and
  levels exact, so that a search finds its key), `TreeCounted` (what
  `countAllItems` answers), `KeepingSize` (the inductive invariant of the
  proof about sizes; in `Wide` and `Grown` the minimum is 2, so that nodes borrow
  and merge), that each call does what it does to a map (`ImplementsMap`, a
  refinement of `MapStore`), that the synchronous twins agree (`SyncAgrees`), and,
  with deadlock checking on, that no call gets stuck.  Steps that report an error
  are left out of this specification, so a call that would fail is a deadlock.
* **versions** (`MCVersions`).  At most four calls of any kind, from the empty
  tree and from a tree of two keys, with values that share a data chunk and the
  whole store in the state.  Checks the type invariant, `StoreClosed`,
  `StoreBalanced`, `EntriesExact`, `StoreOrdered`, `StoreCounted`,
  `NothingMissing`, the inductive invariants of the proofs (`Inductive`,
  `KeepingOrder`, `KeepingSize`, `KeepingMap`, `Rewriting`), `GcExact`, the
  refinement of `VersionedMap` (`ImplementsVersions`), and that every call
  returns.  Four calls are enough for: insert, insert, collect (dropping a
  version), check out what was dropped.  The minimum fanout is 1 here, under
  which no node lends or merges: what rebalancing does to a tree is left to runs
  **trees** and **reload**, and to the proofs.
* **reload** (`MCReload`).  A tree is loaded under another fanout, or without
  one of its chunks, and two more calls follow, on the keys in `Touched`: the
  first, two in the middle of which one may have been deleted before the export,
  and one that is the last or above all (the maps of all versions are read off
  the trees in every step, which bounds how many keys a run can afford).  Checks
  that it stays searchable (`TreeSearchable`), that each call does what it does to
  the map or fails and leaves the version alone (`ImplementsLossy`), that its
  outcome says whether there is another root now (`TellsOfRoot`, on which the
  facade relies), and that an edit costs no other key that could be read.
  Two calls suffice for one that changes the nodes around a missing chunk and
  one that meets the result.
* **cursors** (`MCReaders`).  An application opens one cursor, at any key or at
  the start, or asks for the pages of one scan of either twin, of all or of a
  range with an excluded start, over a tree of two or three levels; two edits
  and any number of collections, with any choice of live roots, come between its
  steps.  Checks that a cursor gives the entries of the version it was opened on
  (`CursorFaithful`), that it fails only if a collection took that version
  (`CursorKept`), which none does that was told of it (`NamedIsKept`), and that
  pages neither repeat nor skip what was there all along (`PagesFit`).  Two
  edits are enough to delete the key a page's cursor names and to put another in
  its place; three levels are enough for a step to pop more than one node.
* **reads** (`MCReads`).  Every scan, hierarchy scan, diff and file over trees
  of up to three levels whose keys leave gaps within leaves, between them and
  at the ends; bounds in and around every gap, inclusive and exclusive, both
  directions, offsets and limits past the end, and any one chunk lost; files
  with any one cell altered or the end cut off anywhere.  `Reads` states what is
  proved too: `ScanSound`, that a page is a part of the tree's map without gaps,
  `PagesJoin`, that it tells whether there is more and where that begins,
  `OffsetsCount`, that an offset passes as many entries as it says,
  `FileRoundTrips` and `DamageDetected` about save and load.  `MCReads` adds
  `ScanExact`, which says with the sequence of the tree's entries what a page is,
  exactly, after any offset, where the scan finds its start (see `reverse_gap`),
  `HierarchyExact`, which compares pages with one recursive walk, and
  `DiffAccounts`, which compares a diff with the two maps.
* **events** (`MCEvents`).  Two listeners, three calls on the tree and three of
  `onChange` or `offChange`, from the application or from a listener.  Checks
  that a listener always knows the root (`ListenersKnow`) and that events arrive
  in order, once per registration, never nested (`EventsFollow`), and, of
  `TreeEffects`, that the outcome of each call says whether it changes the root
  (`OutcomesTell`), which is what the proofs about listeners assume of it.  Two
  listeners are needed: with events nested by the first, it is the second that
  would hear them in the wrong order.
* **settle** (`MCEvents`).  Two calls and two registrations: every call settles.

Five runs show where a document, comment or test of the repository and the code
part ways; TLC finds the counterexample in each.

* **reverse_gap**: a scan backwards from a bound that is not a key, and lies
  below all keys of the leaf the descent leads to, ends at once although
  smaller keys are in the tree (`cursor.rs:463`; with leaves 2 | 4 6, from 3).
* **diff_moved**: where two versions are cut differently, a diff reports a key
  that both have as a deletion and as an addition, even with the same value on
  both sides, though a missing left value should mean "added".
* **reload_whole**: a complete export, loaded under a larger minimum fanout
  (also the default one, when no configuration is passed), has nodes without
  siblings.  A delete next to one rejects with "Underflow node has no sibling to
  merge with." although the key is there.
* **batch_fails**: `insertBatch` that meets a missing chunk half way leaves the
  items before it inserted and the root moved, and no listener is told: here
  `OutcomesTell` fails, so the theorems about listeners do not apply.
* **sync_overtakes**: a synchronous insert after an asynchronous one that was
  not awaited does not throw, as the README says; it takes effect first.

### What is left out of a state

`MCTree` tells states apart by the view `Shape`, which leaves the store and the
histories out.  Edits of a tree all of whose chunks are stored only read chunks
of that tree, so two states that differ in other chunks behave alike; the runs
of the other MC modules keep the store.  `KeepingSize`, which
speaks of the store too, is checked there on one store for each view, which
has at least the chunks of the tree.  `content`, in `MCTree`, is a history
variable: the mapping of the current root, computed once by `Content`, which
`ImplementsMap` reads; `TreeMap` has none, it reads each version's map off its
root (`MapOf`), and the two definitions do not share a line.  History variables
are, too, in `MCReaders`, `version` (what the cursor
was opened on, with the map it has to give), `kept` and `named`, in `Paging`,
`always` and `ever` (the entries that were there all the time, or at some time,
since the first page was asked for), in `Listening`, `known`: the root
each listener has been told, and, in `LossyProofs`, `made`: every chunk that was
ever stored.  `MapStore` may start from any map, because
some runs start from trees that are not empty.

### Fairness

`CallsReturn` assumes `WF_vars(Step)`: a call that has begun is polled until it
returns, which the executor does, the in-memory store never making it wait.
`CallsSettle` assumes weak fairness of the event loop polling the queue and of
listeners returning: JavaScript runs its microtasks when it has returned, and a
listener that never returns would stop the whole thread.  Nothing is assumed
about which calls the application makes.

## 4. Proofs

`NodeProofs` proves what the operators on one node do for any keys, values,
chunking and configuration that the assumptions of `Node` allow: splitting,
inserting, borrowing and merging give non-empty lists of well typed entries,
over the same store, for nodes of one level, each with the boundary and the
item count of its node (`HandleUnderflowOver` among them).  That a stored value
reads back as itself is not a result but an assumption, `CdcAssumption`: the
chunks of a value determine it.

`ProllyTreeProofs` proves that `Inductive` is an invariant of `Spec`
(`InductiveHolds`), hence `TypeCorrect`, `StoreStaysClosed`,
`StoreStaysBalanced`, `EntriesStayExact`, `NothingGoesMissing`, and with it
`CollectionIsExact`.

*Why a stronger invariant is needed.*  That the store is closed does not by
itself survive a step in the middle of a call: what is about to be stored is
made from the stack.  `Inductive` adds

* `Descending`: the node to visit is stored and is the child, one level down, of
  the last node on the stack; neighbours on the stack are one level apart; the
  data chunks of a value being inserted are stored already;
* `HandingUp`: the entries handed upwards say what their nodes say and are for
  nodes of the level of the child they replace, so that the parent made from
  them is balanced and its counters exact;
* `Marking`: live roots are marked or queued; whatever a marked chunk refers to
  is marked or queued; and everything marked is a root or referred to by a
  marked chunk.  The first two keep the store closed over the sweep, the last
  makes the collection exact.

There is one lemma per action and, below it, one step per conjunct the action
can disturb.  `NothingMissing` (`NothingGoesMissing`), which is proved from it and
is not part of it, says that the error branches `NodeMissing` and
`SiblingMissing` are unreachable in a tree that was not loaded from an
incomplete export.

*Counters without recursion.*  `EntriesExact` compares each entry with the one
node it is for, so it needs no induction over the tree; the sum over a node's
children is the size of a disjoint union (`ChildItems`).  A merge does not
count the merged node but adds the two old counters up; that this is the same
number is `MergedItems`, by the sum of the sizes of two disjoint sets
(`ChildItemsConcat`).

*The order of keys.*  `ProllyTreeProofs` also proves `StoreStaysOrdered`: in every stored
node of every version each slot is above the boundary of the one before with
all the keys below it, not only with its boundary.  That is what makes a search by
boundaries complete, and what a borrow or a merge between nodes of the wrong
range would break without any call failing.  The lowest key below a node is the
first of the leaf at the end of its left edge (`LowKey`), the highest is its
boundary by `EntriesExact`, so no recursive definition is needed.  The invariant,
`KeepingOrder` (`OrderIsKept`), holds relative to `Inductive` and adds

* `Searching`: the stack is the one a search for the key of the call has, so
  that the key is above every child to the left of the path;
* `Replacing`: the entries handed upwards are in order and go beyond the child
  they replace at most as far as that key (`GoesNoFurther`): so they fit between
  the neighbours, as the key is above all keys to the left of the path and below
  all keys to the right.

`NodeProofs` has the lemmas about single nodes: inserting a key, splitting,
and each of borrowing from the left, from the right and merging
(`HandleUnderflowInOrder`) give entries in order over a range that
`GoesNoFurther`; one lemma says that slots of one node stay in order when one of
them is replaced by such entries.

*The size of nodes.*  `ProllyTreeProofs` proves, last, `SizeIsKept` and from it
`StoreStaysSized`: as long as a tree is loaded only with the configuration it was
built with, no stored node exceeds the target and none below another is under
the minimum.  The invariant `KeepingSize` holds relative to `Inductive` and
`KeepingOrder`.  It adds `Rooted` (the stack begins at the root, so that its top
node is known to have two children, `Branches`) and `Resizing`: what an insert
hands upwards holds the minimum, because each half of a node over
`target_fanout >= 2 * min_fanout` does; what a delete hands upwards lacks at most
one slot, so that borrowing one slot is enough and a merge of it with a sibling
at the minimum fits into the target.  With a minimum of one, a child vanishes
before it is too small.  `SiblingAlwaysThere`: the error "Underflow node has no
sibling to merge with" is then out of reach.  The hypothesis that there is one
configuration is needed: `reload_whole` is the counterexample without it.

*A tree is a map with versions.*  `MapProofs` proves the refinement of
`VersionedMap` for stores, trees and nodes of any size and in the middle of every
call.  `MapOf` reads a version's map off the leaves, level by level: what is
stored below a node (`StoredIn`) is a recursive function on the naturals that
descends as far as the node's own level says.  That such a function exists is
proved first (`BelowExists`); all inductions over the height of a tree are then
inductions over a level, carried out by taking the least level at which a
statement fails.  `NodeProofs` gives what follows for single nodes: the entries
below a slot have keys in the slot's range, no two the same; a key is below the
child that a search chooses or below none; inserting, removing, splitting,
borrowing and merging change what is stored by the one entry they are about, or
not at all.  `MapIsKept` then is the invariant `KeepingMap`:

* `Finding`: the entries for the key of the call below the node to visit are
  those below the root;
* `Remaking`: what is handed upwards stores what the node it replaces stored,
  but for the key of the call.

`TreeIsLossyMap` is the refinement of `LossySpec` for any configurations,
fitting or not: every step is a stutter, or does to the map at once what the
call says and answers accordingly, or fails and changes nothing.
`TreeIsVersionedMap` is the refinement of `VersionedSpec` under one
configuration, without any failure but the checkout of a collected version; it
needs `SiblingAlwaysThere`, and that an insert of what is there makes no new
version, for the reply is computed from roots and the promise is about maps.
That is `SameInsertKeepsNodes`, the invariant `Rewriting`: the nodes are
rewritten one by one, and as each keeps to its fanout none is split, so each is
the node it replaces.  Both refinements assume that `None` is no node
(`~IsNode(None)`): `root_hash` is an `Option` of a hash, and so no chunk's hash
is `None`.  TLC takes a model value for it, of which the predicate cannot be
evaluated, hence a hypothesis and no assumption of the module.

*Counts.*  `StoreStaysCounted`: the counter of every stored node is the number of
keys of its map, what `countAllItems` relies on.  `EntriesExact` gives one level
of it; the number of entries below is the sum over the slots because these are
disjoint (`SlotsCount`), by a bijection, and again by the least level at which it
would fail.  `TreeStaysCounted` and `TreeStaysSearchable` say of the current tree
what this and the order of keys come to.

*Chunks that are gone.*  `Inductive` is false of a tree loaded without some of its
chunks: its store is not closed.  But a chunk is named by the hash of its
contents, so the tree still is what it was, in part unreadable.  `LossyProofs`
therefore compares it with the tree that lost nothing.  The history variable
`made` (`Recording`: it only grows, by what is stored) holds every chunk that was
ever stored, and `Whole` is an instance of `TreeMap` with `made` for the store.  A step
over the store is a step of `Whole` over all chunks, or a call that gives up; only
collections and loads differ, and a mark phase over the store is contained in
one over `made`.  So all that was proved of complete trees holds of `Whole`
(`LossyInvHolds`), and carries over what does not speak of the store: that the
current tree can be searched and counted, the refinement of the lossy map, and
`TreeTellsOfRoot`, that the outcome of a call tells whether the root changed.
The last needs the map: an insert that changes nothing may, under another
fanout, split a node and so change the root; a delete that succeeds has one key
less and so another root.  The hypothesis `Recording` constrains only `made`,
which `LossySpec` does not mention: every behaviour of the tree has one.

*Cursors.*  `CursorProofs` is about one cursor, `CursorReader`, and everything
else: a step of anything else (`Meanwhile`) may change the root and the store in
any way at all.  `CursorStaysFaithful` and `CursorStaysKept` need only that the
tree's root, when a cursor is opened on it, is that of a well formed tree, of
which any chunk may have been taken (`TreeFit`).  `CursorOnTree` (`LossyProofs`)
discharges this: what was ever stored, `made`, is such a tree, so both properties hold
of a cursor on any tree of `LossySpec`, among its edits, checkouts, loads and
collections, steps of calls included.  The invariant, `CursorInv`, says:

* every node on the stack is a `Part` of the version's tree: all it stores is in
  that tree, and of that tree's entries it has all in its range of keys.  Each is
  the child of the one below it at the index it carries (`Stacked`);
* some key separates what was given from what is due, and the leaf on top is
  `Near` it: the keys from there to the leaf's end are in the leaf, none is between
  its end and there, and the position in it is that of the first one due
  (`Stands`).  A cursor stands so after a
  descent because the search for a key passes only children all of whose keys
  are too small, and after a move to the next leaf because the popped nodes were
  last children (`SameEnd`) and there is nothing between a child and the next
  (`NextSibling`);
* or the cursor has no leaf: its stack is empty and nothing is due, or a move has
  failed half way with an internal node on top, and then every later step fails;
* while the chunks of the version are there (`kept`), no step has failed.

What a collection has to keep for a cursor is one chunk: the store of a tree that
was loaded without losses has with a node all below it and the chunks of its
values (`RootHasAll`), so `RootKeepsCursor` says that a cursor neither fails to
open nor fails later as long as the root of its version is in the store
(`RootKept`, a hypothesis which is the application's to meet, by naming the
version to each collection).

That a search for `k` in a version gives the part of its map from `k` on, also if
`k` is no key, is part of it (`SeekReads`).  The descent is a function of the level
(`Way`, `WayExists`), and the inductions over it are again by the least level.

*Scans.*  `ReadsProofs` is about single requests and everything else: in
`ReadsSpec` any other step may change the tree and the store in any way, as long
as it makes `request` another one.  Run **reads** is an instance, with reads of
other kinds for the other steps.  `ScansStaySound`, `PagesKeepJoining` and
`OffsetsKeepCounting` need that the root is that of a well formed tree of which
any chunk may be gone (`TreeFit`), and `ScansOnTree` (`LossyProofs`) discharges
that as for cursors, with `made`.

The notion that carries the proof is what a cursor has `Ahead` in a tree, in
either direction: the entries from its position to the end of its leaf, and
those beyond the leaf (`PastLeaf`).  `WalkProofs` shows that a step gives the
nearest of them and leaves the others ahead, or ends because there is none in
range, or meets a chunk that is gone (`Steps`, `NextSteps`); a move to the next
leaf loses none (`MoveOn`); and whatever is not ahead lies before all that is
(`Closed`), which is why a page can have no gap.  A scan is then four parts:

* where it begins (`BeginsSomewhere`): forwards, with exactly what is not before
  `start_bound` ahead (`FromStart`); backwards too, if it finds its start
  (`StartFound`): the bound is a key or beyond the last one.  If not, the code may
  begin above the bound, and a page is then right but may be empty too early;
* skipping (`SkippingKeeps`): less is ahead, and a cursor is left where it is or
  on an entry, so that an excluded `start_bound` is still noticed (`Clear`,
  `ExcludedIs`); a turn of the loop takes what is left of a leaf (`Available`) off
  the offset and off what is ahead (`SkipCounts`), so that all turns together pass
  as many entries as the offset says, or the tree has no more (`SkippingCounts`);
* fetching (`FetchGathers`): what was given is what is no longer ahead, in order;
  and the end of a scan is the end of the range (`RangeIs`), also where backwards
  both bounds can end it, but for a scan that began above its bound and then has
  given nothing (`FetchRuns`);
* the page: from `Run`, which speaks of keys only, `PageFaithful` and `PageJoins`
  give the first two properties for either twin, whatever the limit, and
  `PageCounts` the third: what lies behind a page is what the offset has passed,
  an excluded `start_bound` counted with it.

The loops that skip and fetch are recursive functions on the naturals
(`Skipping`, `Fetching`), shown to exist (`SkippingExists`, `FetchingExists`), with
inductions by the least turn that goes wrong.

*Pages.*  `PagesStayFit` is about an application that pages forwards through any
range, `Paging`, and everything else: between two pages (`BetweenPages`) root and
store may become any others, as long as the root is that of a well formed tree,
of which any chunk may be gone (`TreeFit`); `PagesOnTree` discharges that once
more.  A page that fails leaves the application where it was.  The invariant,
`PagingInv`, says that what was given is in order (`Rising`), was there at some
time and is in the range asked for; that every key the next call asks for is
in that range too and above all that was given (`LeftOf`); and that whatever was
there all the time was given or is among what the next call asks for
(`Accounted`).  A page keeps it because it is faithful, joins and begins where its
arguments say (`PageRises`, `PageEnds`, `PageLeaves`): it does not matter whether
the key it begins at is still there.  Backwards this fails, as `StartFound` may
(see `reverse_gap`): an application that pages backwards is not what `Paging`
describes.

*Listeners.*  `ListeningProofs` is about any facade, whatever its calls do to the
tree as long as their outcome tells whether the root changed, `OutcomesTell`.
That is a hypothesis of the theorems, and a real one: `TreeTellsOfRoot` proves it
of each single call, run **events** checks it of batches as well, and run
**batch_fails** shows a batch that violates it and a listener that then does not
know the root.  The inductive invariant, `ListeningInv`, says that at most one
emission is under way, which is when the mutex is taken, and then: who is still
to be told are the last registrations of the list, who has been told knows the
new root, who has not and is registered once more knows the old one.

*Files.*  `ReadsProofs` is also about saving any store, with its chunks and
their index in any two orders, and loading what became of the file.  The layout
has to be known first: the offsets are sums of lengths of what was written
before, and for `n` chunks the index begins at `IndexAt(n)`, the metadata at
`MetadataAt(n)` and the EOF block at `EofAt(n)`; `SavedCells` says what each
cell holds and `ReadSaved` what `Read` makes of it.  `SavedIsLoaded` follows:
root, configuration and every chunk come back, and a store that lacks the root
is told of. `AlteredIsNoticed` takes one field that was overwritten with
anything.  Before the EOF block, the checksum of the whole file differs
(`Checksummed`), unless the field was the offset of that block: then no other
cell can be taken for it (`NoOtherEof`), because the only tags elsewhere are
those of two other sections. Within the EOF block a field is compared or, as
with the repeated offsets, never used.  `CutIsRejected` is about a file without
its end, and `FilesKeepTrees` puts them together for any behaviour in which
trees are saved and loaded between other requests (`ReadsSpec`).  A checksum is
modelled by the cells it was computed from, so CRC32 and Blake3 are taken to
tell any two contents apart; Blake3 is what the result rests on, as
`DamageDetected` fails without it (see its mutant).

*Assumptions*, all named and evaluated by TLC: keys are integers, none of them
`None`; FastCDC gives
chunks that determine the value; a configuration is what the constructors
accept; an error is told apart from a value.  The theorems above state two more
hypotheses of their own, where they need them.

*Only model-checked*: liveness and fairness (`CallsReturn`, `CallsSettle`), which
the prover cannot do; the agreement of the synchronous twins and `ImplementsMap`,
which compare the tree with definitions that recurse over whole trees (the
counterpart of the second, with versions, is proved); `IntactStaysReadable`,
which asks which keys can be read with the chunks at hand; that a collection
which is told of a version keeps it for a cursor (`NamedIsKept`; of versions in
general it is part of `TreeIsVersionedMap`, and that it is enough for a cursor is
`RootKeepsCursor`); what a page is as a sequence (`ScanExact`; the three properties above
say nearly as much of it with sets, and are proved); and everything about
hierarchy scans and diffs.  The modules with recursive definitions
(`TreeOps`, `TreeEffects`, `Readers`, `Hierarchy`, `Diff`) and the MC modules hold
no theorem.

## 5. What is not modelled

* The standalone event emitter of `events.ts`, which nothing imports: the facade
  has a listener list of its own.
* `error.rs`, `wasm_bridge.rs` and the TypeScript types: error values and
  conversions, without state.  Arguments of the wrong JavaScript type or length
  are refused before the tree is called.
* `Cursor::next`, which nothing calls (`PTreeCursor` steps with
  `next_in_scan`), and `advance_to_prev_leaf`, marked as dead code.
* The level of a node is a natural number, not a `u8`, and item counters are
  not bounded by `u64`: 255 levels need more keys than a store can hold.
* That `countAllItems` fails if the root itself is not in the store:
  `CountAllItems` is what it answers otherwise.
* Data chunks are taken not to decode as nodes.  `IsNode` is where that enters.
* Errors of the store other than a missing chunk: the in-memory store has none
  but a taken `RwLock`, which a single thread cannot meet.
* The size of a value, which a hierarchy scan shows (whether it is known is
  modelled); the number that a collection reports; the getters.
* Bytes within a field of a file, the creation date and the total size in the
  metadata.
* In `PTree`: deletes that rebalance (`min_fanout` is 1 there), and reads, which
  take the mutex and tell nobody.

## 6. Plan

The parts of the inventory are modelled and run; the tree's safety properties
are proved, also for trees with chunks missing, and so are what a cursor gives,
what the pages of a scan hold, one by one and together, what listeners know and
what a file keeps.  What could follow, should the store ever wait for anything,
is a refinement of `Readers` by a facade in which a collection and a cursor step
are each a poll of their own; and definitions of hierarchy scans and diffs
without recursion over whole trees, to prove about them too.
