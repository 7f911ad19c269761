-------------------------------- MODULE Node --------------------------------
(***************************************************************************)
(* The nodes of a prolly tree and what the tree's operations do to one     *)
(* node or to the children of one node: node/definition.rs, tree/io.rs,    *)
(* tree/modification.rs and the node-local parts of tree/core_logic.rs.    *)
(*                                                                         *)
(* A chunk stands for its own hash.  The store maps the Blake3 hash of a   *)
(* chunk to its bytes and never holds two contents under one hash, so a    *)
(* field of the code that holds a hash holds the chunk itself here, and    *)
(* whether that hash can be resolved is whether the chunk is in the store. *)
(*                                                                         *)
(* Keys are byte strings under their lexicographic order; all the code     *)
(* uses of that order is that it is total, so keys are integers here.      *)
(*                                                                         *)
(* No operator is RECURSIVE: the module is one that theorems are about.    *)
(***************************************************************************)
EXTENDS Integers, FiniteSets, SequencesExt

CONSTANTS
  Keys,      \* the keys an application may use
  Values,    \* the values an application may store
  Bytes,     \* the contents of data chunks
  Cdc,       \* Cdc[v]: the data chunks value v is cut into, <<>> if it is inlined
  Configs,   \* the fanout configurations, [target_fanout, min_fanout]
  None       \* the root hash of an empty tree, and a read that finds nothing

ASSUME KeysAssumption == Keys \subseteq Int

ASSUME NoneAssumption == None \notin Keys

\* FastCDC is deterministic, and its chunks concatenate to the value.
ASSUME CdcAssumption ==
  /\ Cdc \in [Values -> Seq(Bytes)]
  /\ \A v, w \in Values : Cdc[v] = Cdc[w] /\ Cdc[v] # <<>> => v = w

\* What PTree.new, PTree.load and ProllyTree::new demand of a configuration.
ASSUME ConfigsAssumption ==
  \A c \in Configs : /\ c.min_fanout \in Nat \ {0}
                     /\ c.target_fanout \in Nat
                     /\ c.target_fanout >= 2 * c.min_fanout
-----------------------------------------------------------------------------
(***************************************************************************)
(* Chunks: raw data, leaves and internal nodes.                            *)
(***************************************************************************)
Data(bytes) == [kind |-> "Data", bytes |-> bytes]

Leaf(entries) == [kind |-> "Leaf", entries |-> entries]

Internal(level, children) ==
  [kind |-> "Internal", level |-> level, children |-> children]

\* ValueRepr: the value itself, or the hashes of its data chunks in order
\* (Chunked is the case of one hash, ChunkedSequence that of several).
Inline(v) == [repr |-> "Inline", value |-> v]

Chunked(chunk_hashes) == [repr |-> "Chunked", chunk_hashes |-> chunk_hashes]

\* Values as they are stored, and the data chunks that have to be stored first.
ValueRepr(v) ==
  IF Cdc[v] = <<>> THEN Inline(v)
  ELSE Chunked([i \in DOMAIN Cdc[v] |-> Data(Cdc[v][i])])

ValueChunks(v) == {Data(b) : b \in ToSet(Cdc[v])}

\* What reading a ValueRepr returns once its chunks are loaded.
ValueOf(repr) ==
  IF repr.repr = "Inline" THEN repr.value
  ELSE CHOOSE v \in Values : Cdc[v] = [i \in DOMAIN repr.chunk_hashes |->
                                         repr.chunk_hashes[i].bytes]

DataChunks == {Data(b) : b \in Bytes}

\* Node::decode succeeds on these: a data chunk is taken not to decode.
IsNode(chunk) == chunk.kind \in {"Leaf", "Internal"}

NodesIn(S) == {chunk \in S : IsNode(chunk)}

\* The data chunks a stored value refers to.
ReprChunks(repr) == IF repr.repr = "Chunked" THEN ToSet(repr.chunk_hashes) ELSE {}

LeafEntries(S) ==
  {e \in [key : Keys, value : {ValueRepr(v) : v \in Values}] : ReprChunks(e.value) \subseteq S}

InternalEntries(S) ==
  [boundary_key : Keys, child_hash : NodesIn(S), num_items_subtree : Nat]

(***************************************************************************)
(* The chunks whose references all lie in S.  Every stored chunk is one of *)
(* ChunksOver(store) exactly when the store is closed under references.    *)
(***************************************************************************)
LeavesOver(S) == [kind : {"Leaf"}, entries : Seq(LeafEntries(S)) \ {<<>>}]

InternalsOver(S) ==
  [kind : {"Internal"}, level : Nat \ {0}, children : Seq(InternalEntries(S)) \ {<<>>}]

ChunksOver(S) == DataChunks \cup LeavesOver(S) \cup InternalsOver(S)

\* The chunks a chunk refers to, as the mark phase of the collector finds them.
References(chunk) ==
  CASE chunk.kind = "Data" -> {}
    [] chunk.kind = "Leaf" -> UNION {ReprChunks(e.value) : e \in ToSet(chunk.entries)}
    [] chunk.kind = "Internal" -> {c.child_hash : c \in ToSet(chunk.children)}
-----------------------------------------------------------------------------
(***************************************************************************)
(* Reading and rebuilding a node.                                          *)
(***************************************************************************)
Slots(n) == IF n.kind = "Leaf" THEN n.entries ELSE n.children

WithSlots(n, slots) ==
  IF n.kind = "Leaf" THEN Leaf(slots) ELSE Internal(n.level, slots)

Level(n) == IF n.kind = "Leaf" THEN 0 ELSE n.level

\* Every child of an internal node is one level below it.
ChildrenOneLevelDown(n) ==
  n.kind = "Internal" =>
    \A i \in DOMAIN n.children : Level(n.children[i].child_hash) + 1 = n.level

NumEntries(n) == Len(Slots(n))

IsUnderflow(n, config) == NumEntries(n) < config.min_fanout

\* The largest key of the last slot.
BoundaryKey(n) ==
  IF n.kind = "Leaf" THEN Last(n.entries).key ELSE Last(n.children).boundary_key

(***************************************************************************)
(* The sum of the children's item counters, written as the size of a       *)
(* disjoint union so that it can be reasoned about without induction.      *)
(***************************************************************************)
ChildItems(children) ==
  Cardinality(UNION {{i} \X (1..children[i].num_items_subtree) : i \in DOMAIN children})

ItemCount(n) == IF n.kind = "Leaf" THEN Len(n.entries) ELSE ChildItems(n.children)

\* countAllItems asks the root only.
CountAllItems(hash) == IF hash = None THEN 0 ELSE ItemCount(hash)

\* The entry a parent keeps for a node that was just stored.
EntryFor(n) ==
  [boundary_key |-> BoundaryKey(n), child_hash |-> n, num_items_subtree |-> ItemCount(n)]

\* Every entry of an internal node repeats what the child now says of itself.
EntriesUpToDate(n) ==
  n.kind = "Internal" =>
    \A i \in DOMAIN n.children : n.children[i] = EntryFor(n.children[i].child_hash)

(***************************************************************************)
(* The keys below a node: the lowest is the first of the leaf that is      *)
(* reached by the first child on every level.                              *)
(***************************************************************************)
LeftEdge(n) ==
  LET edge[l \in Nat] == IF l = 0 THEN n ELSE edge[l - 1].children[1].child_hash
  IN  edge

LowKey(n) == LeftEdge(n)[Level(n)].entries[1].key

\* A slot is for the keys from one to the other: a leaf's entry for a single one.
LowestKey(slot) == IF "key" \in DOMAIN slot THEN slot.key ELSE LowKey(slot.child_hash)

HighestKey(slot) == IF "key" \in DOMAIN slot THEN slot.key ELSE slot.boundary_key

InOrder(slots) ==
  /\ \A i \in DOMAIN slots : LowestKey(slots[i]) <= HighestKey(slots[i])
  /\ \A i, j \in DOMAIN slots : i < j => HighestKey(slots[i]) < LowestKey(slots[j])

\* The keys of `new' are between those of `old', or no further out than k.
GoesNoFurther(new, old, k) ==
  new # <<>> =>
    /\ LowestKey(old[1]) <= LowestKey(new[1]) \/ k <= LowestKey(new[1])
    /\ HighestKey(Last(new)) <= HighestKey(Last(old)) \/ HighestKey(Last(new)) <= k

(***************************************************************************)
(* What a tree stores: the entries of the nodes that are as many levels    *)
(* below a node as its own level says.                                     *)
(***************************************************************************)
ChildrenOf(nodes) == {c.child_hash : c \in UNION {ToSet(m.children) : m \in nodes}}

Descendants(n) ==
  LET below[l \in Nat] == IF l = 0 THEN {n} ELSE ChildrenOf(below[l - 1])
  IN  below

StoredIn(n) == UNION {ToSet(leaf.entries) : leaf \in Descendants(n)[Level(n)]}

\* A leaf's slot stands for itself, the entry of a child for all that is below it.
StoredAt(slot) == IF "key" \in DOMAIN slot THEN {slot} ELSE StoredIn(slot.child_hash)

StoredBy(slots) == UNION {StoredAt(slot) : slot \in ToSet(slots)}

\* The mapping under a root hash.
MapOf(hash) ==
  IF hash = None THEN [k \in {} |-> None]
  ELSE LET stored == StoredIn(hash)
       IN  [k \in {e.key : e \in stored} |->
              ValueOf((CHOOSE e \in stored : e.key = k).value)]
\* The nodes of a tree, whether they can be loaded or not.
NodesUnder(n) == UNION {Descendants(n)[l] : l \in 0..Level(n)}

\* A search by boundaries finds the leaf of a key: keys and boundaries are in
\* order, boundaries and counters those of the children, leaves at one depth.
Searchable(n) ==
  \A m \in NodesUnder(n) :
    InOrder(Slots(m)) /\ EntriesUpToDate(m) /\ ChildrenOneLevelDown(m)
-----------------------------------------------------------------------------
(***************************************************************************)
(* Searching.  Keys grow along a node, so a binary search for k ends just  *)
(* before the first slot that is not below k.                              *)
(***************************************************************************)
KeyPosition(entries, k) == Cardinality({i \in DOMAIN entries : entries[i].key < k}) + 1

HasKey(entries, k) == \E i \in DOMAIN entries : entries[i].key = k

BoundaryPosition(children, k) ==
  Cardinality({i \in DOMAIN children : children[i].boundary_key < k}) + 1

\* (Faulty: a key that is a child's boundary is looked for one child further on.)
ChildIndexPast(children, k) ==
  LET covering == {i \in DOMAIN children : k < children[i].boundary_key}
  IN  IF covering = {} THEN Len(children) ELSE Min(covering)

\* The child to descend into: the first whose boundary is not below k, else the last.
ChildIndex(children, k) ==
  LET covering == {i \in DOMAIN children : k <= children[i].boundary_key}
  IN  IF covering = {} THEN Len(children) ELSE Min(covering)

(***************************************************************************)
(* Changing one node.                                                      *)
(***************************************************************************)
\* (Faulty: a new key is put at the end.)
UpsertAtEnd(entries, k, repr) ==
  IF HasKey(entries, k)
  THEN [entries EXCEPT ![KeyPosition(entries, k)].value = repr]
  ELSE Append(entries, [key |-> k, value |-> repr])

\* (Faulty: a key that is there is put in a second time.)
UpsertTwice(entries, k, repr) ==
  InsertAt(entries, KeyPosition(entries, k), [key |-> k, value |-> repr])

Upsert(entries, k, repr) ==
  IF HasKey(entries, k)
  THEN [entries EXCEPT ![KeyPosition(entries, k)].value = repr]
  ELSE InsertAt(entries, KeyPosition(entries, k), [key |-> k, value |-> repr])

RemoveKey(entries, k) == RemoveAt(entries, KeyPosition(entries, k))

\* (Faulty: a node may grow one slot too large.)
SplitLate(n, config) ==
  LET slots == Slots(n)
      mid   == Len(slots) \div 2
  IN  IF Len(slots) > config.target_fanout + 1
      THEN << WithSlots(n, SubSeq(slots, 1, mid)),
              WithSlots(n, SubSeq(slots, mid + 1, Len(slots))) >>
      ELSE << n >>

\* (Faulty: the right half begins one slot too far on.)
SplitSkips(n, config) ==
  LET slots == Slots(n)
      mid   == Len(slots) \div 2
  IN  IF Len(slots) > config.target_fanout
      THEN << WithSlots(n, SubSeq(slots, 1, mid)),
              WithSlots(n, SubSeq(slots, mid + 2, Len(slots))) >>
      ELSE << n >>

\* A node over the target fanout becomes two; the left one keeps the first half.
Split(n, config) ==
  LET slots == Slots(n)
      mid   == Len(slots) \div 2
  IN  IF Len(slots) > config.target_fanout
      THEN << WithSlots(n, SubSeq(slots, 1, mid)),
              WithSlots(n, SubSeq(slots, mid + 1, Len(slots))) >>
      ELSE << n >>

\* (Faulty: only the hash of a rewritten child is taken over.)
AfterInsertStale(children, i, update) ==
  LET rewritten == [children EXCEPT ![i].child_hash = update[1].child_hash]
  IN  IF Len(update) = 1 THEN rewritten
      ELSE InsertAt(rewritten, BoundaryPosition(rewritten, update[2].boundary_key), update[2])

(***************************************************************************)
(* The children of a node after an insert below child i returned `update': *)
(* the entry of the rewritten child, and that of its new right sibling if  *)
(* it was split.                                                           *)
(***************************************************************************)
AfterInsert(children, i, update) ==
  LET rewritten == [children EXCEPT ![i] = update[1]]
  IN  IF Len(update) = 1 THEN rewritten
      ELSE InsertAt(rewritten, BoundaryPosition(rewritten, update[2].boundary_key), update[2])
-----------------------------------------------------------------------------
(***************************************************************************)
(* Repairing child i of a children list when it holds too few slots:       *)
(* borrow from the left sibling, else from the right one, else merge.      *)
(***************************************************************************)
\* (Faulty: a sibling that is at the minimum lends.)
CanLendLast(children, i, config) ==
  /\ i \in DOMAIN children
  /\ NumEntries(children[i].child_hash) >= config.min_fanout

CanLend(children, i, config) ==
  /\ i \in DOMAIN children
  /\ NumEntries(children[i].child_hash) > config.min_fanout

\* (Faulty: the left sibling's boundary is still the key it lent.)
BorrowKeepsBoundary(children, i) ==
  LET left  == children[i - 1].child_hash
      under == children[i].child_hash
  IN  [children EXCEPT
         ![i - 1] = [EntryFor(WithSlots(left, Front(Slots(left)))) EXCEPT
                       !.boundary_key = children[i - 1].boundary_key],
         ![i]     = EntryFor(WithSlots(under, <<Last(Slots(left))>> \o Slots(under)))]

BorrowFromLeft(children, i) ==
  LET left  == children[i - 1].child_hash
      under == children[i].child_hash
  IN  [children EXCEPT
         ![i - 1] = EntryFor(WithSlots(left, Front(Slots(left)))),
         ![i]     = EntryFor(WithSlots(under, <<Last(Slots(left))>> \o Slots(under)))]

BorrowFromRight(children, i) ==
  LET under == children[i].child_hash
      right == children[i + 1].child_hash
  IN  [children EXCEPT
         ![i]     = EntryFor(WithSlots(under, Append(Slots(under), Head(Slots(right))))),
         ![i + 1] = EntryFor(WithSlots(right, Tail(Slots(right))))]

\* (Faulty: the counter of the merged node is that of its left half.)
MergeCountsLeft(children, i) ==
  LET left   == children[i].child_hash
      merged == WithSlots(left, Slots(left) \o Slots(children[i + 1].child_hash))
      entry  == [EntryFor(merged) EXCEPT !.num_items_subtree = children[i].num_items_subtree]
  IN  RemoveAt([children EXCEPT ![i] = entry], i + 1)

\* (Faulty: the right half is dropped.)
MergeForgetsRight(children, i) == RemoveAt(children, i + 1)

\* Child i + 1 is appended to child i; the counter is the sum of the two old ones.
MergeWithNext(children, i) ==
  LET left   == children[i].child_hash
      merged == WithSlots(left, Slots(left) \o Slots(children[i + 1].child_hash))
      entry  == [EntryFor(merged) EXCEPT
                   !.num_items_subtree = children[i].num_items_subtree
                                           + children[i + 1].num_items_subtree]
  IN  RemoveAt([children EXCEPT ![i] = entry], i + 1)

HasSibling(children) == Len(children) > 1

HandleUnderflow(children, i, config) ==
  CASE CanLend(children, i - 1, config) -> BorrowFromLeft(children, i)
    [] ~CanLend(children, i - 1, config) /\ CanLend(children, i + 1, config) ->
         BorrowFromRight(children, i)
    [] OTHER -> MergeWithNext(children, IF i > 1 THEN i - 1 ELSE i)

\* The siblings HandleUnderflow has to load.
SiblingsRead(children, i, config) ==
  {children[j].child_hash :
     j \in {j \in {i - 1, i + 1} \cap DOMAIN children :
              j = i + 1 => ~CanLend(children, i - 1, config)}}
=============================================================================
