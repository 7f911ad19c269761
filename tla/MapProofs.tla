----------------------------- MODULE MapProofs -----------------------------
(***************************************************************************)
(* A tree is a map with versions: each call changes the map under the root *)
(* as it says, answers accordingly and leaves the other versions alone.    *)
(***************************************************************************)
EXTENDS TreeMap, ProllyTreeProofs

(***************************************************************************)
(* What the nodes of the store, and those on the stack, store.             *)
(***************************************************************************)
\* The children of a stored node keep their entries in their ranges.
LEMMA ChildrenKeep ==
  ASSUME Inductive, KeepingOrder, NEW l
  PROVE  Ranged(EntriesBelow(store, l)) /\ AllKeep(store, EntriesBelow(store, l))
<1>1. Sound(store) /\ Ordered(store)
  BY OrderedStore
<1>. QED
  BY <1>1, SlotsRanged, EntryKeeps DEF AllKeep

\* What a stored node has for a key is what the child the key belongs to has.
LEMMA ChildHas ==
  ASSUME Inductive, KeepingOrder, NEW n \in BalancedOver(store), n.kind = "Internal",
         InOrder(n.children), NEW k \in Int, NEW i \in DOMAIN n.children, Meant(n.children, i, k)
  PROVE  With(n, k) = With(n.children[i].child_hash, k)
<1>. DEFINE E == EntriesBelow(store, n.level)
            s == n.children
<1>1. s \in Seq(E) /\ Slots(n) = s
  BY NodeKinds DEF Slots
<1>2. Ranged(E) /\ AllKeep(store, E)
  BY ChildrenKeep
<1>3. StoredIn(n) = StoredBy(s)
  BY <1>1, InductiveSound, StoredInSlots
<1>4. StoredAt(s[i]) = StoredIn(s[i].child_hash)
  <2>1. s[i] \in E
    BY <1>1, ElementsOfSeq
  <2>2. s[i] = EntryFor(s[i].child_hash)
    BY <2>1 DEF EntriesBelow
  <2>. QED
    BY <2>2, StoredAtEntry
<1>. HIDE DEF E, s
<1>5. {x \in StoredBy(s) : x.key = k} = {x \in StoredAt(s[i]) : x.key = k}
  BY <1>1, <1>2, MeantHas DEF s
<1>. QED
  BY <1>3, <1>4, <1>5 DEF With, s

\* Of the children of the node on top of the stack, the one that was left is
\* the one that stores the key, if any does; new entries in its place do to
\* what the node stores what they do to what the child stores.
LEMMA TopStores ==
  ASSUME Inductive, KeepingOrder, pc = "ascend", path # <<>>,
         NEW X, NEW new,
         StoredAll(X) = Others(StoredIn(Left(Last(path)).child_hash), call.key) \cup new
  PROVE  LET old == Last(path).node
         IN  StoredAll((ToSet(old.children) \ {Left(Last(path))}) \cup X)
               = Others(StoredIn(old), call.key) \cup new
<1>. DEFINE old == Last(path).node
            idx == Last(path).idx
            E   == EntriesBelow(store, old.level)
            s   == old.children
<1>1. /\ old \in BalancedOver(store) /\ Slots(old) = s /\ s \in Seq(E) \ {<<>>}
      /\ InOrder(s) /\ idx \in DOMAIN s /\ Meant(s, idx, call.key) /\ Left(Last(path)) = s[idx]
  BY TopInOrder
<1>2. Sound(store) /\ call.key \in Int
  BY InductiveSound, CallKey
<1>3. Ranged(E) /\ AllKeep(store, E)
  BY ChildrenKeep
<1>4. StoredIn(old) = StoredBy(s)
  BY <1>1, <1>2, StoredInSlots
<1>5. StoredAt(s[idx]) = StoredIn(s[idx].child_hash)
  <2>1. s[idx] \in E
    BY <1>1, ElementsOfSeq
  <2>2. s[idx] = EntryFor(s[idx].child_hash)
    BY <2>1 DEF EntriesBelow
  <2>. QED
    BY <2>2, StoredAtEntry
<1>. HIDE DEF old, idx, E, s
<1>6. StoredAll(X) = Others(StoredAt(s[idx]), call.key) \cup new
  BY <1>1, <1>5
<1>7. s \in Seq(E)
  BY <1>1
<1>8. StoredAll((ToSet(s) \ {s[idx]}) \cup X) = Others(StoredBy(s), call.key) \cup new
  BY <1>1, <1>2, <1>3, <1>6, <1>7, PlaceStores
<1>. QED
  BY <1>1, <1>4, <1>8 DEF old, s

\* What the node has for the key is what that child has.
LEMMA TopHas ==
  ASSUME Inductive, KeepingOrder, pc = "ascend", path # <<>>
  PROVE  With(Last(path).node, call.key) = With(Left(Last(path)).child_hash, call.key)
<1>. DEFINE old == Last(path).node
            idx == Last(path).idx
            k   == call.key
<1>1. /\ old \in BalancedOver(store) /\ old.kind = "Internal" /\ InOrder(old.children)
      /\ idx \in DOMAIN old.children /\ Meant(old.children, idx, k)
      /\ Left(Last(path)) = old.children[idx]
  BY TopInOrder
<1>2. k \in Int
  BY CallKey
<1>. HIDE DEF idx, old, k
<1>3. With(old, k) = With(old.children[idx].child_hash, k)
  BY <1>1, <1>2, ChildHas
<1>. QED
  BY <1>1, <1>3 DEF old, k
\* What the call puts in the place of what there was for its key.
Added == IF call.op = "insert" THEN {Entry} ELSE {}

\* The node a step replaces is the one it hands entries up for.
LEMMA ReplacedIs ==
  ASSUME Inductive, KeepingOrder, Rooted, NEW old, Replaces(old), root' = root
  PROVE  Replaced' = old
<1>. DEFINE F == [node : NodesIn(store), idx : Nat]
<1>1. path \in Seq(F) /\ Len(path) \in Nat /\ DOMAIN path = 1..Len(path)
  BY InductiveSound, ElementsOfSeq DEF PathOver
<1>. HIDE DEF F
<1>2. CASE pc = "descend" /\ path' = path /\ old = at
  <2>1. CASE path = <<>>
    BY <1>2, <2>1 DEF Replaced, Rooted
  <2>2. CASE path # <<>>
    <3>1. at = Left(Last(path)).child_hash
      BY <1>2, <2>2 DEF KeepingOrder, Searching
    <3>2. Left(Last(path')) = Left(Last(path))
      BY <1>2
    <3>3. Replaced' = Left(Last(path)).child_hash
      BY <1>2, <2>2, <3>2 DEF Replaced, Left
    <3>. QED
      BY <1>2, <3>1, <3>3
  <2>. QED
    BY <2>1, <2>2
<1>3. CASE pc = "ascend" /\ path # <<>> /\ path' = Front(path) /\ old = Last(path).node
  <2>1. /\ Front(path) \in Seq(F) /\ Len(Front(path)) = Len(path) - 1
        /\ \A i \in 1..(Len(path) - 1) : Front(path)[i] = path[i]
        /\ Len(path) > 0
    BY <1>1, <1>3, FrontSeq, ElementsOfSeq
  <2>2. CASE Front(path) = <<>>
    <3>1. Len(path) \in Nat /\ Len(Front(path)) = Len(path) - 1
      BY <1>1, <2>1
    <3>2. Len(path) = 1
      BY <2>2, <3>1
    <3>3. Last(path) = path[1]
      BY <3>2 DEF Last
    <3>4. path[1].node = root
      BY <1>3 DEF Rooted
    <3>. QED
      BY <1>3, <2>2, <3>3, <3>4 DEF Replaced
  <2>3. CASE Front(path) # <<>>
    <3>. DEFINE m == Len(path)
    <3>1. Len(Front(path)) > 0
      BY <2>1, <2>3, ElementsOfSeq
    <3>2. m \in 2..Len(path) /\ m - 1 \in 1..(m - 1)
      BY <1>1, <2>1, <3>1
    <3>3. path[m].node = Left(path[m - 1]).child_hash
      BY <1>3, <3>2 DEF KeepingOrder, Searching
    <3>4. Last(Front(path)) = path[m - 1]
      BY <2>1, <3>2 DEF Last
    <3>5. Last(path) = path[m]
      BY DEF Last
    <3>6. Left(Last(path')) = Left(Last(Front(path)))
      BY <1>3
    <3>7. Replaced' = Left(Last(Front(path))).child_hash
      BY <1>3, <2>3, <3>6 DEF Replaced, Left
    <3>. QED
      BY <1>3, <3>3, <3>4, <3>5, <3>7
  <2>. QED
    BY <2>2, <2>3, Zenon
<1>. QED
  BY <1>2, <1>3 DEF Replaces

\* A step that hands up entries: they store what the node they replace did,
\* but for the key.
LEMMA HandUpKeepsMap ==
  ASSUME Inductive, KeepingOrder, KeepingMap, NEW old, Replaces(old), pc' = "ascend",
         call' = call, root' = root,
         StoredBy(update') = Others(StoredIn(old), call.key) \cup Added,
         call.op = "delete" => With(old, call.key) # {}
  PROVE  KeepingMap'
<1>1. Rooted'
  BY RootedUp DEF KeepingMap
<1>2. Finding'
  BY DEF Finding
<1>3. Replaced' = old
  BY ReplacedIs DEF KeepingMap
<1>4. Entry' = Entry
  BY DEF Entry
<1>5. Remaking'
  BY <1>3, <1>4 DEF Remaking, Others, Added
<1>. QED
  BY <1>1, <1>2, <1>5 DEF KeepingMap
-----------------------------------------------------------------------------
(***************************************************************************)
(* Going down.                                                             *)
(***************************************************************************)
\* A call that ends or does not concern keys has nothing on the stack.
LEMMA QuietKeepsMap ==
  ASSUME KeepingMap, pc' \in {"idle", "mark"},
         path' = <<>> \/ UNCHANGED <<path, root>>
  PROVE  KeepingMap'
<1>1. Rooted'
  BY DEF KeepingMap, Rooted
<1>2. Finding' /\ Remaking'
  BY DEF Finding, Remaking
<1>. QED
  BY <1>1, <1>2 DEF KeepingMap

\* A descent begins at the root.
LEMMA StartKeepsMap ==
  ASSUME Inductive, pc = "idle", root # None, NEW request, StartDescent(request)
  PROVE  KeepingMap'
<1>1. path' = <<>> /\ pc' = "descend" /\ at' = root /\ root' = root
  BY DEF Inductive, TypeOK, StartDescent, treeVars
<1>2. Rooted'
  BY <1>1 DEF Rooted
<1>3. Finding' /\ Remaking'
  BY <1>1 DEF Finding, Remaking
<1>. QED
  BY <1>2, <1>3 DEF KeepingMap

\* The node a descent is at, and the child it goes on to.
LEMMA DescentKeepsMap ==
  ASSUME Inductive, KeepingOrder, KeepingMap, Descend
  PROVE  KeepingMap'
<1>. DEFINE i == ChildIndex(at.children, call.key)
            frame == [node |-> at, idx |-> i]
            F == [node : NodesIn(store), idx : Nat]
            k == call.key
<1>1. /\ pc = "descend" /\ pc' = pc /\ root' = root /\ call' = call /\ at.kind = "Internal"
      /\ path' = Append(path, frame) /\ at' = at.children[i].child_hash
  BY DEF Descend, treeVars
<1>2. path \in Seq(F) /\ frame.node = at
  BY InductiveSound DEF PathOver
<1>3. /\ at \in BalancedOver(store) /\ at \in NodesIn(store)
      /\ at.children \in Seq(EntriesBelow(store, at.level)) \ {<<>>}
      /\ Slots(at) = at.children
  BY <1>1, AtNode, NodeKinds DEF Slots
<1>4. InOrder(at.children) /\ k \in Int
  BY <1>1, <1>3, OrderedStore, CallKey DEF Ordered
<1>5. i \in DOMAIN at.children /\ Meant(at.children, i, k)
  <2>1. EntriesBelow(store, at.level) \subseteq InternalEntries(store)
    BY DEF EntriesBelow
  <2>2. at.children \in Seq(InternalEntries(store)) \ {<<>>}
    BY <1>3, <2>1, SeqMonotonic
  <2>. QED
    BY <1>4, <2>2, ChildIndexMeant, ChildIndexRange
<1>. HIDE DEF i, frame, F, k
<1>6. With(at, k) = With(at.children[i].child_hash, k)
  BY <1>1, <1>3, <1>4, <1>5, ChildHas
<1>7. path' # <<>> /\ path'[1] = IF path = <<>> THEN frame ELSE path[1]
  BY <1>1, <1>2, ElementsOfSeq
<1>8. Rooted'
  BY <1>1, <1>2, <1>7 DEF KeepingMap, Rooted
<1>9. Finding'
  <2>1. With(at, k) = With(root, k)
    BY <1>1 DEF KeepingMap, Finding, k
  <2>2. With(at', k) = With(at.children[i].child_hash, k)
    BY <1>1
  <2>3. call'.key = k
    BY <1>1 DEF k
  <2>4. With(at', call'.key) = With(root', call'.key)
    BY <1>1, <1>6, <2>1, <2>2, <2>3
  <2>. QED
    BY <2>4 DEF Finding
<1>10. Remaking'
  BY <1>1 DEF Remaking
<1>. QED
  BY <1>8, <1>9, <1>10 DEF KeepingMap
-----------------------------------------------------------------------------
(***************************************************************************)
(* Going up.                                                               *)
(***************************************************************************)
\* The leaf the key is set in.
LEMMA LeafSets ==
  ASSUME Inductive, KeepingOrder, InsertAtLeaf
  PROVE  LET entries == Upsert(at.entries, call.key, ValueRepr(call.value))
         IN  /\ at \in BalancedOver(store) /\ at = Leaf(at.entries)
             /\ Leaf(entries) \in BalancedOver(store) /\ Slots(Leaf(entries)) = entries
             /\ StoredBy(entries) = Others(StoredIn(at), call.key) \cup {Entry}
             /\ Entry \in StoredIn(at) => entries = at.entries
<1>. DEFINE entries == Upsert(at.entries, call.key, ValueRepr(call.value))
            L == LeafEntries(store)
<1>1. pc = "descend" /\ call.op = "insert" /\ at.kind = "Leaf"
  BY DEF InsertAtLeaf, AtLeaf
<1>2. /\ at \in BalancedOver(store) /\ at \in NodesIn(store) /\ at = Leaf(at.entries)
      /\ at.entries \in Seq(L) /\ Slots(at) = at.entries
  BY <1>1, AtNode, NodeKinds DEF Slots
<1>3. call.key \in Keys /\ call.value \in Values
  BY <1>1, AtNode DEF Requests
<1>4. Entry \in L
  BY <1>1, <1>3, ValueReprOver DEF Inductive, Descending, Entry
<1>5. InOrder(at.entries) /\ Sound(store)
  BY <1>2, OrderedStore DEF Ordered
<1>6. /\ ToSet(entries) = Others(ToSet(at.entries), call.key) \cup {Entry}
      /\ Entry \in ToSet(at.entries) => entries = at.entries
  BY <1>2, <1>3, <1>4, <1>5, UpsertStores DEF Entry
<1>7. entries \in Seq(L) \ {<<>>}
  BY <1>2, <1>3, <1>4, UpsertOver DEF Entry
<1>. HIDE DEF entries
<1>8. Leaf(entries) \in BalancedOver(store) /\ Slots(Leaf(entries)) = entries
  BY <1>7, LeafOver DEF Leaf, Slots
<1>9. ASSUME NEW s \in Seq(L)
      PROVE  StoredBy(s) = ToSet(s)
  <2>1. ToSet(s) \in SUBSET L
    BY ToSetIs
  <2>. QED
    BY <2>1, StoredByLeaf, StoredBySet
<1>10. StoredIn(at) = ToSet(at.entries)
  <2>1. StoredIn(at) = StoredBy(at.entries)
    BY <1>2, <1>5, StoredInSlots
  <2>. QED
    BY <1>2, <1>9, <2>1
<1>11. StoredBy(entries) = ToSet(entries)
  BY <1>7, <1>9
<1>. QED
  BY <1>2, <1>6, <1>8, <1>10, <1>11 DEF entries

\* The leaf, whole or in halves, has the new entry for the key.
LEMMA LeafInsertKeepsMap ==
  ASSUME Inductive, KeepingOrder, KeepingMap, InsertAtLeaf
  PROVE  KeepingMap'
<1>. DEFINE entries == Upsert(at.entries, call.key, ValueRepr(call.value))
            node == Leaf(entries)
            nodes == Split(node, config)
<1>1. /\ pc = "descend" /\ call.op = "insert" /\ StoreAndAscend(nodes)
      /\ path' = path /\ call' = call /\ root' = root
  BY DEF InsertAtLeaf, AtLeaf, treeVars
<1>2. /\ node \in BalancedOver(store) /\ Slots(node) = entries
      /\ StoredBy(entries) = Others(StoredIn(at), call.key) \cup {Entry}
  BY LeafSets
<1>3. config \in Configs /\ Sound(store)
  BY InductiveSound DEF Inductive, TypeOK
<1>. HIDE DEF entries, node
<1>4. StoredBy([i \in DOMAIN nodes |-> EntryFor(nodes[i])]) = StoredBy(Slots(node))
  BY <1>2, <1>3, SplitStores
<1>5. update' = [i \in DOMAIN nodes |-> EntryFor(nodes[i])] /\ pc' = "ascend"
  BY <1>1 DEF StoreAndAscend
<1>. HIDE DEF nodes
<1>6. StoredBy(update') = Others(StoredIn(at), call.key) \cup Added
  BY <1>1, <1>2, <1>4, <1>5 DEF Added
<1>7. Replaces(at)
  BY <1>1 DEF Replaces
<1>. QED
  BY <1>1, <1>5, <1>6, <1>7, HandUpKeepsMap

\* What is handed up to the node on top of the stack.
LEMMA HandedUp ==
  ASSUME Inductive, KeepingOrder, KeepingMap, pc = "ascend", path # <<>>
  PROVE  /\ StoredBy(update) = Others(StoredIn(Left(Last(path)).child_hash), call.key) \cup Added
         /\ call.op = "delete" => With(Left(Last(path)).child_hash, call.key) # {}
<1>1. Replaced = Left(Last(path)).child_hash
  BY DEF Replaced
<1>. QED
  BY <1>1 DEF KeepingMap, Remaking, Others, Added

\* The children an insert comes back to, with the entries it hands up.
LEMMA AfterInsertStores ==
  ASSUME Inductive, KeepingOrder, KeepingMap, pc = "ascend", call.op = "insert", path # <<>>
  PROVE  LET old      == Last(path).node
             children == AfterInsert(old.children, Last(path).idx, update)
         IN  /\ WithSlots(old, children) \in BalancedOver(store)
             /\ Slots(WithSlots(old, children)) = children
             /\ StoredBy(children) = Others(StoredIn(old), call.key) \cup Added
<1>. DEFINE old == Last(path).node
            idx == Last(path).idx
            E == EntriesBelow(store, old.level)
            children == AfterInsert(old.children, idx, update)
<1>1. /\ old \in BalancedOver(store) /\ old.kind = "Internal"
      /\ old.children \in Seq(E) /\ InOrder(old.children)
      /\ idx \in DOMAIN old.children /\ Left(Last(path)) = old.children[idx]
  BY TopInOrder
<1>2. update \in Seq(E) /\ Len(update) \in 1..2
  BY UpdateBelow DEF Inductive, TypeOK
<1>3. StoredAll(ToSet(update)) = Others(StoredIn(Left(Last(path)).child_hash), call.key) \cup Added
  BY HandedUp, StoredBySet
<1>4. StoredAll((ToSet(old.children) \ {Left(Last(path))}) \cup ToSet(update))
        = Others(StoredIn(old), call.key) \cup Added
  BY <1>3, TopStores
<1>5. Distinct(old.children)
  BY <1>1, InductiveSound, SlotsRanged, OrderDistinct
<1>. HIDE DEF old, idx
<1>6. ToSet(children) = (ToSet(old.children) \ {Left(Last(path))}) \cup ToSet(update)
  BY <1>1, <1>2, <1>5, AfterInsertIs
<1>7. children \in Seq(SlotsOver(old, store)) \ {<<>>}
  BY <1>1, <1>2, AfterInsertOver DEF SlotsOver
<1>. HIDE DEF children
<1>8. WithSlots(old, children) \in BalancedOver(store) /\ Slots(WithSlots(old, children)) = children
  BY <1>1, <1>7, WithSlotsOver
<1>9. StoredBy(children) = Others(StoredIn(old), call.key) \cup Added
  BY <1>4, <1>6, StoredBySet
<1>. QED
  BY <1>8, <1>9 DEF old, idx, children

\* One node with the slots of a node stores what they do.
LEMMA OneEntryStores ==
  ASSUME NEW S, Sound(S), NEW n \in BalancedOver(S)
  PROVE  StoredBy(<<EntryFor(n)>>) = StoredBy(Slots(n))
<1>1. ToSet(<<EntryFor(n)>>) = {EntryFor(n)}
  BY DEF ToSet
<1>2. StoredBy(<<EntryFor(n)>>) = StoredIn(n)
  BY <1>1, StoredBySet, StoredSingle, StoredAtEntry
<1>. QED
  BY <1>2, StoredInSlots

\* An insert comes back to a node, which is split if its child was.
LEMMA InsertUpKeepsMap ==
  ASSUME Inductive, KeepingOrder, KeepingMap, InsertAscend
  PROVE  KeepingMap'
<1>. DEFINE old == Last(path).node
            children == AfterInsert(old.children, Last(path).idx, update)
            node == WithSlots(old, children)
            nodes == IF Len(update) = 1 THEN <<node>> ELSE Split(node, config)
            handed == [i \in DOMAIN nodes |-> EntryFor(nodes[i])]
<1>1. /\ pc = "ascend" /\ call.op = "insert" /\ path # <<>>
      /\ StoreAndAscend(nodes) /\ path' = Front(path) /\ call' = call /\ root' = root
  BY DEF InsertAscend, Ascending, treeVars
<1>2. /\ node \in BalancedOver(store) /\ Slots(node) = children
      /\ StoredBy(children) = Others(StoredIn(old), call.key) \cup Added
  BY <1>1, AfterInsertStores
<1>3. Replaces(old)
  BY <1>1 DEF Replaces
<1>4. update' = handed /\ pc' = "ascend"
  BY <1>1 DEF StoreAndAscend
<1>5. config \in Configs /\ Sound(store)
  BY InductiveSound DEF Inductive, TypeOK
<1>. HIDE DEF old, children, node
<1>6. StoredBy(handed) = StoredBy(Slots(node))
  <2>1. CASE Len(update) = 1
    <3>1. handed = <<EntryFor(node)>>
      BY <2>1
    <3>. QED
      BY <1>2, <1>5, <3>1, OneEntryStores
  <2>2. CASE Len(update) # 1
    <3>1. handed = [i \in DOMAIN Split(node, config) |-> EntryFor(Split(node, config)[i])]
      BY <2>2
    <3>. QED
      BY <1>2, <1>5, <3>1, SplitStores
  <2>. QED
    BY <2>1, <2>2
<1>. HIDE DEF nodes, handed
<1>7. StoredBy(update') = Others(StoredIn(old), call.key) \cup Added
  BY <1>2, <1>4, <1>6
<1>. QED
  BY <1>1, <1>3, <1>4, <1>7, HandUpKeepsMap

\* What a delete hands up: a node with the slots that are left, or nothing.
LEMMA RestKeepsMap ==
  ASSUME Inductive, KeepingOrder, KeepingMap, NEW old, Replaces(old), call' = call, root' = root,
         NEW rest, NEW node, rest # <<>> => node \in BalancedOver(store) /\ Slots(node) = rest,
         StoreAndAscend(IF rest = <<>> THEN <<>> ELSE <<node>>),
         StoredBy(rest) = Others(StoredIn(old), call.key) \cup Added,
         call.op = "delete" => With(old, call.key) # {}
  PROVE  KeepingMap'
<1>1. pc' = "ascend"
  BY DEF StoreAndAscend
<1>2. StoredBy(update') = StoredBy(rest)
  <2>1. CASE rest = <<>>
    <3>1. update' = <<>>
      BY <2>1 DEF StoreAndAscend
    <3>. QED
      BY <2>1, <3>1
  <2>2. CASE rest # <<>>
    <3>1. update' = <<EntryFor(node)>>
      BY <2>2 DEF StoreAndAscend
    <3>. QED
      BY <2>2, <3>1, InductiveSound, OneEntryStores
  <2>. QED
    BY <2>1, <2>2
<1>. QED
  BY <1>1, <1>2, HandUpKeepsMap

\* The leaf the key is removed from.
LEMMA LeafDeleteKeepsMap ==
  ASSUME Inductive, KeepingOrder, KeepingMap, DeleteAtLeaf
  PROVE  KeepingMap'
<1>. DEFINE L == LeafEntries(store)
            rest == RemoveKey(at.entries, call.key)
            node == Leaf(rest)
<1>1. /\ pc = "descend" /\ call.op = "delete" /\ at.kind = "Leaf"
      /\ HasKey(at.entries, call.key)
      /\ StoreAndAscend(IF rest = <<>> THEN <<>> ELSE <<node>>)
      /\ path' = path /\ call' = call /\ root' = root
  BY DEF DeleteAtLeaf, AtLeaf, treeVars
<1>2. /\ at \in BalancedOver(store) /\ at \in NodesIn(store)
      /\ at.entries \in Seq(L) /\ Slots(at) = at.entries
  BY <1>1, AtNode, NodeKinds DEF Slots
<1>3. call.key \in Keys
  BY <1>1, AtNode DEF Requests
<1>4. InOrder(at.entries) /\ Sound(store)
  BY <1>2, OrderedStore DEF Ordered
<1>5. ToSet(rest) = Others(ToSet(at.entries), call.key)
  BY <1>1, <1>2, <1>3, <1>4, RemoveKeyStores
<1>6. rest \in Seq(L)
  BY <1>1, <1>2, <1>3, RemoveKeyOver
<1>7. ASSUME NEW s \in Seq(L)
      PROVE  StoredBy(s) = ToSet(s)
  <2>1. ToSet(s) \in SUBSET L
    BY ToSetIs
  <2>. QED
    BY <2>1, StoredByLeaf, StoredBySet
<1>8. StoredIn(at) = ToSet(at.entries)
  <2>1. StoredIn(at) = StoredBy(at.entries)
    BY <1>2, <1>4, StoredInSlots
  <2>. QED
    BY <1>2, <1>7, <2>1
<1>9. With(at, call.key) # {}
  BY <1>1, <1>8 DEF HasKey, With, ToSet
<1>. HIDE DEF rest
<1>10. rest # <<>> => node \in BalancedOver(store) /\ Slots(node) = rest
  BY <1>6, LeafOver DEF Leaf, Slots
<1>11. StoredBy(rest) = Others(StoredIn(at), call.key) \cup Added
  <2>1. Added = {} /\ StoredBy(rest) = ToSet(rest)
    BY <1>1, <1>6, <1>7 DEF Added
  <2>. QED
    BY <1>5, <1>8, <2>1
<1>. HIDE DEF node
<1>12. Replaces(at)
  BY <1>1 DEF Replaces
<1>. QED
  BY <1>1, <1>9, <1>10, <1>11, <1>12, RestKeepsMap

\* A vanished child stored nothing but the key.
LEMMA ChildGoneKeepsMap ==
  ASSUME Inductive, KeepingOrder, KeepingMap, DeleteChildGone
  PROVE  KeepingMap'
<1>. DEFINE old == Last(path).node
            idx == Last(path).idx
            E == EntriesBelow(store, old.level)
            rest == RemoveAt(old.children, idx)
            node == WithSlots(old, rest)
<1>1. /\ pc = "ascend" /\ path # <<>> /\ update = <<>>
      /\ StoreAndAscend(IF rest = <<>> THEN <<>> ELSE <<node>>)
      /\ path' = Front(path) /\ call' = call /\ root' = root
  BY DEF DeleteChildGone, Ascending, treeVars
<1>2. /\ old \in BalancedOver(store) /\ old.kind = "Internal"
      /\ old.children \in Seq(E) /\ InOrder(old.children)
      /\ idx \in DOMAIN old.children /\ Left(Last(path)) = old.children[idx]
  BY <1>1, TopInOrder
<1>3. Replaces(old)
  BY <1>1 DEF Replaces
<1>4. StoredAll({}) = Others(StoredIn(Left(Last(path)).child_hash), call.key) \cup Added
  <2>1. ToSet(update) = {}
    BY <1>1 DEF ToSet
  <2>2. StoredBy(update) = StoredAll({})
    BY <2>1, StoredBySet
  <2>. QED
    BY <1>1, <2>2, HandedUp
<1>5. StoredAll((ToSet(old.children) \ {Left(Last(path))}) \cup {})
        = Others(StoredIn(old), call.key) \cup Added
  BY <1>1, <1>4, TopStores
<1>6. Distinct(old.children)
  BY <1>2, InductiveSound, SlotsRanged, OrderDistinct
<1>7. call.op = "delete" => With(old, call.key) # {}
  <2>1. With(old, call.key) = With(Left(Last(path)).child_hash, call.key)
    BY <1>1, TopHas
  <2>. QED
    BY <1>1, <2>1, HandedUp
<1>. HIDE DEF old, idx
<1>8. idx \in 1..Len(old.children)
  BY <1>2, ElementsOfSeq
<1>9. ToSet(rest) = ToSet(old.children) \ {Left(Last(path))}
  BY <1>2, <1>6, <1>8, ToSetRemoveAt
<1>10. StoredBy(rest) = Others(StoredIn(old), call.key) \cup Added
  BY <1>5, <1>9, StoredBySet
<1>11. rest \in Seq(E)
  BY <1>2, <1>8, RemoveAtSeq
<1>. HIDE DEF rest
<1>12. rest # <<>> => node \in BalancedOver(store) /\ Slots(node) = rest
  <2>1. SlotsOver(old, store) = E
    BY <1>2 DEF SlotsOver
  <2>. QED
    BY <1>2, <1>11, <2>1, WithSlotsOver
<1>. HIDE DEF node
<1>. QED
  BY <1>1, <1>3, <1>7, <1>10, <1>12, RestKeepsMap

\* The children with the entry of the rewritten one.
LEMMA RewrittenStores ==
  ASSUME Inductive, KeepingOrder, KeepingMap, pc = "ascend", call.op = "delete",
         path # <<>>, update # <<>>
  PROVE  LET old == Last(path).node
         IN  /\ StoredBy(Rewritten) = Others(StoredIn(old), call.key) \cup Added
             /\ With(old, call.key) # {}
<1>. DEFINE old == Last(path).node
            idx == Last(path).idx
            E == EntriesBelow(store, old.level)
            s == old.children
            u == update[1]
<1>1. /\ s \in Seq(E) /\ InOrder(s) /\ idx \in DOMAIN s /\ Left(Last(path)) = s[idx]
  BY TopInOrder
<1>2. update \in Seq(E) /\ Len(update) = 1
  <2>1. Len(update) \in 0..1 /\ update \in Seq(E)
    BY UpdateBelow DEF Inductive, TypeOK
  <2>. QED
    BY <2>1, ElementsOfSeq
<1>3. u \in E /\ ToSet(update) = {u}
  BY <1>2, ElementsOfSeq, ToSetIs
<1>4. Distinct(s)
  BY <1>1, InductiveSound, SlotsRanged, OrderDistinct
<1>5. Rewritten = [s EXCEPT ![idx] = u]
  BY DEF Rewritten
<1>. HIDE DEF E, u
<1>6. ToSet(Rewritten) = (ToSet(s) \ {s[idx]}) \cup {u}
  <2>. HIDE DEF s, idx
  <2>. QED
    BY <1>1, <1>3, <1>4, <1>5, ToSetReplace
<1>7. StoredAll({u}) = Others(StoredIn(Left(Last(path)).child_hash), call.key) \cup Added
  BY <1>3, HandedUp, StoredBySet
<1>8. StoredAll((ToSet(s) \ {Left(Last(path))}) \cup {u}) = Others(StoredIn(old), call.key) \cup Added
  BY <1>7, TopStores
<1>9. With(old, call.key) # {}
  <2>1. With(old, call.key) = With(Left(Last(path)).child_hash, call.key)
    BY TopHas
  <2>. QED
    BY <2>1, HandedUp
<1>. HIDE DEF old, idx, s
<1>10. StoredBy(Rewritten) = Others(StoredIn(old), call.key) \cup Added
  BY <1>1, <1>6, <1>8, StoredBySet
<1>. QED
  BY <1>9, <1>10 DEF old

\* A delete comes back to a node whose child holds enough.
LEMMA DeleteUpKeepsMap ==
  ASSUME Inductive, KeepingOrder, KeepingMap, DeleteAscend
  PROVE  KeepingMap'
<1>. DEFINE old == Last(path).node
            node == WithSlots(old, Rewritten)
<1>1. /\ pc = "ascend" /\ call.op = "delete" /\ path # <<>> /\ update # <<>>
      /\ StoreAndAscend(<<node>>) /\ path' = Front(path) /\ call' = call /\ root' = root
  BY DEF DeleteAscend, Ascending, treeVars
<1>2. old \in BalancedOver(store) /\ old.kind = "Internal" /\ Replaces(old)
  BY <1>1, TopInOrder DEF Replaces
<1>3. Rewritten \in Seq(SlotsOver(old, store)) \ {<<>>}
  BY <1>1, <1>2, RewrittenOver DEF SlotsOver
<1>4. /\ StoredBy(Rewritten) = Others(StoredIn(old), call.key) \cup Added
      /\ With(old, call.key) # {}
  BY <1>1, RewrittenStores
<1>. HIDE DEF old
<1>5. node \in BalancedOver(store) /\ Slots(node) = Rewritten
  BY <1>2, <1>3, WithSlotsOver
<1>. HIDE DEF node
<1>6. StoreAndAscend(IF Rewritten = <<>> THEN <<>> ELSE <<node>>)
  BY <1>1, <1>3
<1>. QED
  BY <1>1, <1>2, <1>4, <1>5, <1>6, RestKeepsMap

\* A delete comes back to a node whose child is repaired with a sibling.
LEMMA RebalanceKeepsMap ==
  ASSUME Inductive, KeepingOrder, KeepingMap, DeleteRebalance
  PROVE  KeepingMap'
<1>. DEFINE old == Last(path).node
            idx == Last(path).idx
            l == old.level
            children == HandleUnderflow(Rewritten, idx, config)
            node == WithSlots(old, children)
            remade == {c.child_hash : c \in ToSet(children)}
                        \ {c.child_hash : c \in ToSet(Rewritten)}
            T == store \cup remade
<1>1. /\ pc = "ascend" /\ pc' = pc /\ call.op = "delete" /\ path # <<>> /\ update # <<>>
      /\ HasSibling(Rewritten) /\ update' = <<EntryFor(node)>>
      /\ path' = Front(path) /\ call' = call /\ root' = root
  BY DEF DeleteRebalance, ChildUnderflows, Ascending, treeVars
<1>2. old \in BalancedOver(store) /\ old.kind = "Internal" /\ Replaces(old)
  BY <1>1, TopInOrder DEF Replaces
<1>3. /\ Rewritten \in Seq(EntriesBelow(store, l)) /\ idx \in DOMAIN Rewritten
      /\ InOrder(Rewritten)
  BY <1>1, RewrittenOver, RewrittenInOrder
<1>4. /\ StoredBy(Rewritten) = Others(StoredIn(old), call.key) \cup Added
      /\ With(old, call.key) # {}
  BY <1>1, RewrittenStores
<1>5. config \in Configs /\ Sound(store)
  BY InductiveSound DEF Inductive, TypeOK
<1>6. Sound(T) /\ children \in Seq(EntriesBelow(T, l)) \ {<<>>}
  BY RebalancedOver
<1>7. node \in BalancedOver(T) /\ Slots(node) = children
  <2>1. children \in Seq(SlotsOver(old, T)) \ {<<>>}
    BY <1>2, <1>6 DEF SlotsOver
  <2>. HIDE DEF old, children, T
  <2>. QED
    BY <1>2, <2>1, WithSlotsOver
<1>. HIDE DEF old, idx, node, T
<1>8. StoredBy(children) = StoredBy(Rewritten)
  <2>. HIDE DEF l
  <2>. QED
    BY <1>1, <1>3, <1>5, RepairStores
<1>. HIDE DEF children
<1>9. StoredBy(update') = StoredBy(children)
  BY <1>1, <1>6, <1>7, OneEntryStores
<1>. QED
  BY <1>1, <1>2, <1>4, <1>8, <1>9, HandUpKeepsMap
-----------------------------------------------------------------------------
(***************************************************************************)
(* The other steps, and all of them.                                       *)
(***************************************************************************)
\* A call on keys is over or begins.
LEMMA CallKeepsMap ==
  ASSUME Inductive, KeepingMap, NEW k \in Keys,
         Get(k) \/ Delete(k) \/ \E v \in Values : Insert(k, v)
  PROVE  KeepingMap'
<1>1. CASE root = None
  <2>1. pc' = "idle" /\ path' = <<>>
    BY <1>1 DEF Get, Delete, Insert, Return
  <2>. QED
    BY <2>1, QuietKeepsMap
<1>2. CASE root # None
  <2>1. pc = "idle" /\ \E request : StartDescent(request)
    BY <1>2 DEF Get, Delete, Insert
  <2>. QED
    BY <1>2, <2>1, StartKeepsMap
<1>. QED
  BY <1>1, <1>2

\* A call returns.
LEMMA ReturnKeepsMap ==
  ASSUME KeepingMap,
         \/ GetAtLeaf \/ InsertAtTop \/ DeleteNotFound \/ NoSibling \/ DeleteAtTop \/ Sweep
         \/ \E h \in versions : Checkout(h) \/ CheckoutMissing(h)
         \/ \E h \in versions, c \in Configs : Load(h, c, {})
  PROVE  KeepingMap'
<1>1. \E request, out : Return(request, out)
  BY DEF GetAtLeaf, InsertAtTop, DeleteNotFound, NoSibling, Fail, DeleteAtTop, Sweep,
         Checkout, CheckoutMissing, Load
<1>2. pc' = "idle" /\ path' = <<>>
  BY <1>1 DEF Return
<1>. QED
  BY <1>2, QuietKeepsMap

\* A collection marks.
LEMMA GcKeepsMap ==
  ASSUME KeepingMap, (\E keep : Collect(keep)) \/ (\E h : Mark(h))
  PROVE  KeepingMap'
<1>1. pc' = "mark" /\ path' = path /\ root' = root
  BY DEF Collect, Mark, treeVars, walkVars
<1>. QED
  BY <1>1, QuietKeepsMap

\* A step that changes nothing.
LEMMA StutterKeepsMap ==
  ASSUME KeepingMap, UNCHANGED vars
  PROVE  KeepingMap'
<1>1. UNCHANGED <<pc, call, at, path, update, root>>
  BY DEF vars, treeVars, walkVars
<1>2. Replaced' = Replaced /\ Entry' = Entry
  BY <1>1 DEF Replaced, Entry, Left, Last
<1>. QED
  BY <1>1, <1>2 DEF KeepingMap, Rooted, Finding, Remaking

\* The first state.
LEMMA InitKeepsMap ==
  ASSUME Init
  PROVE  KeepingMap
BY DEF Init, KeepingMap, Rooted, Finding, Remaking

\* Every step keeps to the map under the root.
LEMMA NextKeepsMap ==
  ASSUME Inductive, KeepingOrder, KeepingMap, [Next]_vars
  PROVE  KeepingMap'
<1>1. CASE Call
  <2>1. ASSUME NEW k \in Keys, Get(k) \/ Delete(k)
        PROVE  KeepingMap'
    BY <2>1, CallKeepsMap
  <2>2. ASSUME NEW k \in Keys, NEW v \in Values, Insert(k, v)
        PROVE  KeepingMap'
    BY <2>2, CallKeepsMap
  <2>3. ASSUME NEW h \in versions, Checkout(h) \/ CheckoutMissing(h)
        PROVE  KeepingMap'
    BY <2>3, ReturnKeepsMap
  <2>4. ASSUME NEW h \in versions, NEW c \in Configs, Load(h, c, {})
        PROVE  KeepingMap'
    BY <2>4, ReturnKeepsMap
  <2>5. ASSUME NEW keep, Collect(keep)
        PROVE  KeepingMap'
    BY <2>5, GcKeepsMap
  <2>. QED
    BY <1>1, <2>1, <2>2, <2>3, <2>4, <2>5 DEF Call
<1>2. CASE Step
  <2>1. CASE Descend \/ NodeMissing \/ GetAtLeaf
    BY <2>1, DescentKeepsMap, NodeNeverMissing, ReturnKeepsMap
  <2>2. CASE InsertAtLeaf \/ InsertAscend \/ InsertAtTop
    BY <2>2, LeafInsertKeepsMap, InsertUpKeepsMap, ReturnKeepsMap
  <2>3. CASE DeleteNotFound \/ DeleteAtLeaf \/ DeleteChildGone \/ DeleteAscend
    BY <2>3, ReturnKeepsMap, LeafDeleteKeepsMap, ChildGoneKeepsMap, DeleteUpKeepsMap
  <2>4. CASE DeleteRebalance \/ SiblingMissing \/ NoSibling \/ DeleteAtTop
    BY <2>4, RebalanceKeepsMap, SiblingNeverMissing, ReturnKeepsMap
  <2>5. ASSUME NEW h \in queue, Mark(h)
        PROVE  KeepingMap'
    BY <2>5, GcKeepsMap
  <2>6. CASE Sweep
    BY <2>6, ReturnKeepsMap
  <2>. QED
    BY <1>2, <2>1, <2>2, <2>3, <2>4, <2>5, <2>6 DEF Step
<1>3. CASE UNCHANGED vars
  BY <1>3, StutterKeepsMap
<1>. QED
  BY <1>1, <1>2, <1>3 DEF Next

(***************************************************************************)
(* In the middle of every call, what is below the node a search has come   *)
(* to is all there is for its key, and what an edit hands upwards stores   *)
(* what the node it replaces did, but for the key.                         *)
(***************************************************************************)
THEOREM MapIsKept == Spec => []KeepingMap
<1>1. Init => KeepingMap
  BY InitKeepsMap
<1>2. Inductive /\ KeepingOrder /\ KeepingMap /\ [Next]_vars => KeepingMap'
  BY NextKeepsMap
<1>. QED
  BY <1>1, <1>2, InductiveHolds, OrderIsKept, PTL DEF Spec
-----------------------------------------------------------------------------
(***************************************************************************)
(* Inserting what is there.                                                *)
(***************************************************************************)
\* The entries handed up for a node that has the new entry already.
LEMMA HandUpRewrites ==
  ASSUME Inductive, KeepingOrder, Rooted, NEW old, Replaces(old), root' = root, call' = call,
         Entry \in StoredIn(old) => update' = <<EntryFor(old)>>
  PROVE  Rewriting'
<1>1. Replaced' = old
  BY ReplacedIs
<1>2. Entry' = Entry
  BY DEF Entry
<1>3. Entry' \in StoredIn(Replaced') => update' = <<EntryFor(Replaced')>>
  BY <1>1, <1>2
<1>. QED
  BY <1>3 DEF Rewriting

\* A leaf that has the entry is not too large and stays as it is.
LEMMA LeafInsertRewrites ==
  ASSUME Inductive, KeepingOrder, KeepingSize, InsertAtLeaf
  PROVE  Rewriting'
<1>. DEFINE entries == Upsert(at.entries, call.key, ValueRepr(call.value))
            nodes == Split(Leaf(entries), config)
<1>1. /\ pc = "descend" /\ StoreAndAscend(nodes)
      /\ path' = path /\ call' = call /\ root' = root
  BY DEF InsertAtLeaf, AtLeaf, treeVars
<1>2. update' = [i \in DOMAIN nodes |-> EntryFor(nodes[i])]
  BY <1>1 DEF StoreAndAscend
<1>3. ASSUME Entry \in StoredIn(at)
      PROVE  update' = <<EntryFor(at)>>
  <2>1. Leaf(entries) = at
    BY <1>3, LeafSets
  <2>2. at \in BalancedOver(store) /\ Fits(at, config)
    BY <1>1, AtNode, StoredFits DEF KeepingSize
  <2>3. NumEntries(at) <= config.target_fanout /\ config.target_fanout \in Nat /\ NumEntries(at) \in Nat
    BY <2>2, NumEntriesNat, ConfigFits DEF Fits
  <2>4. Split(at, config) = <<at>>
    <3>1. ~(Len(Slots(at)) > config.target_fanout)
      BY <2>3 DEF NumEntries
    <3>. QED
      BY <3>1 DEF Split
  <2>5. nodes = <<at>>
    BY <2>1, <2>4
  <2>. QED
    BY <1>2, <2>5
<1>4. Replaces(at)
  BY <1>1 DEF Replaces
<1>. QED
  BY <1>1, <1>3, <1>4, HandUpRewrites DEF KeepingSize

\* A node whose child stays as it is stays as it is.
LEMMA InsertUpRewrites ==
  ASSUME Inductive, KeepingOrder, KeepingSize, Rewriting, InsertAscend
  PROVE  Rewriting'
<1>. DEFINE old == Last(path).node
            idx == Last(path).idx
            child == Left(Last(path)).child_hash
            node == WithSlots(old, AfterInsert(old.children, idx, update))
            nodes == IF Len(update) = 1 THEN <<node>> ELSE Split(node, config)
<1>1. /\ pc = "ascend" /\ call.op = "insert" /\ path # <<>>
      /\ StoreAndAscend(nodes) /\ path' = Front(path) /\ call' = call /\ root' = root
  BY DEF InsertAscend, Ascending, treeVars
<1>2. /\ old \in BalancedOver(store) /\ old.kind = "Internal" /\ idx \in DOMAIN old.children
      /\ old.children \in Seq(EntriesBelow(store, old.level)) \ {<<>>}
      /\ Left(Last(path)) = old.children[idx]
  BY <1>1, TopInOrder
<1>3. update' = [i \in DOMAIN nodes |-> EntryFor(nodes[i])]
  BY <1>1 DEF StoreAndAscend
<1>4. With(old, call.key) = With(child, call.key)
  BY <1>1, TopHas
<1>5. Replaced = child
  BY <1>1 DEF Replaced
<1>6. ASSUME Entry \in StoredIn(old)
      PROVE  update' = <<EntryFor(old)>>
  <2>1. Entry \in With(old, call.key)
    BY <1>6 DEF With, Entry
  <2>2. Entry \in StoredIn(child)
    BY <1>4, <2>1 DEF With
  <2>3. update = <<EntryFor(child)>>
    BY <1>1, <1>5, <2>2 DEF Rewriting
  <2>4. EntryFor(child) = old.children[idx]
    <3>1. old.children[idx] \in EntriesBelow(store, old.level)
      BY <1>2, ElementsOfSeq
    <3>. QED
      BY <1>2, <3>1 DEF EntriesBelow
  <2>5. AfterInsert(old.children, idx, update) = old.children
    <3>1. Len(update) = 1 /\ update[1] = old.children[idx]
      BY <2>3, <2>4
    <3>2. [old.children EXCEPT ![idx] = update[1]] = old.children
      BY <1>2, <3>1
    <3>. QED
      BY <3>1, <3>2 DEF AfterInsert
  <2>6. node = old
    <3>1. old = Internal(old.level, old.children)
      BY <1>2, NodeKinds
    <3>. QED
      BY <1>2, <2>5, <3>1 DEF WithSlots
  <2>7. nodes = <<old>>
    BY <2>3, <2>6
  <2>. QED
    BY <1>3, <2>7
<1>7. Replaces(old)
  BY <1>1 DEF Replaces
<1>. HIDE DEF old
<1>. QED
  BY <1>1, <1>6, <1>7, HandUpRewrites DEF KeepingSize

\* The steps of no insert, and those that hand nothing up.
LEMMA OtherRewrites ==
  ASSUME pc' # "ascend" \/ call'.op # "insert"
  PROVE  Rewriting'
BY DEF Rewriting

\* Every step keeps to it.
LEMMA NextRewrites ==
  ASSUME Inductive, KeepingOrder, KeepingSize, Rewriting, [Next]_vars
  PROVE  Rewriting'
<1>1. CASE Call
  <2>1. pc' # "ascend"
    <3>1. ASSUME NEW k \in Keys, Get(k) \/ Delete(k) \/ \E v \in Values : Insert(k, v)
          PROVE  pc' # "ascend"
      BY <3>1 DEF Get, Delete, Insert, StartDescent, Return
    <3>2. ASSUME NEW h \in versions,
                 Checkout(h) \/ CheckoutMissing(h) \/ \E c \in Configs : Load(h, c, {})
          PROVE  pc' # "ascend"
      BY <3>2 DEF Checkout, CheckoutMissing, Load, Return
    <3>3. ASSUME NEW keep, Collect(keep)
          PROVE  pc' # "ascend"
      BY <3>3 DEF Collect
    <3>. QED
      BY <1>1, <3>1, <3>2, <3>3 DEF Call
  <2>. QED
    BY <2>1, OtherRewrites
<1>2. CASE Step
  <2>1. CASE InsertAtLeaf \/ InsertAscend
    BY <2>1, LeafInsertRewrites, InsertUpRewrites
  <2>2. CASE \/ Descend \/ NodeMissing \/ GetAtLeaf \/ InsertAtTop \/ DeleteNotFound
             \/ SiblingMissing \/ NoSibling \/ DeleteAtTop \/ Sweep \/ \E h \in queue : Mark(h)
    <3>1. pc' # "ascend"
      BY <2>2 DEF Descend, NodeMissing, GetAtLeaf, InsertAtTop, DeleteNotFound, SiblingMissing,
                  NoSibling, Fail, DeleteAtTop, Sweep, Mark, Return
    <3>. QED
      BY <3>1, OtherRewrites
  <2>3. CASE DeleteAtLeaf \/ DeleteChildGone \/ DeleteAscend \/ DeleteRebalance
    <3>1. call'.op # "insert"
      BY <2>3 DEF DeleteAtLeaf, AtLeaf, DeleteChildGone, DeleteAscend, DeleteRebalance,
                  ChildUnderflows, Ascending
    <3>. QED
      BY <3>1, OtherRewrites
  <2>. QED
    BY <1>2, <2>1, <2>2, <2>3 DEF Step
<1>3. CASE UNCHANGED vars
  <2>1. UNCHANGED <<pc, call, path, update, root>>
    BY <1>3 DEF vars, treeVars, walkVars
  <2>2. Replaced' = Replaced /\ Entry' = Entry
    BY <2>1 DEF Replaced, Entry, Left, Last
  <2>. QED
    BY <2>1, <2>2 DEF Rewriting
<1>. QED
  BY <1>1, <1>2, <1>3 DEF Next

(***************************************************************************)
(* As long as a tree is only loaded with the fanout it was built with, an  *)
(* insert of an entry that is there hands up each node as it is, so it     *)
(* makes no new version.                                                   *)
(***************************************************************************)
THEOREM SameInsertKeepsNodes ==
  ASSUME \A c, d \in Configs : c = d
  PROVE  Spec => []Rewriting
<1>1. Init => Rewriting
  BY DEF Init, Rewriting
<1>2. Inductive /\ KeepingOrder /\ KeepingSize /\ Rewriting /\ [Next]_vars => Rewriting'
  BY NextRewrites
<1>. QED
  BY <1>1, <1>2, InductiveHolds, OrderIsKept, SizeIsKept, PTL DEF Spec
-----------------------------------------------------------------------------
(***************************************************************************)
(* The mapping that a set of leaf entries, one for each key, stands for.   *)
(***************************************************************************)
Pairs(entries) ==
  [k \in {e.key : e \in entries} |-> ValueOf((CHOOSE e \in entries : e.key = k).value)]

\* The entries under a root hash.
Under(hash) == IF hash = None THEN {} ELSE StoredIn(hash)

\* The mapping under a root hash is that of its entries.
LEMMA MapOfIs ==
  ASSUME NEW hash
  PROVE  MapOf(hash) = Pairs(Under(hash))
<1>1. CASE hash = None
  <2>1. {e.key : e \in {}} = {}
    OBVIOUS
  <2>. QED
    BY <1>1, <2>1 DEF MapOf, Pairs, Under
<1>2. CASE hash # None
  BY <1>2 DEF MapOf, Pairs, Under
<1>. QED
  BY <1>1, <1>2

\* Each entry maps its key to its value.
LEMMA PairsAre ==
  ASSUME NEW X, OneEach(X)
  PROVE  /\ DOMAIN Pairs(X) = {e.key : e \in X}
         /\ \A e \in X : Pairs(X)[e.key] = ValueOf(e.value)
<1>1. DOMAIN Pairs(X) = {e.key : e \in X}
  BY DEF Pairs
<1>2. ASSUME NEW e \in X
      PROVE  Pairs(X)[e.key] = ValueOf(e.value)
  <2>. DEFINE f == CHOOSE x \in X : x.key = e.key
  <2>1. f \in X /\ f.key = e.key
    OBVIOUS
  <2>. HIDE DEF f
  <2>2. f = e
    BY <2>1 DEF OneEach
  <2>3. Pairs(X)[e.key] = ValueOf((CHOOSE x \in X : x.key = e.key).value)
    BY DEF Pairs
  <2>. QED
    BY <2>2, <2>3 DEF f
<1>. QED
  BY <1>1, <1>2
\* A function that maps what the entries map is theirs.
LEMMA PairsAreAll ==
  ASSUME NEW X, OneEach(X), NEW f, f = [k \in DOMAIN f |-> f[k]],
         DOMAIN f = {e.key : e \in X}, \A e \in X : f[e.key] = ValueOf(e.value)
  PROVE  Pairs(X) = f
<1>1. ASSUME NEW k \in DOMAIN f
      PROVE  Pairs(X)[k] = f[k]
  <2>1. PICK e \in X : e.key = k
    OBVIOUS
  <2>2. Pairs(X)[e.key] = ValueOf(e.value)
    BY PairsAre
  <2>. QED
    BY <2>1, <2>2
<1>2. Pairs(X) = [k \in DOMAIN f |-> Pairs(X)[k]]
  BY DEF Pairs
<1>. QED
  BY <1>1, <1>2

\* Replacing the entry of a key changes the mapping for that key.
LEMMA PairsPut ==
  ASSUME NEW X, OneEach(X), NEW Y, NEW k, NEW v, NEW e, e.key = k, ValueOf(e.value) = v,
         Y = Others(X, k) \cup {e}
  PROVE  Pairs(Y) = Versioned!Put(Pairs(X), k, v)
<1>. DEFINE f == Versioned!Put(Pairs(X), k, v)
<1>1. f = [z \in DOMAIN Pairs(X) \cup {k} |-> IF z = k THEN v ELSE Pairs(X)[z]]
  BY DEF Versioned!Put
<1>2. DOMAIN Pairs(X) = {x.key : x \in X}
  BY PairsAre
<1>3. OneEach(Y)
  BY DEF OneEach, Others
<1>4. DOMAIN f = {x.key : x \in Y}
  <2>1. \A x \in Y : x.key \in DOMAIN f
    BY <1>1, <1>2 DEF Others
  <2>2. \A z \in DOMAIN f : \E x \in Y : x.key = z
    BY <1>1, <1>2 DEF Others
  <2>. QED
    BY <2>1, <2>2
<1>5. ASSUME NEW x \in Y
      PROVE  f[x.key] = ValueOf(x.value)
  <2>1. CASE x = e
    BY <1>1, <2>1
  <2>2. CASE x \in X /\ x.key # k
    BY <1>1, <1>2, <2>2, PairsAre
  <2>. QED
    BY <2>1, <2>2 DEF Others
<1>. HIDE DEF f
<1>6. f = [z \in DOMAIN f |-> f[z]]
  BY <1>1
<1>7. Pairs(Y) = f
  BY <1>3, <1>4, <1>5, <1>6, PairsAreAll
<1>. QED
  BY <1>7 DEF f

\* Removing it takes the key out of the mapping.
LEMMA PairsRemove ==
  ASSUME NEW X, OneEach(X), NEW Y, NEW k, Y = Others(X, k)
  PROVE  Pairs(Y) = Versioned!Restrict(Pairs(X), DOMAIN Pairs(X) \ {k})
<1>. DEFINE f == Versioned!Restrict(Pairs(X), DOMAIN Pairs(X) \ {k})
<1>1. f = [z \in DOMAIN Pairs(X) \ {k} |-> Pairs(X)[z]]
  BY DEF Versioned!Restrict
<1>2. DOMAIN Pairs(X) = {x.key : x \in X}
  BY PairsAre
<1>3. OneEach(Y)
  BY DEF OneEach, Others
<1>4. DOMAIN f = {x.key : x \in Y}
  BY <1>1, <1>2 DEF Others
<1>5. ASSUME NEW x \in Y
      PROVE  f[x.key] = ValueOf(x.value)
  BY <1>1, <1>2, PairsAre DEF Others
<1>. HIDE DEF f
<1>6. f = [z \in DOMAIN f |-> f[z]]
  BY <1>1
<1>7. Pairs(Y) = f
  BY <1>3, <1>4, <1>5, <1>6, PairsAreAll
<1>. QED
  BY <1>7 DEF f
-----------------------------------------------------------------------------
(***************************************************************************)
(* What a step does to the versions.                                       *)
(***************************************************************************)
\* The current version and what it is are recorded.
LEMMA BecomeCurrent ==
  ASSUME versions' = versions \cup {root'}
  PROVE  Versioned!Become(MapOf(root'))
<1>. DEFINE past == [v \in versions |-> MapOf(v)]
<1>1. MapOf(root)' = MapOf(root')
  OBVIOUS
<1>2. past' = Versioned!Put(past, root', MapOf(root'))
  <2>1. past' = [v \in versions' |-> MapOf(v)]
    OBVIOUS
  <2>2. Versioned!Put(past, root', MapOf(root'))
          = [v \in versions \cup {root'} |-> IF v = root' THEN MapOf(root') ELSE past[v]]
    BY DEF Versioned!Put
  <2>. QED
    BY <2>1, <2>2
<1>3. root' \in DOMAIN past => past[root'] = MapOf(root')
  OBVIOUS
<1>. QED
  BY <1>1, <1>2, <1>3 DEF Versioned!Become

\* A step in the middle of a call only adds to the store.
LEMMA QuietStep ==
  ASSUME UNCHANGED <<root, reply, versions>>, store \subseteq store'
  PROVE  Versioned!Reappear
<1>1. ((versions \cap store) \cup {None}) \subseteq ((versions \cap store) \cup {None})'
  OBVIOUS
<1>2. UNCHANGED <<MapOf(root), reply, root, [v \in versions |-> MapOf(v)]>>
  OBVIOUS
<1>. QED
  BY <1>1, <1>2 DEF Versioned!Reappear, Versioned!mapVars

\* A call that ends makes a new version only of a new map.
LEMMA EditStep ==
  ASSUME versions' = versions \cup {root'}, store \subseteq store',
         MapOf(root') = MapOf(root) => root' = root
  PROVE  Versioned!Edited
<1>1. Versioned!Become(MapOf(root'))
  BY BecomeCurrent
<1>2. MapOf(root)' = MapOf(root')
  OBVIOUS
<1>3. ((versions \cap store) \cup {None}) \subseteq ((versions \cap store) \cup {None})'
  OBVIOUS
<1>4. Versioned!Become(MapOf(root)')
  BY <1>1, <1>2
<1>. QED
  BY <1>2, <1>3, <1>4 DEF Versioned!Edited

\* The entries under the current root.
LEMMA UnderRoot ==
  ASSUME Inductive, KeepingOrder
  PROVE  Under(root) \subseteq LeafEntries(store) /\ OneEach(Under(root))
<1>1. CASE root = None
  BY <1>1 DEF Under, OneEach
<1>2. CASE root # None
  <2>1. root \in NodesIn(store)
    BY <1>2 DEF Inductive, TypeOK
  <2>. QED
    BY <1>2, <2>1, OrderedStore, NodeKeeps DEF Under
<1>. QED
  BY <1>1, <1>2

\* The map has a key if there is an entry for it, and maps it to its value.
LEMMA RootMaps ==
  ASSUME Inductive, KeepingOrder
  PROVE  /\ DOMAIN MapOf(root) = {e.key : e \in Under(root)}
         /\ \A e \in Under(root) : MapOf(root)[e.key] = ValueOf(e.value)
BY UnderRoot, MapOfIs, PairsAre
-----------------------------------------------------------------------------
(***************************************************************************)
(* The steps that end a call on a key, or start a map.                     *)
(***************************************************************************)
\* A get that returns what the map has.
LEMMA GetReturns ==
  ASSUME Inductive, NEW k \in Keys,
         LET m == MapOf(root)
         IN  Return([op |-> "get", key |-> k], IF k \in DOMAIN m THEN m[k] ELSE None),
         UNCHANGED <<store, treeVars, versions>>
  PROVE  Versioned!VersionedNext
<1>1. UNCHANGED <<store, root, versions>> /\ root \in versions
  BY DEF treeVars, Inductive, TypeOK
<1>2. MapOf(root)' = MapOf(root)
  BY <1>1
<1>3. Versioned!Edited
  BY <1>1, EditStep
<1>4. Versioned!Get(k)
  BY <1>2 DEF Versioned!Get, Versioned!Replies, Return
<1>. QED
  BY <1>3, <1>4 DEF Versioned!VersionedNext, Versioned!Access

\* A delete of a key that is not there.
LEMMA AbsentReturns ==
  ASSUME Inductive, NEW k \in Keys, k \notin DOMAIN MapOf(root),
         MapOf(root) = Pairs(Under(root)),
         Return([op |-> "delete", key |-> k], "absent"), UNCHANGED <<store, treeVars, versions>>
  PROVE  Versioned!VersionedNext
<1>1. UNCHANGED <<store, root, versions>> /\ root \in versions
  BY DEF treeVars, Inductive, TypeOK
<1>2. MapOf(root)' = MapOf(root)
  BY <1>1
<1>3. Versioned!Edited
  BY <1>1, EditStep
<1>4. MapOf(root) = Versioned!Restrict(MapOf(root), DOMAIN MapOf(root) \ {k})
  BY DEF Versioned!Restrict, Pairs
<1>5. Versioned!Delete(k)
  BY <1>2, <1>4 DEF Versioned!Delete, Versioned!Replies, Return
<1>. QED
  BY <1>3, <1>5 DEF Versioned!VersionedNext, Versioned!Access

\* The request of a call on a key.
LEMMA RequestIs ==
  ASSUME call \in Requests
  PROVE  /\ call.op = "get" => call = [op |-> "get", key |-> call.key]
         /\ call.op = "delete" => call = [op |-> "delete", key |-> call.key]
         /\ call.op = "insert" => /\ call = [op |-> "insert", key |-> call.key,
                                             value |-> call.value]
                                  /\ call.value \in Values
         /\ call.key \in Keys
BY DEF Requests

\* The leaf a search ends at has the key if and only if the map does.
LEMMA LeafMaps ==
  ASSUME Inductive, KeepingOrder, KeepingMap, pc = "descend", at.kind = "Leaf"
  PROVE  LET p == KeyPosition(at.entries, call.key)
         IN  IF HasKey(at.entries, call.key)
             THEN /\ p \in DOMAIN at.entries /\ at.entries[p] \in LeafEntries(store)
                  /\ call.key \in DOMAIN MapOf(root)
                  /\ MapOf(root)[call.key] = ValueOf(at.entries[p].value)
             ELSE call.key \notin DOMAIN MapOf(root)
<1>. DEFINE k == call.key
            p == KeyPosition(at.entries, k)
            L == LeafEntries(store)
<1>1. at \in BalancedOver(store) /\ at \in NodesIn(store) /\ k \in Keys
  BY AtNode, CallKey
<1>2. Slots(at) = at.entries /\ at.entries \in Seq(L)
  BY <1>1, NodeKinds DEF Slots
<1>3. Sound(store) /\ InOrder(at.entries)
  BY <1>1, <1>2, OrderedStore DEF Ordered
<1>4. StoredIn(at) = ToSet(at.entries)
  <2>1. StoredIn(at) = StoredBy(at.entries)
    BY <1>1, <1>2, <1>3, StoredInSlots
  <2>2. ToSet(at.entries) \in SUBSET L
    BY <1>2, ToSetIs
  <2>. QED
    BY <2>1, <2>2, StoredByLeaf, StoredBySet
<1>5. With(at, k) = With(root, k) /\ root # None
  BY DEF KeepingMap, Finding, Rooted
<1>6. Under(root) = StoredIn(root)
  BY <1>5 DEF Under
<1>7. CASE HasKey(at.entries, k)
  <2>1. p \in DOMAIN at.entries /\ at.entries[p].key = k
    BY <1>1, <1>2, <1>3, <1>7, LeafHas
  <2>2. at.entries[p] \in L /\ at.entries[p] \in ToSet(at.entries)
    BY <1>2, <2>1, ElementsOfSeq, ToSetIs
  <2>3. at.entries[p] \in With(at, k)
    BY <1>4, <2>1, <2>2 DEF With
  <2>. HIDE DEF p, k
  <2>4. at.entries[p] \in Under(root)
    BY <1>5, <1>6, <2>3 DEF With
  <2>5. k \in DOMAIN MapOf(root) /\ MapOf(root)[k] = ValueOf(at.entries[p].value)
    BY <2>1, <2>4, RootMaps
  <2>. QED
    BY <1>7, <2>1, <2>2, <2>5 DEF p, k
<1>8. CASE ~HasKey(at.entries, k)
  <2>1. \A i \in DOMAIN at.entries : at.entries[i].key # k
    BY <1>8 DEF HasKey
  <2>2. With(at, k) = {}
    BY <1>2, <1>4, <2>1, ToSetIs DEF With
  <2>3. k \notin DOMAIN MapOf(root)
    BY <1>5, <1>6, <2>2, RootMaps DEF With
  <2>. QED
    BY <1>8, <2>3
<1>. QED
  BY <1>7, <1>8

\* A get that ends at a leaf.
LEMMA GetAtLeafMaps ==
  ASSUME Inductive, KeepingOrder, KeepingMap, GetAtLeaf
  PROVE  Versioned!VersionedNext
<1>. DEFINE k == call.key
            p == KeyPosition(at.entries, k)
            repr == at.entries[p].value
            out == IF k \in DOMAIN MapOf(root) THEN MapOf(root)[k] ELSE None
<1>1. /\ pc = "descend" /\ call.op = "get" /\ at.kind = "Leaf"
      /\ UNCHANGED <<store, treeVars, versions>>
  BY DEF GetAtLeaf, AtLeaf
<1>2. k \in Keys /\ call = [op |-> "get", key |-> k]
  BY <1>1, AtNode, RequestIs
<1>3. Return(call, out)
  <2>1. CASE HasKey(at.entries, k)
    <3>1. at.entries[p] \in LeafEntries(store) /\ out = ValueOf(repr)
      BY <1>1, <2>1, LeafMaps
    <3>2. repr.repr = "Chunked" => ToSet(repr.chunk_hashes) \subseteq store
      BY <3>1 DEF LeafEntries, ReprChunks
    <3>3. Return(call, ValueOf(repr))
      BY <2>1, <3>2 DEF GetAtLeaf
    <3>. QED
      BY <3>1, <3>3
  <2>2. CASE ~HasKey(at.entries, k)
    <3>1. out = None
      BY <1>1, <2>2, LeafMaps
    <3>2. Return(call, None)
      BY <2>2 DEF GetAtLeaf
    <3>. QED
      BY <3>1, <3>2
  <2>. QED
    BY <2>1, <2>2
<1>. QED
  BY <1>1, <1>2, <1>3, GetReturns

\* A delete that finds no such key.
LEMMA DeleteNotFoundMaps ==
  ASSUME Inductive, KeepingOrder, KeepingMap, DeleteNotFound
  PROVE  Versioned!VersionedNext
<1>1. /\ pc = "descend" /\ call.op = "delete" /\ at.kind = "Leaf"
      /\ ~HasKey(at.entries, call.key)
      /\ Return(call, "absent") /\ UNCHANGED <<store, treeVars, versions>>
  BY DEF DeleteNotFound, AtLeaf
<1>2. call.key \in Keys /\ call = [op |-> "delete", key |-> call.key]
  BY <1>1, AtNode, RequestIs
<1>3. call.key \notin DOMAIN MapOf(root)
  BY <1>1, LeafMaps
<1>. QED
  BY <1>1, <1>2, <1>3, AbsentReturns, MapOfIs

\* A get or delete begins, or is over at once in an empty tree.
LEMMA GetDeleteMaps ==
  ASSUME Inductive, NEW k \in Keys, Get(k) \/ Delete(k)
  PROVE  Versioned!VersionedNext
<1>1. CASE root = None
  <2>1. k \notin DOMAIN MapOf(root)
    BY <1>1 DEF MapOf
  <2>2. UNCHANGED <<store, treeVars, versions>>
    BY <1>1 DEF Get, Delete
  <2>3. CASE Get(k)
    BY <1>1, <2>1, <2>2, <2>3, GetReturns DEF Get
  <2>4. CASE Delete(k)
    BY <1>1, <2>1, <2>2, <2>4, AbsentReturns, MapOfIs DEF Delete
  <2>. QED
    BY <2>3, <2>4
<1>2. CASE root # None
  <2>1. UNCHANGED <<root, reply, versions>> /\ store \subseteq store'
    BY <1>2 DEF Get, Delete, StartDescent, treeVars
  <2>. QED
    BY <2>1, QuietStep DEF Versioned!VersionedNext
<1>. QED
  BY <1>1, <1>2

\* An insert that returns with the value in the map.
LEMMA InsertReturns ==
  ASSUME NEW k \in Keys, NEW v \in Values, MapOf(root') = Versioned!Put(MapOf(root), k, v),
         NEW out, Return([op |-> "insert", key |-> k, value |-> v], out),
         versions' = versions \cup {root'}, store \subseteq store'
  PROVE  /\ out = (IF MapOf(root') # MapOf(root) THEN "changed" ELSE "unchanged")
             /\ (MapOf(root') = MapOf(root) => root' = root)
           => Versioned!VersionedNext
         /\ out = "changed" /\ MapOf(root') = MapOf(root) /\ root' # root
           => Versioned!Reshaped
<1>1. MapOf(root)' = MapOf(root') /\ Versioned!Become(MapOf(root'))
  BY BecomeCurrent
<1>2. ASSUME out = (IF MapOf(root') # MapOf(root) THEN "changed" ELSE "unchanged"),
             MapOf(root') = MapOf(root) => root' = root
      PROVE  Versioned!VersionedNext
  <2>1. Versioned!Edited
    BY <1>2, EditStep
  <2>2. Versioned!Insert(k, v)
    BY <1>1, <1>2 DEF Versioned!Insert, Versioned!Replies, Return
  <2>. QED
    BY <2>1, <2>2 DEF Versioned!VersionedNext, Versioned!Access
<1>3. ASSUME out = "changed", MapOf(root') = MapOf(root), root' # root
      PROVE  Versioned!Reshaped
  <2>1. k \in DOMAIN MapOf(root) /\ MapOf(root)[k] = v
    BY <1>3 DEF Versioned!Put
  <2>2. Versioned!Replies([op |-> "insert", key |-> k, value |-> MapOf(root)[k]], "changed")
    BY <1>3, <2>1 DEF Versioned!Replies, Return
  <2>3. Versioned!Become(MapOf(root))
    BY <1>1, <1>3
  <2>4. ((versions \cap store) \cup {None}) \subseteq ((versions \cap store) \cup {None})'
    OBVIOUS
  <2>5. reply'.request.op = "insert"
    BY DEF Return
  <2>. QED
    BY <1>3, <2>1, <2>2, <2>3, <2>4, <2>5 DEF Versioned!Reshaped
<1>. QED
  BY <1>2, <1>3

\* An insert begins, or makes the first leaf of an empty tree.
LEMMA InsertMaps ==
  ASSUME Inductive, ~IsNode(None), NEW k \in Keys, NEW v \in Values, Insert(k, v)
  PROVE  Versioned!VersionedNext
<1>. DEFINE e == [key |-> k, value |-> ValueRepr(v)]
            leaf == Leaf(<<e>>)
            S == store \cup ValueChunks(v)
<1>1. CASE root = None
  <2>1. /\ store \subseteq store' /\ root' = leaf /\ versions' = versions \cup {leaf}
        /\ Return([op |-> "insert", key |-> k, value |-> v], "changed")
    BY <1>1 DEF Insert, SetRoot
  <2>2. Sound(S) /\ e \in LeafEntries(S)
    BY InductiveSound, SoundChunks, ValueReprOver
  <2>3. leaf \in BalancedOver(S) /\ Slots(leaf) = <<e>>
    <3>1. <<e>> \in Seq(LeafEntries(S)) \ {<<>>}
      BY <2>2, SingletonSeq
    <3>. HIDE DEF e, S
    <3>2. leaf \in BalancedOver(S)
      BY <3>1, LeafOver
    <3>. QED
      BY <3>2 DEF Leaf, Slots
  <2>4. leaf # None
    <3>1. IsNode(leaf)
      BY DEF IsNode, Leaf
    <3>. QED
      BY <3>1
  <2>5. StoredIn(leaf) = {e}
    <3>1. StoredIn(leaf) = StoredBy(<<e>>)
      BY <2>2, <2>3, StoredInSlots
    <3>2. ToSet(<<e>>) = {e}
      BY DEF ToSet
    <3>3. {e} \in SUBSET LeafEntries(S)
      BY <2>2
    <3>. QED
      BY <3>1, <3>2, <3>3, StoredByLeaf, StoredBySet
  <2>6. Under(leaf) = {e} /\ Under(root) = {}
    BY <1>1, <2>4, <2>5 DEF Under
  <2>. HIDE DEF e, leaf, S
  <2>7. MapOf(leaf) = Versioned!Put(MapOf(root), k, v)
    <3>1. e.key = k /\ ValueOf(e.value) = v
      BY ValueRoundTrip DEF e
    <3>2. OneEach({}) /\ {e} = Others({}, k) \cup {e}
      BY DEF OneEach, Others
    <3>3. Pairs({e}) = Versioned!Put(Pairs({}), k, v)
      BY <3>1, <3>2, PairsPut
    <3>. QED
      BY <2>6, <3>3, MapOfIs
  <2>8. MapOf(leaf) # MapOf(root)
    <3>1. k \in DOMAIN MapOf(leaf)
      BY <2>7 DEF Versioned!Put
    <3>2. k \notin DOMAIN MapOf(root)
      BY <1>1 DEF MapOf
    <3>. QED
      BY <3>1, <3>2
  <2>. QED
    BY <2>1, <2>7, <2>8, InsertReturns
<1>2. CASE root # None
  <2>1. UNCHANGED <<root, reply, versions>> /\ store \subseteq store'
    BY <1>2 DEF Insert, StartDescent, treeVars
  <2>. QED
    BY <2>1, QuietStep DEF Versioned!VersionedNext
<1>. QED
  BY <1>1, <1>2

\* What the root replaced by an edit stored, and what is handed up for it.
LEMMA TopReplaced ==
  ASSUME Inductive, KeepingOrder, KeepingMap, pc = "ascend", path = <<>>
  PROVE  /\ root # None /\ Replaced = root
         /\ StoredBy(update) = Others(Under(root), call.key) \cup Added
         /\ call.op = "delete" => With(root, call.key) # {}
BY DEF KeepingMap, Rooted, Remaking, Replaced, Under, Others, Added

\* The root an insert makes stores what is handed up.
LEMMA NewRootStores ==
  ASSUME Inductive, AtTop("insert")
  PROVE  LET newRoot == IF Len(update) = 1 THEN update[1].child_hash
                        ELSE Internal(Level(update[1].child_hash) + 1, update)
         IN  IsNode(newRoot) /\ StoredIn(newRoot) = StoredBy(update)
<1>. DEFINE l == Level(update[1].child_hash) + 1
            newRoot == IF Len(update) = 1 THEN update[1].child_hash ELSE Internal(l, update)
<1>1. newRoot \in BalancedOver(store)
  BY NewRootOver
<1>2. pc = "ascend" /\ update \in Seq(InternalEntries(store)) /\ Len(update) \in Nat
  BY ElementsOfSeq DEF AtTop, Inductive, TypeOK
<1>3. StoredIn(newRoot) = StoredBy(update)
  <2>1. CASE Len(update) = 1
    <3>1. newRoot = update[1].child_hash
      BY <2>1
    <3>. HIDE DEF newRoot
    <3>2. 1 \in DOMAIN update
      BY <1>2, <2>1
    <3>3. update[1] = EntryFor(newRoot)
      BY <1>2, <3>1, <3>2 DEF Inductive, HandingUp
    <3>4. update = <<EntryFor(newRoot)>>
      BY <1>2, <2>1, <3>3
    <3>. QED
      BY <1>1, <3>4, InductiveSound, OneEntryStores, StoredInSlots
  <2>2. CASE Len(update) # 1
    <3>1. Slots(newRoot) = update
      BY <2>2 DEF Internal, Slots
    <3>. HIDE DEF newRoot
    <3>. QED
      BY <1>1, <3>1, InductiveSound, StoredInSlots
  <2>. QED
    BY <2>1, <2>2
<1>. HIDE DEF newRoot
<1>4. IsNode(newRoot)
  BY <1>1, NodeKinds
<1>. QED
  BY <1>3, <1>4 DEF newRoot

\* An insert that ends has put the value into the map.
LEMMA InsertAtTopPuts ==
  ASSUME Inductive, KeepingOrder, KeepingMap, ~IsNode(None), InsertAtTop
  PROVE  MapOf(root') = Versioned!Put(MapOf(root), call.key, call.value)
<1>1. pc = "ascend" /\ path = <<>> /\ call.op = "insert" /\ AtTop("insert")
  BY DEF InsertAtTop, AtTop
<1>2. IsNode(root') /\ StoredIn(root') = StoredBy(update)
  BY <1>1, NewRootStores DEF InsertAtTop, SetRoot
<1>3. Under(root') = StoredBy(update)
  BY <1>2 DEF Under
<1>4. Under(root') = Others(Under(root), call.key) \cup {Entry}
  BY <1>1, <1>3, TopReplaced DEF Added
<1>5. call.value \in Values
  BY <1>1, RequestIs DEF Inductive, TypeOK
<1>6. Entry.key = call.key /\ ValueOf(Entry.value) = call.value
  BY <1>5, ValueRoundTrip DEF Entry
<1>7. OneEach(Under(root))
  BY UnderRoot
<1>8. Pairs(Under(root')) = Versioned!Put(Pairs(Under(root)), call.key, call.value)
  BY <1>4, <1>6, <1>7, PairsPut
<1>. QED
  BY <1>8, MapOfIs

\* If it leaves the map as it was, the entry was there, and the root stays.
LEMMA SameMapSameRoot ==
  ASSUME Inductive, KeepingOrder, KeepingMap, Rewriting, InsertAtTop,
         MapOf(root) = Versioned!Put(MapOf(root), call.key, call.value)
  PROVE  root' = root
<1>. DEFINE k == call.key
            v == call.value
<1>1. pc = "ascend" /\ path = <<>> /\ call.op = "insert"
  BY DEF InsertAtTop, AtTop
<1>2. k \in DOMAIN MapOf(root) /\ MapOf(root)[k] = v
  BY DEF Versioned!Put
<1>3. PICK e \in Under(root) : e.key = k
  BY <1>2, RootMaps
<1>4. ValueOf(e.value) = v
  BY <1>2, <1>3, RootMaps
<1>5. PICK w \in Values : e = [key |-> e.key, value |-> ValueRepr(w)]
  BY <1>3, UnderRoot DEF LeafEntries
<1>6. w = v
  BY <1>4, <1>5, ValueRoundTrip
<1>7. Entry \in Under(root)
  BY <1>3, <1>5, <1>6 DEF Entry
<1>8. Replaced = root /\ root # None
  BY <1>1, TopReplaced
<1>9. update = <<EntryFor(root)>>
  BY <1>1, <1>7, <1>8 DEF Rewriting, Under
<1>10. Len(update) = 1 /\ update[1].child_hash = root
  BY <1>9 DEF EntryFor
<1>. QED
  BY <1>10 DEF InsertAtTop, SetRoot

\* An insert comes to its end.
LEMMA InsertAtTopMaps ==
  ASSUME Inductive, KeepingOrder, KeepingMap, ~IsNode(None), InsertAtTop
  PROVE  /\ Versioned!VersionedNext \/ Versioned!Reshaped
         /\ Rewriting => Versioned!VersionedNext
<1>. DEFINE out == IF root' # root THEN "changed" ELSE "unchanged"
<1>1. /\ pc = "ascend" /\ call.op = "insert" /\ store \subseteq store'
      /\ versions' = versions \cup {root'} /\ Return(call, out)
  BY DEF InsertAtTop, AtTop, SetRoot
<1>2. /\ call = [op |-> "insert", key |-> call.key, value |-> call.value]
      /\ call.key \in Keys /\ call.value \in Values
  BY <1>1, RequestIs DEF Inductive, TypeOK
<1>3. MapOf(root') = Versioned!Put(MapOf(root), call.key, call.value)
  BY InsertAtTopPuts
<1>4. CASE MapOf(root') = MapOf(root) => root' = root
  <2>1. out = IF MapOf(root') # MapOf(root) THEN "changed" ELSE "unchanged"
    BY <1>4
  <2>. HIDE DEF out
  <2>. QED
    BY <1>1, <1>2, <1>3, <1>4, <2>1, InsertReturns
<1>5. CASE MapOf(root') = MapOf(root) /\ root' # root
  <2>1. out = "changed"
    BY <1>5
  <2>. HIDE DEF out
  <2>2. Versioned!Reshaped
    BY <1>1, <1>2, <1>3, <1>5, <2>1, InsertReturns
  <2>3. ~Rewriting
    BY <1>3, <1>5, SameMapSameRoot
  <2>. QED
    BY <2>2, <2>3
<1>. QED
  BY <1>4, <1>5

\* A root that is replaced by its only child stores what the child does.
LEMMA CollapseStores ==
  ASSUME Inductive, NEW n \in BalancedOver(store)
  PROVE  StoredIn(Collapse(n)) = StoredIn(n) /\ IsNode(Collapse(n))
<1>1. CASE n.kind = "Internal" /\ Len(n.children) = 1
  <2>. DEFINE c == n.children[1]
  <2>1. n.children \in Seq(EntriesBelow(store, n.level)) /\ Slots(n) = n.children
    BY <1>1, NodeKinds DEF Slots
  <2>2. c \in EntriesBelow(store, n.level) /\ n.children = <<c>>
    BY <1>1, <2>1, ElementsOfSeq
  <2>3. c = EntryFor(c.child_hash) /\ IsNode(c.child_hash)
    BY <2>2 DEF EntriesBelow, InternalEntries, NodesIn
  <2>4. Collapse(n) = c.child_hash
    BY <1>1 DEF Collapse
  <2>5. StoredIn(n) = StoredBy(n.children)
    BY <2>1, InductiveSound, StoredInSlots
  <2>. HIDE DEF c
  <2>6. ToSet(n.children) = {c}
    BY <2>2 DEF ToSet
  <2>7. StoredIn(n) = StoredAt(c)
    BY <2>5, <2>6, StoredBySet, StoredSingle
  <2>8. StoredAt(c) = StoredIn(c.child_hash)
    BY <2>3, StoredAtEntry
  <2>. QED
    BY <2>3, <2>4, <2>7, <2>8
<1>2. CASE ~(n.kind = "Internal" /\ Len(n.children) = 1)
  BY <1>2, NodeKinds DEF Collapse
<1>. QED
  BY <1>1, <1>2

\* The root a delete leaves stores what is handed up.
LEMMA RestUnderRoot ==
  ASSUME Inductive, ~IsNode(None), AtTop("delete"),
         NEW hash, hash = IF update = <<>> THEN None ELSE Collapse(update[1].child_hash)
  PROVE  Under(hash) = StoredBy(update)
<1>1. pc = "ascend" /\ update \in Seq(InternalEntries(store)) /\ Len(update) \in 0..1
  BY DEF AtTop, Inductive, TypeOK
<1>2. CASE update = <<>>
  <2>1. ToSet(update) = {}
    BY <1>2 DEF ToSet
  <2>2. StoredBy(update) = {}
    BY <2>1, StoredBySet, StoredSingle
  <2>. QED
    BY <1>2, <2>2 DEF Under
<1>3. CASE update # <<>>
  <2>. DEFINE n == update[1].child_hash
  <2>1. update[1] \in InternalEntries(store) /\ 1 \in DOMAIN update /\ Len(update) = 1
    BY <1>1, <1>3, ElementsOfSeq
  <2>2. n \in BalancedOver(store)
    BY <2>1, InductiveSound, ChildOver
  <2>3. update[1] = EntryFor(n)
    BY <1>1, <2>1 DEF Inductive, HandingUp
  <2>. HIDE DEF n
  <2>4. update = <<EntryFor(n)>>
    BY <1>1, <2>1, <2>3
  <2>5. StoredBy(update) = StoredIn(n)
    BY <2>2, <2>4, InductiveSound, OneEntryStores, StoredInSlots
  <2>6. StoredIn(Collapse(n)) = StoredIn(n) /\ IsNode(Collapse(n))
    BY <2>2, CollapseStores
  <2>7. hash = Collapse(n)
    BY <1>3 DEF n
  <2>. QED
    BY <2>5, <2>6, <2>7 DEF Under
<1>. QED
  BY <1>2, <1>3

\* A delete of a key that was there comes to its end.
LEMMA DeleteAtTopMaps ==
  ASSUME Inductive, KeepingOrder, KeepingMap, ~IsNode(None), DeleteAtTop
  PROVE  Versioned!VersionedNext
<1>. DEFINE k == call.key
            m == MapOf(root)
<1>1. /\ pc = "ascend" /\ path = <<>> /\ call.op = "delete" /\ AtTop("delete")
      /\ Return(call, "deleted") /\ store \subseteq store' /\ versions' = versions \cup {root'}
      /\ root' = IF update = <<>> THEN None ELSE Collapse(update[1].child_hash)
  BY DEF DeleteAtTop, AtTop, SetRoot
<1>2. k \in Keys /\ call = [op |-> "delete", key |-> k]
  BY <1>1, RequestIs DEF Inductive, TypeOK
<1>3. Under(root') = Others(Under(root), k) /\ k \in DOMAIN m
  <2>1. Under(root') = StoredBy(update)
    BY <1>1, RestUnderRoot
  <2>2. StoredBy(update) = Others(Under(root), k)
    BY <1>1, TopReplaced DEF Added
  <2>3. PICK e \in With(root, k) : TRUE
    BY <1>1, TopReplaced
  <2>4. e \in Under(root) /\ e.key = k
    BY <1>1, <2>3, TopReplaced DEF Under, With
  <2>5. k \in DOMAIN m
    BY <2>4, RootMaps
  <2>. QED
    BY <2>1, <2>2, <2>5
<1>4. MapOf(root') = Versioned!Restrict(m, DOMAIN m \ {k})
  <2>1. OneEach(Under(root))
    BY UnderRoot
  <2>2. Pairs(Under(root')) = Versioned!Restrict(Pairs(Under(root)), DOMAIN Pairs(Under(root)) \ {k})
    BY <1>3, <2>1, PairsRemove
  <2>. QED
    BY <2>2, MapOfIs
<1>5. MapOf(root') # m
  BY <1>3, <1>4 DEF Versioned!Restrict
<1>6. Versioned!Edited
  BY <1>1, <1>5, EditStep
<1>7. MapOf(root)' = MapOf(root')
  OBVIOUS
<1>. HIDE DEF k
<1>8. Versioned!Delete(k)
  BY <1>1, <1>2, <1>3, <1>4, <1>7 DEF Versioned!Delete, Versioned!Replies, Return
<1>. QED
  BY <1>2, <1>6, <1>8 DEF Versioned!VersionedNext, Versioned!Access
-----------------------------------------------------------------------------
(***************************************************************************)
(* The other steps, and all of them.                                       *)
(***************************************************************************)
\* A version is made current as it was.
LEMMA SwitchMaps ==
  ASSUME NEW v \in versions, v = None \/ v \in store,
         NEW op, NEW out, Return([op |-> op, hash |-> v], out), SetRoot(v), store' \subseteq store
  PROVE  LET available == (versions \cap store) \cup {None}
         IN  /\ Versioned!Switch(v, op, out)
             /\ available' \subseteq available
             /\ store' = store => UNCHANGED available
<1>1. root' = v /\ versions' = versions \cup {root'} /\ versions' = versions
  BY DEF SetRoot
<1>2. v \in (versions \cap store) \cup {None}
  OBVIOUS
<1>3. [u \in versions |-> MapOf(u)][v] = MapOf(root')
  BY <1>1
<1>4. Versioned!Become(MapOf(root'))
  BY <1>1, BecomeCurrent
<1>5. Versioned!Replies([op |-> op, hash |-> v], out)
  BY DEF Versioned!Replies, Return
<1>6. Versioned!Become([u \in versions |-> MapOf(u)][v])
  BY <1>3, <1>4
<1>. QED
  BY <1>1, <1>2, <1>5, <1>6 DEF Versioned!Switch

\* A checkout makes a version current, or finds it collected.
LEMMA CheckoutMaps ==
  ASSUME NEW h \in versions, Checkout(h) \/ CheckoutMissing(h)
  PROVE  Versioned!VersionedNext
<1>1. h \in DOMAIN [v \in versions |-> MapOf(v)]
  OBVIOUS
<1>2. CASE Checkout(h)
  <2>. DEFINE out == IF h # root THEN "changed" ELSE "unchanged"
  <2>1. /\ h = None \/ h \in store
        /\ Return([op |-> "checkout", hash |-> h], out) /\ SetRoot(h) /\ store' = store
    BY <1>2 DEF Checkout
  <2>2. out = IF h = root THEN "unchanged" ELSE "changed"
    OBVIOUS
  <2>. HIDE DEF out
  <2>3. Versioned!Checkout(h)
    BY <2>1, <2>2, SwitchMaps DEF Versioned!Checkout
  <2>. QED
    BY <1>1, <2>3 DEF Versioned!VersionedNext
<1>3. CASE CheckoutMissing(h)
  <2>1. h \notin (versions \cap store) \cup {None}
    BY <1>3 DEF CheckoutMissing
  <2>2. UNCHANGED <<root, versions, store>>
    BY <1>3 DEF CheckoutMissing, treeVars
  <2>3. Versioned!Replies([op |-> "checkout", hash |-> h], "ChunkNotFound")
    BY <1>3 DEF CheckoutMissing, Versioned!Replies, Return
  <2>4. Versioned!CheckoutGone(h)
    BY <2>1, <2>2, <2>3 DEF Versioned!CheckoutGone
  <2>. QED
    BY <1>1, <2>4 DEF Versioned!VersionedNext
<1>. QED
  BY <1>2, <1>3

\* A load of all chunks makes a version current.
LEMMA LoadMaps ==
  ASSUME NEW h \in versions, NEW c \in Configs, Load(h, c, {})
  PROVE  Versioned!VersionedNext
<1>1. h \in DOMAIN [v \in versions |-> MapOf(v)]
  OBVIOUS
<1>2. /\ h = None \/ h \in store
      /\ Return([op |-> "load", hash |-> h], "loaded") /\ SetRoot(h) /\ store' = store
  BY DEF Load
<1>3. Versioned!Load(h)
  BY <1>2, SwitchMaps DEF Versioned!Load
<1>. QED
  BY <1>1, <1>3 DEF Versioned!VersionedNext

\* A sweep keeps the roots that are live, and what they store.
LEMMA SweepMaps ==
  ASSUME Inductive, Sweep
  PROVE  Versioned!VersionedNext
<1>. DEFINE available == (versions \cap store) \cup {None}
<1>1. /\ pc = "mark" /\ queue = {} /\ store' = store \cap marked
      /\ reply' = [request |-> call, out |-> "done"] /\ UNCHANGED <<root, versions>>
  BY DEF Sweep, Return, treeVars
<1>2. call.op = "gc"
  BY <1>1 DEF Inductive, TypeOK
<1>3. /\ store \cap marked = marked /\ call.live \cap store \subseteq marked
      /\ root \in NodesIn(marked) \cup {None}
  BY <1>1, MarkedSound
<1>4. available' \subseteq available
  BY <1>1
<1>5. ASSUME NEW v \in available \cap (call.live \cup {root})
      PROVE  v \in available'
  BY <1>1, <1>3, <1>5 DEF NodesIn
<1>6. UNCHANGED <<MapOf(root), root, [v \in versions |-> MapOf(v)]>>
  BY <1>1
<1>7. reply'.request = call /\ reply'.out = "done"
  BY <1>1
<1>8. Versioned!Collect
  BY <1>2, <1>4, <1>5, <1>6, <1>7 DEF Versioned!Collect
<1>. QED
  BY <1>8 DEF Versioned!VersionedNext

\* A delete that finds no sibling to merge with fails.
LEMMA NoSiblingFails ==
  ASSUME NoSibling
  PROVE  Versioned!Failed
<1>1. call.op = "delete" /\ Return(call, "InternalError") /\ UNCHANGED <<store, root, versions>>
  BY DEF NoSibling, ChildUnderflows, Ascending, Fail, treeVars
<1>2. reply'.request.op = "delete" /\ reply'.out = "InternalError"
  BY <1>1 DEF Return
<1>3. UNCHANGED <<MapOf(root), root, [v \in versions |-> MapOf(v)]>>
  BY <1>1
<1>. QED
  BY <1>1, <1>2, <1>3 DEF Versioned!Failed

\* A step in the middle of a call.
LEMMA MiddleMaps ==
  ASSUME \/ Descend \/ InsertAtLeaf \/ InsertAscend
         \/ DeleteAtLeaf \/ DeleteChildGone \/ DeleteAscend \/ DeleteRebalance
         \/ (\E keep : Collect(keep)) \/ (\E h : Mark(h))
  PROVE  Versioned!VersionedNext
<1>1. CASE Descend \/ (\E keep : Collect(keep)) \/ (\E h : Mark(h))
  BY <1>1, QuietStep DEF Descend, Collect, Mark, treeVars, Versioned!VersionedNext
<1>2. CASE InsertAtLeaf \/ DeleteAtLeaf
  <2>1. UNCHANGED <<root, reply, versions>> /\ \E nodes : StoreAndAscend(nodes)
    BY <1>2 DEF InsertAtLeaf, DeleteAtLeaf, treeVars
  <2>. QED
    BY <2>1, QuietStep DEF StoreAndAscend, Versioned!VersionedNext
<1>3. CASE InsertAscend \/ DeleteChildGone \/ DeleteAscend
  <2>1. UNCHANGED <<root, reply, versions>> /\ \E nodes : StoreAndAscend(nodes)
    BY <1>3 DEF InsertAscend, DeleteChildGone, DeleteAscend, treeVars
  <2>. QED
    BY <2>1, QuietStep DEF StoreAndAscend, Versioned!VersionedNext
<1>4. CASE DeleteRebalance
  <2>1. UNCHANGED <<root, reply, versions>> /\ store \subseteq store'
    BY <1>4 DEF DeleteRebalance, treeVars
  <2>. QED
    BY <2>1, QuietStep DEF Versioned!VersionedNext
<1>. QED
  BY <1>1, <1>2, <1>3, <1>4

\* Every step is one of the map with versions, or none, unless an insert of what
\* is there makes a new version or a delete fails.
LEMMA NextMaps ==
  ASSUME Inductive, KeepingOrder, KeepingMap, ~IsNode(None), [Next]_vars
  PROVE  /\ \/ Versioned!VersionedNext \/ Versioned!Failed \/ Versioned!Reshaped
            \/ UNCHANGED Versioned!versionedVars
         /\ Rewriting /\ ~NoSibling =>
              Versioned!VersionedNext \/ UNCHANGED Versioned!versionedVars
<1>1. ASSUME Call
      PROVE  Versioned!VersionedNext
  <2>1. ASSUME NEW k \in Keys, Get(k) \/ Delete(k)
        PROVE  Versioned!VersionedNext
    BY <2>1, GetDeleteMaps
  <2>2. ASSUME NEW k \in Keys, NEW v \in Values, Insert(k, v)
        PROVE  Versioned!VersionedNext
    BY <2>2, InsertMaps
  <2>3. ASSUME NEW h \in versions, Checkout(h) \/ CheckoutMissing(h)
        PROVE  Versioned!VersionedNext
    BY <2>3, CheckoutMaps
  <2>4. ASSUME NEW h \in versions, NEW c \in Configs, Load(h, c, {})
        PROVE  Versioned!VersionedNext
    BY <2>4, LoadMaps
  <2>5. ASSUME NEW keep, Collect(keep)
        PROVE  Versioned!VersionedNext
    BY <2>5, MiddleMaps
  <2>. QED
    BY <1>1, <2>1, <2>2, <2>3, <2>4, <2>5 DEF Call
<1>2. ASSUME Step
      PROVE  \/ Versioned!VersionedNext
             \/ NoSibling
             \/ InsertAtTop
  <2>1. ASSUME NEW h \in queue, Mark(h)
        PROVE  Versioned!VersionedNext
    BY <2>1, MiddleMaps
  <2>2. CASE NodeMissing \/ SiblingMissing
    BY <2>2, NodeNeverMissing, SiblingNeverMissing
  <2>3. CASE \/ Descend \/ InsertAtLeaf \/ InsertAscend
             \/ DeleteAtLeaf \/ DeleteChildGone \/ DeleteAscend \/ DeleteRebalance
    BY <2>3, MiddleMaps
  <2>4. CASE GetAtLeaf \/ DeleteNotFound \/ DeleteAtTop \/ Sweep
    BY <2>4, GetAtLeafMaps, DeleteNotFoundMaps, DeleteAtTopMaps, SweepMaps
  <2>. QED
    BY <1>2, <2>1, <2>2, <2>3, <2>4 DEF Step
<1>3. CASE UNCHANGED vars
  <2>1. UNCHANGED <<root, reply, versions, store>>
    BY <1>3 DEF vars, treeVars
  <2>2. UNCHANGED <<MapOf(root), [v \in versions |-> MapOf(v)], (versions \cap store) \cup {None}>>
    BY <2>1
  <2>. QED
    BY <2>1, <2>2 DEF Versioned!versionedVars, Versioned!mapVars
<1>4. CASE NoSibling
  BY <1>4, NoSiblingFails
<1>5. CASE InsertAtTop
  BY <1>5, InsertAtTopMaps
<1>. QED
  BY <1>1, <1>2, <1>3, <1>4, <1>5 DEF Next

\* At the start there is the empty map.
LEMMA InitMaps ==
  ASSUME Init
  PROVE  Versioned!VersionedInit
<1>1. root = None /\ store = {} /\ versions = {None}
      /\ reply = [request |-> [op |-> "none"], out |-> None]
  BY DEF Init, NoReply, NoCall
<1>2. (versions \cap store) \cup {None} = DOMAIN [v \in versions |-> MapOf(v)]
  BY <1>1
<1>3. MapOf(root) = [v \in versions |-> MapOf(v)][root]
  BY <1>1
<1>. QED
  BY <1>1, <1>2, <1>3 DEF Versioned!VersionedInit, Versioned!NoReply

\* The current root is in the store.
LEMMA CurrentIsAvailable ==
  ASSUME Inductive
  PROVE  Versioned!CurrentAvailable
BY DEF Inductive, TypeOK, NodesIn, Versioned!CurrentAvailable

(***************************************************************************)
(* For every configuration a tree is loaded with, whether it fits or not:  *)
(* each get, insert and delete of prolly_tree.rs, although it is many      *)
(* steps, does to the map under the root at once what it says, answers     *)
(* accordingly and leaves every other version as it was, or a delete fails *)
(* for want of a sibling and changes nothing.  None is no node: root_hash  *)
(* is an Option of a hash.                                                 *)
(***************************************************************************)
THEOREM TreeIsLossyMap ==
  ASSUME ~IsNode(None)
  PROVE  Spec => ImplementsLossy
<1>1. Init => Versioned!VersionedInit
  BY InitMaps
<1>2. Inductive /\ KeepingOrder /\ KeepingMap /\ [Next]_vars
        => [Versioned!LossyNext]_Versioned!versionedVars
  BY NextMaps DEF Versioned!LossyNext
<1>. QED
  BY <1>1, <1>2, InductiveHolds, OrderIsKept, MapIsKept, PTL
     DEF Spec, ImplementsLossy, Versioned!LossySpec

(***************************************************************************)
(* A tree that is only loaded with the fanout it was built with is a map   *)
(* with versions without any reservation: no call fails but the checkout   *)
(* of a version that was collected, an edit makes a new version if and     *)
(* only if it changes the map, and the current version is never lost.      *)
(***************************************************************************)
THEOREM TreeIsVersionedMap ==
  ASSUME ~IsNode(None), \A c, d \in Configs : c = d
  PROVE  Spec => ImplementsVersions
<1>1. Init => Versioned!VersionedInit
  BY InitMaps
<1>2. Inductive /\ Inductive' /\ KeepingOrder /\ KeepingMap /\ KeepingSize /\ Rewriting /\ [Next]_vars
        => [Versioned!VersionedNext /\ Versioned!CurrentAvailable']_Versioned!versionedVars
  <2>. SUFFICES ASSUME Inductive, Inductive', KeepingOrder, KeepingMap, KeepingSize, Rewriting,
                       [Next]_vars
                PROVE  [Versioned!VersionedNext /\ Versioned!CurrentAvailable']_Versioned!versionedVars
    OBVIOUS
  <2>1. ~NoSibling
    BY NeverWithoutSibling
  <2>2. Versioned!VersionedNext \/ UNCHANGED Versioned!versionedVars
    BY <2>1, NextMaps
  <2>3. Versioned!CurrentAvailable'
    BY CurrentIsAvailable, PTL
  <2>. QED
    BY <2>2, <2>3
<1>. QED
  BY <1>1, <1>2, InductiveHolds, OrderIsKept, MapIsKept, SizeIsKept, SameInsertKeepsNodes, PTL
     DEF Spec, ImplementsVersions, Versioned!VersionedSpec
-----------------------------------------------------------------------------
(***************************************************************************)
(* Counting.                                                               *)
(***************************************************************************)
\* A stored node counts the keys that are below it.
LEMMA StoredNodeCounted ==
  ASSUME Inductive, KeepingOrder, ~IsNode(None), NEW n \in NodesIn(store)
  PROVE  ItemCount(n) = Cardinality(DOMAIN MapOf(n))
<1>. DEFINE X == StoredIn(n)
            key == [e \in X |-> e.key]
<1>1. OneEach(X) /\ IsFiniteSet(X) /\ Cardinality(X) = ItemCount(n)
  BY OrderedStore, NodeKeeps, StoredCounted
<1>2. n # None
  BY DEF NodesIn
<1>3. DOMAIN MapOf(n) = {e.key : e \in X}
  <2>1. MapOf(n) = Pairs(X)
    BY <1>2, MapOfIs DEF Under
  <2>. QED
    BY <1>1, <2>1, PairsAre
<1>. HIDE DEF X
<1>4. key \in Bijection(X, {e.key : e \in X})
  BY <1>1 DEF OneEach, Bijection, Injection, IsInjective, Surjection
<1>. HIDE DEF key
<1>5. Cardinality({e.key : e \in X}) = Cardinality(X)
  BY <1>1, <1>4, FS_Bijection DEF ExistsBijection
<1>. QED
  BY <1>1, <1>3, <1>5

(***************************************************************************)
(* The number of entries of a tree, which PTree.countAllItems reads off    *)
(* the counters of its root, is the number of its keys, for every stored   *)
(* node, although a merge adds up old counters instead of counting.        *)
(***************************************************************************)
THEOREM StoreStaysCounted ==
  ASSUME ~IsNode(None)
  PROVE  Spec => []StoreCounted
<1>1. Inductive /\ KeepingOrder => StoreCounted
  BY StoredNodeCounted DEF StoreCounted
<1>. QED
  BY <1>1, InductiveHolds, OrderIsKept, PTL

(***************************************************************************)
(* What countAllItems answers is the number of keys of the current tree.   *)
(***************************************************************************)
LEMMA CurrentCounted ==
  ASSUME Inductive, StoreCounted
  PROVE  TreeCounted
<1>1. root \in NodesIn(store) \cup {None}
  BY DEF Inductive, TypeOK
<1>2. CASE root = None
  <2>1. DOMAIN MapOf(root) = {}
    BY <1>2 DEF MapOf
  <2>. QED
    BY <1>2, <2>1, FS_EmptySet DEF TreeCounted, CountAllItems
<1>3. CASE root # None
  BY <1>1, <1>3 DEF StoreCounted, TreeCounted, CountAllItems
<1>. QED
  BY <1>2, <1>3

(***************************************************************************)
(* What countAllItems answers is the number of keys of the current tree.   *)
(***************************************************************************)
THEOREM TreeStaysCounted ==
  ASSUME ~IsNode(None)
  PROVE  Spec => []TreeCounted
BY StoreStaysCounted, InductiveHolds, CurrentCounted, PTL

\* All the current tree is made of is stored, and in order.
LEMMA CurrentSearchable ==
  ASSUME Inductive, KeepingOrder
  PROVE  TreeSearchable
<1>. SUFFICES ASSUME root # None
              PROVE  Searchable(root)
  BY DEF TreeSearchable
<1>1. root \in NodesIn(store)
  BY DEF Inductive, TypeOK
<1>. QED
  BY <1>1, OrderedStore, StoredSearchable

(***************************************************************************)
(* The leaf of every key is found in the current tree, whatever was        *)
(* inserted, deleted, checked out, loaded and collected before.            *)
(***************************************************************************)
THEOREM TreeStaysSearchable == Spec => []TreeSearchable
BY InductiveHolds, OrderIsKept, CurrentSearchable, PTL
=============================================================================
