---------------------------- MODULE LossyProofs -----------------------------
(***************************************************************************)
(* A tree that is loaded without some of its chunks.  A chunk is named by  *)
(* the hash of its contents, so one that is gone still is what it was, and *)
(* the tree is compared with the one that lost nothing: `made' records     *)
(* every chunk that was ever stored, and each step of the tree over its    *)
(* store is one of the same tree over `made', or a call that gives up.     *)
(***************************************************************************)
EXTENDS Lossy, MapProofs

VARIABLE made

\* A history variable: no step depends on it.
Recording == made = store /\ [][made' = made \cup store']_<<vars, made>>

\* The tree that lost nothing.  What a collection would sweep stays, so it makes none.
Whole == INSTANCE MapProofs WITH
  store <- made,
  pc <- IF pc = "mark" THEN "idle" ELSE pc,
  call <- IF pc = "mark" THEN NoCall ELSE call,
  marked <- {},
  queue <- {}

USE KeysAssumption, NoneAssumption, CdcAssumption, ConfigsAssumption, ErrorsAssumption

(***************************************************************************)
(* The instance has operators of its own, which are those of the tree.     *)
(***************************************************************************)
LEMMA SameNodes ==
  /\ \A n : Whole!Slots(n) = Slots(n)
  /\ \A n : Whole!Level(n) = Level(n)
  /\ \A n, s : Whole!WithSlots(n, s) = WithSlots(n, s)
  /\ \A n : Whole!EntryFor(n) = EntryFor(n)
  /\ \A n, c : Whole!IsUnderflow(n, c) = IsUnderflow(n, c)
  /\ \A e : Whole!Leaf(e) = Leaf(e)
  /\ \A l, c : Whole!Internal(l, c) = Internal(l, c)
  /\ \A n : Whole!NumEntries(n) = NumEntries(n)
  /\ \A n : Whole!ItemCount(n) = ItemCount(n)
<1>1. \A e : Whole!Leaf(e) = Leaf(e)
  BY DEF Whole!Leaf, Leaf
<1>2. \A l, c : Whole!Internal(l, c) = Internal(l, c)
  BY DEF Whole!Internal, Internal
<1>3. \A n : Whole!Slots(n) = Slots(n) /\ Whole!Level(n) = Level(n)
  BY DEF Whole!Slots, Slots, Whole!Level, Level
<1>4. \A n, s : Whole!WithSlots(n, s) = WithSlots(n, s)
  BY <1>1, <1>2 DEF Whole!WithSlots, WithSlots
<1>5. \A n : Whole!NumEntries(n) = NumEntries(n)
  BY <1>3 DEF Whole!NumEntries, NumEntries
<1>6. \A n, c : Whole!IsUnderflow(n, c) = IsUnderflow(n, c)
  BY <1>5 DEF Whole!IsUnderflow, IsUnderflow
<1>7. \A c : Whole!ChildItems(c) = ChildItems(c)
  BY DEF Whole!ChildItems, ChildItems, Whole!Cardinality, Cardinality
<1>8. \A n : Whole!ItemCount(n) = ItemCount(n) /\ Whole!BoundaryKey(n) = BoundaryKey(n)
  BY <1>7 DEF Whole!ItemCount, ItemCount, Whole!BoundaryKey, BoundaryKey, Whole!Last, Last
<1>9. \A n : Whole!EntryFor(n) = EntryFor(n)
  BY <1>8 DEF Whole!EntryFor, EntryFor
<1>. QED
  BY <1>1, <1>2, <1>3, <1>4, <1>5, <1>6, <1>8, <1>9

\* Values are cut into chunks and read back alike.
LEMMA SameValues ==
  /\ \A v : Whole!ValueRepr(v) = ValueRepr(v)
  /\ \A v : Whole!ValueChunks(v) = ValueChunks(v)
  /\ \A r : Whole!ValueOf(r) = ValueOf(r)
<1>1. \A b : Whole!Data(b) = Data(b)
  BY DEF Whole!Data, Data
<1>2. \A v : Whole!ValueRepr(v) = ValueRepr(v)
  BY <1>1 DEF Whole!ValueRepr, ValueRepr, Whole!Inline, Inline, Whole!Chunked, Chunked
<1>3. \A v : Whole!ValueChunks(v) = ValueChunks(v)
  BY <1>1 DEF Whole!ValueChunks, ValueChunks, Whole!ToSet, ToSet
<1>4. \A r : Whole!ValueOf(r) = ValueOf(r)
  BY DEF Whole!ValueOf, ValueOf
<1>. QED
  BY <1>2, <1>3, <1>4

\* A node is searched, edited and split alike.
LEMMA SameEdits ==
  /\ \A s, k : Whole!HasKey(s, k) = HasKey(s, k)
  /\ \A s, k : Whole!KeyPosition(s, k) = KeyPosition(s, k)
  /\ \A s, k : Whole!ChildIndex(s, k) = ChildIndex(s, k)
  /\ \A s, k, r : Whole!Upsert(s, k, r) = Upsert(s, k, r)
  /\ \A s, k : Whole!RemoveKey(s, k) = RemoveKey(s, k)
  /\ \A n, c : Whole!Split(n, c) = Split(n, c)
  /\ \A s, i, u : Whole!AfterInsert(s, i, u) = AfterInsert(s, i, u)
<1>1. /\ \A s, k : Whole!HasKey(s, k) = HasKey(s, k)
      /\ \A s, k : Whole!KeyPosition(s, k) = KeyPosition(s, k)
      /\ \A s, k : Whole!BoundaryPosition(s, k) = BoundaryPosition(s, k)
  BY DEF Whole!HasKey, HasKey, Whole!KeyPosition, KeyPosition,
         Whole!BoundaryPosition, BoundaryPosition, Whole!Cardinality, Cardinality
<1>2. \A s, k : Whole!ChildIndex(s, k) = ChildIndex(s, k)
  BY DEF Whole!ChildIndex, ChildIndex, Whole!Min, Min
<1>3. /\ \A s, i, e : Whole!InsertAt(s, i, e) = InsertAt(s, i, e)
      /\ \A s, i : Whole!RemoveAt(s, i) = RemoveAt(s, i)
  BY DEF Whole!InsertAt, InsertAt, Whole!RemoveAt, RemoveAt
<1>4. \A s, k, r : Whole!Upsert(s, k, r) = Upsert(s, k, r)
  BY <1>1, <1>3 DEF Whole!Upsert, Upsert
<1>5. \A s, k : Whole!RemoveKey(s, k) = RemoveKey(s, k)
  BY <1>1, <1>3 DEF Whole!RemoveKey, RemoveKey
<1>6. \A n, c : Whole!Split(n, c) = Split(n, c)
  BY SameNodes DEF Whole!Split, Split
<1>7. \A s, i, u : Whole!AfterInsert(s, i, u) = AfterInsert(s, i, u)
  BY <1>1, <1>3 DEF Whole!AfterInsert, AfterInsert
<1>. QED
  BY <1>1, <1>2, <1>4, <1>5, <1>6, <1>7

\* An underflow is repaired alike.
LEMMA SameRepairs ==
  /\ \A s : Whole!HasSibling(s) = HasSibling(s)
  /\ \A s, i, c : Whole!SiblingsRead(s, i, c) = SiblingsRead(s, i, c)
  /\ \A s, i, c : Whole!HandleUnderflow(s, i, c) = HandleUnderflow(s, i, c)
<1>1. \A s, i, c : Whole!CanLend(s, i, c) = CanLend(s, i, c)
  BY SameNodes DEF Whole!CanLend, CanLend
<1>2. \A s, i, c : Whole!SiblingsRead(s, i, c) = SiblingsRead(s, i, c)
  BY <1>1 DEF Whole!SiblingsRead, SiblingsRead
<1>3. \A s, i : Whole!BorrowFromLeft(s, i) = BorrowFromLeft(s, i)
  BY SameNodes DEF Whole!BorrowFromLeft, BorrowFromLeft, Whole!Front, Front, Whole!Last, Last
<1>4. \A s, i : Whole!BorrowFromRight(s, i) = BorrowFromRight(s, i)
  BY SameNodes DEF Whole!BorrowFromRight, BorrowFromRight
<1>5. \A s, i : Whole!MergeWithNext(s, i) = MergeWithNext(s, i)
  BY SameNodes DEF Whole!MergeWithNext, MergeWithNext, Whole!RemoveAt, RemoveAt
<1>6. \A s, i, c : Whole!HandleUnderflow(s, i, c) = HandleUnderflow(s, i, c)
  BY <1>1, <1>3, <1>4, <1>5 DEF Whole!HandleUnderflow, HandleUnderflow
<1>. QED
  BY <1>2, <1>6 DEF Whole!HasSibling, HasSibling
-----------------------------------------------------------------------------
(***************************************************************************)
(* A step over the store is the step over all chunks: what it loads was    *)
(* stored, and it stores the same.                                         *)
(***************************************************************************)
Recorded == store \subseteq made /\ made' = made \cup store'

\* A call that returns here returns there, with the same outcome.
LEMMA WholeReturn ==
  ASSUME NEW request, NEW out, Return(request, out)
  PROVE  Whole!Return(request, out)
  BY DEF Return, Whole!Return, Whole!NoCall, NoCall

\* The root is set alike.
LEMMA WholeSetRoot ==
  ASSUME NEW hash, SetRoot(hash)
  PROVE  Whole!SetRoot(hash)
  BY DEF SetRoot, Whole!SetRoot

\* A descent starts at the same root.
LEMMA WholeStart ==
  ASSUME NEW request, StartDescent(request)
  PROVE  Whole!StartDescent(request)
  BY DEF StartDescent, Whole!StartDescent, Whole!gcVars, treeVars, Whole!treeVars

\* What is stored here is recorded there.
LEMMA WholeStored ==
  ASSUME Recorded, NEW X, store' = store \cup X
  PROVE  made' = made \cup X
  BY DEF Recorded

\* The same nodes are stored and handed upwards.
LEMMA WholeAscend ==
  ASSUME Recorded, NEW nodes, StoreAndAscend(nodes)
  PROVE  Whole!StoreAndAscend(nodes)
  BY SameNodes, WholeStored DEF StoreAndAscend, Whole!StoreAndAscend, Whole!ToSet, ToSet

\* A node that can be loaded here can be loaded there: the descent is the same.
LEMMA WholeDescend ==
  ASSUME Recorded, Descend
  PROVE  Whole!Descend
  BY SameEdits DEF Recorded, Descend, Whole!Descend, treeVars, Whole!treeVars, gcVars, Whole!gcVars

\* A get or delete begins, or answers that the tree is empty, there too.
LEMMA WholeGetDelete ==
  ASSUME Recorded, NEW k, Get(k) \/ Delete(k)
  PROVE  Whole!Get(k) \/ Whole!Delete(k)
<1>1. store' = store => made' = made
  BY DEF Recorded
<1>. QED
  BY <1>1, WholeReturn, WholeStart
  DEF Get, Whole!Get, Delete, Whole!Delete, treeVars, Whole!treeVars, Whole!gcVars

\* An insert begins, or makes a tree of one leaf, there too.
LEMMA WholeInsert ==
  ASSUME Recorded, NEW k, NEW v, Insert(k, v)
  PROVE  Whole!Insert(k, v)
<1>1. CASE root = None
  <2>. DEFINE leaf == Leaf(<<[key |-> k, value |-> ValueRepr(v)]>>)
  <2>1. /\ pc = "idle" /\ store' = store \cup (ValueChunks(v) \cup {leaf}) /\ SetRoot(leaf)
        /\ Return([op |-> "insert", key |-> k, value |-> v], "changed") /\ config' = config
    BY <1>1 DEF Insert
  <2>2. leaf = Whole!Leaf(<<[key |-> k, value |-> Whole!ValueRepr(v)]>>)
    BY SameNodes, SameValues
  <2>3. made' = made \cup Whole!ValueChunks(v) \cup {leaf}
    BY <2>1, WholeStored, SameValues
  <2>. HIDE DEF leaf
  <2>4. Whole!SetRoot(leaf) /\ Whole!Return([op |-> "insert", key |-> k, value |-> v], "changed")
    BY <2>1, WholeSetRoot, WholeReturn
  <2>. QED
    BY <1>1, <2>1, <2>2, <2>3, <2>4 DEF Whole!Insert, Whole!gcVars
<1>2. CASE root # None
  <2>1. pc = "idle" /\ StartDescent([op |-> "insert", key |-> k, value |-> v])
        /\ store' = store \cup ValueChunks(v)
    BY <1>2 DEF Insert
  <2>2. made' = made \cup Whole!ValueChunks(v)
    BY <2>1, WholeStored, SameValues
  <2>. QED
    BY <1>2, <2>1, <2>2, WholeStart DEF Whole!Insert
<1>. QED
  BY <1>1, <1>2

\* A get finds there what it finds here, unless a chunk of the value is gone here.
LEMMA WholeGetAtLeaf ==
  ASSUME Recorded, GetAtLeaf
  PROVE  /\ made' = made
         /\ Whole!GetAtLeaf \/ Return(call, "ChunkNotFound")
<1>1. made' = made
  BY DEF Recorded, GetAtLeaf
<1>2. Whole!AtLeaf("get")
  BY DEF Recorded, GetAtLeaf, AtLeaf, Whole!AtLeaf
<1>3. UNCHANGED <<made, Whole!treeVars, Whole!gcVars, versions>>
  BY <1>1 DEF GetAtLeaf, treeVars, Whole!treeVars, Whole!gcVars
<1>4. pc = "descend"
  BY DEF GetAtLeaf, AtLeaf
<1>. DEFINE repr == at.entries[KeyPosition(at.entries, call.key)].value
<1>5. CASE HasKey(at.entries, call.key)
  <2>1. \/ Return(call, "ChunkNotFound")
        \/ /\ ~(repr.repr = "Chunked" /\ ~(ToSet(repr.chunk_hashes) \subseteq store))
           /\ Return(call, ValueOf(repr))
    BY <1>5 DEF GetAtLeaf
  <2>2. ASSUME ~(repr.repr = "Chunked" /\ ~(ToSet(repr.chunk_hashes) \subseteq store)),
               Return(call, ValueOf(repr))
        PROVE  Whole!GetAtLeaf
    <3>1. ~(repr.repr = "Chunked" /\ ~(Whole!ToSet(repr.chunk_hashes) \subseteq made))
      BY <2>2 DEF Recorded, ToSet, Whole!ToSet
    <3>2. Whole!HasKey(at.entries, call.key) /\ Whole!KeyPosition(at.entries, call.key)
            = KeyPosition(at.entries, call.key)
      BY <1>5, SameEdits
    <3>3. Whole!Return(call, Whole!ValueOf(repr))
      BY <2>2, SameValues, WholeReturn
    <3>. QED
      BY <1>2, <1>3, <1>4, <3>1, <3>2, <3>3 DEF Whole!GetAtLeaf
  <2>. QED
    BY <1>1, <2>1, <2>2
<1>6. CASE ~HasKey(at.entries, call.key)
  <2>1. Return(call, None)
    BY <1>6 DEF GetAtLeaf
  <2>2. Whole!Return(call, None) /\ ~Whole!HasKey(at.entries, call.key)
    BY <1>6, <2>1, SameEdits, WholeReturn
  <2>. QED
    BY <1>1, <1>2, <1>3, <1>4, <2>2 DEF Whole!GetAtLeaf
<1>. QED
  BY <1>5, <1>6

\* A key is put into the same leaf.
LEMMA WholeInsertAtLeaf ==
  ASSUME Recorded, InsertAtLeaf
  PROVE  Whole!InsertAtLeaf
<1>. DEFINE nodes == Split(Leaf(Upsert(at.entries, call.key, ValueRepr(call.value))), config)
<1>1. /\ pc = "descend" /\ call.op = "insert" /\ at \in store /\ at.kind = "Leaf"
      /\ StoreAndAscend(nodes)
      /\ UNCHANGED <<treeVars, call, path, gcVars, reply, versions>>
  BY DEF InsertAtLeaf, AtLeaf
<1>2. nodes = Whole!Split(Whole!Leaf(Whole!Upsert(at.entries, call.key,
                                                  Whole!ValueRepr(call.value))), config)
  BY SameNodes, SameEdits, SameValues
<1>. HIDE DEF nodes
<1>3. Whole!StoreAndAscend(nodes) /\ pc' = "ascend"
  BY <1>1, WholeAscend DEF StoreAndAscend
<1>4. Whole!AtLeaf("insert")
  BY <1>1 DEF Recorded, Whole!AtLeaf
<1>. QED
  BY <1>1, <1>2, <1>3, <1>4
  DEF Whole!InsertAtLeaf, treeVars, Whole!treeVars, gcVars, Whole!gcVars

\* The way back is as long there.
LEMMA WholeAscending ==
  ASSUME NEW op
  PROVE  /\ Ascending(op) => Whole!Ascending(op)
         /\ AtTop(op) => Whole!AtTop(op)
  BY DEF Ascending, Whole!Ascending, AtTop, Whole!AtTop

\* The parent takes the same entries.
LEMMA WholeInsertAscend ==
  ASSUME Recorded, InsertAscend
  PROVE  Whole!InsertAscend
<1>. DEFINE frame == Last(path)
            node  == WithSlots(frame.node, AfterInsert(frame.node.children, frame.idx, update))
            nodes == IF Len(update) = 1 THEN <<node>> ELSE Split(node, config)
<1>1. /\ Ascending("insert") /\ StoreAndAscend(nodes) /\ path' = Front(path)
      /\ UNCHANGED <<treeVars, call, gcVars, reply, versions>>
  BY DEF InsertAscend
<1>2. frame = Whole!Last(path) /\ Front(path) = Whole!Front(path)
  BY DEF Last, Whole!Last, Front, Whole!Front
<1>3. node = Whole!WithSlots(Whole!Last(path).node,
                Whole!AfterInsert(Whole!Last(path).node.children, Whole!Last(path).idx, update))
  BY <1>2, SameNodes, SameEdits
<1>. HIDE DEF node
<1>4. nodes = IF Len(update) = 1 THEN <<node>> ELSE Whole!Split(node, config)
  BY SameEdits
<1>. HIDE DEF nodes
<1>5. Whole!StoreAndAscend(nodes) /\ pc = "ascend" /\ pc' = "ascend"
  BY <1>1, WholeAscend DEF StoreAndAscend, Ascending
<1>. QED
  BY <1>1, <1>2, <1>3, <1>4, <1>5, WholeAscending
  DEF Whole!InsertAscend, treeVars, Whole!treeVars, gcVars, Whole!gcVars

\* An insert ends with the same root and the same outcome.
LEMMA WholeInsertAtTop ==
  ASSUME Recorded, InsertAtTop
  PROVE  Whole!InsertAtTop
<1>. DEFINE newRoot == IF Len(update) = 1 THEN update[1].child_hash
                       ELSE Internal(Level(update[1].child_hash) + 1, update)
            out     == IF newRoot # root THEN "changed" ELSE "unchanged"
<1>1. /\ AtTop("insert") /\ store' = store \cup {newRoot} /\ SetRoot(newRoot)
      /\ Return(call, out) /\ UNCHANGED <<config, gcVars>>
  BY DEF InsertAtTop
<1>2. newRoot = IF Len(update) = 1 THEN update[1].child_hash
                ELSE Whole!Internal(Whole!Level(update[1].child_hash) + 1, update)
  BY SameNodes
<1>. HIDE DEF newRoot
<1>3. Whole!SetRoot(newRoot) /\ Whole!Return(call, out) /\ pc = "ascend"
  BY <1>1, WholeSetRoot, WholeReturn DEF AtTop
<1>4. made' = made \cup {newRoot}
  BY <1>1, WholeStored
<1>. QED
  BY <1>1, <1>2, <1>3, <1>4, WholeAscending DEF Whole!InsertAtTop, Whole!gcVars

\* A key that is not in its leaf here is not there either.
LEMMA WholeDeleteNotFound ==
  ASSUME Recorded, DeleteNotFound
  PROVE  Whole!DeleteNotFound
<1>1. /\ pc = "descend" /\ call.op = "delete" /\ at \in store /\ at.kind = "Leaf"
      /\ ~Whole!HasKey(at.entries, call.key)
      /\ Whole!Return(call, "absent") /\ made' = made
  BY SameEdits, WholeReturn DEF DeleteNotFound, AtLeaf, Recorded
<1>2. Whole!AtLeaf("delete")
  BY <1>1 DEF Recorded, Whole!AtLeaf
<1>. QED
  BY <1>1, <1>2 DEF Whole!DeleteNotFound, DeleteNotFound, treeVars, Whole!treeVars, Whole!gcVars

\* A key is taken out of the same leaf.
LEMMA WholeDeleteAtLeaf ==
  ASSUME Recorded, DeleteAtLeaf
  PROVE  Whole!DeleteAtLeaf
<1>. DEFINE rest  == RemoveKey(at.entries, call.key)
            nodes == IF rest = <<>> THEN <<>> ELSE <<Leaf(rest)>>
<1>1. /\ pc = "descend" /\ call.op = "delete" /\ at \in store /\ at.kind = "Leaf"
      /\ Whole!HasKey(at.entries, call.key) /\ StoreAndAscend(nodes)
      /\ UNCHANGED <<treeVars, call, path, gcVars, reply, versions>>
  BY SameEdits DEF DeleteAtLeaf, AtLeaf
<1>2. rest = Whole!RemoveKey(at.entries, call.key)
  BY SameEdits
<1>. HIDE DEF rest
<1>3. nodes = IF rest = <<>> THEN <<>> ELSE <<Whole!Leaf(rest)>>
  BY SameNodes
<1>. HIDE DEF nodes
<1>4. Whole!StoreAndAscend(nodes) /\ pc' = "ascend"
  BY <1>1, WholeAscend DEF StoreAndAscend
<1>5. Whole!AtLeaf("delete")
  BY <1>1 DEF Recorded, Whole!AtLeaf
<1>. QED
  BY <1>1, <1>2, <1>3, <1>4, <1>5
  DEF Whole!DeleteAtLeaf, treeVars, Whole!treeVars, gcVars, Whole!gcVars

\* A child that vanishes here vanishes there.
LEMMA WholeDeleteChildGone ==
  ASSUME Recorded, DeleteChildGone
  PROVE  Whole!DeleteChildGone
<1>. DEFINE frame == Last(path)
            rest  == RemoveAt(frame.node.children, frame.idx)
            nodes == IF rest = <<>> THEN <<>> ELSE <<WithSlots(frame.node, rest)>>
<1>1. /\ Ascending("delete") /\ update = <<>> /\ StoreAndAscend(nodes) /\ path' = Front(path)
      /\ UNCHANGED <<treeVars, call, gcVars, reply, versions>>
  BY DEF DeleteChildGone
<1>2. frame = Whole!Last(path) /\ Front(path) = Whole!Front(path)
  BY DEF Last, Whole!Last, Front, Whole!Front
<1>3. rest = Whole!RemoveAt(Whole!Last(path).node.children, Whole!Last(path).idx)
  BY <1>2 DEF RemoveAt, Whole!RemoveAt
<1>. HIDE DEF rest
<1>4. nodes = IF rest = <<>> THEN <<>> ELSE <<Whole!WithSlots(Whole!Last(path).node, rest)>>
  BY <1>2, SameNodes
<1>. HIDE DEF nodes
<1>5. Whole!StoreAndAscend(nodes) /\ pc = "ascend" /\ pc' = "ascend"
  BY <1>1, WholeAscend DEF StoreAndAscend, Ascending
<1>. QED
  BY <1>1, <1>2, <1>3, <1>4, <1>5, WholeAscending
  DEF Whole!DeleteChildGone, treeVars, Whole!treeVars, gcVars, Whole!gcVars

\* The parent of a rewritten child is the same.
LEMMA SameRewritten ==
  /\ Whole!Last(path) = Last(path)
  /\ Whole!Front(path) = Front(path)
  /\ Whole!Rewritten = Rewritten
  BY DEF Rewritten, Whole!Rewritten, Last, Whole!Last, Front, Whole!Front

\* A child that is large enough here is there.
LEMMA WholeDeleteAscend ==
  ASSUME Recorded, DeleteAscend
  PROVE  Whole!DeleteAscend
<1>. DEFINE node == WithSlots(Last(path).node, Rewritten)
<1>1. /\ Ascending("delete") /\ update # <<>>
      /\ ~IsUnderflow(update[1].child_hash, config)
      /\ StoreAndAscend(<<node>>) /\ path' = Front(path)
      /\ UNCHANGED <<treeVars, call, gcVars, reply, versions>>
  BY DEF DeleteAscend
<1>2. node = Whole!WithSlots(Whole!Last(path).node, Whole!Rewritten)
  BY SameRewritten, SameNodes
<1>. HIDE DEF node
<1>3. Whole!StoreAndAscend(<<node>>) /\ pc = "ascend" /\ pc' = "ascend"
  BY <1>1, WholeAscend DEF StoreAndAscend, Ascending
<1>4. ~Whole!IsUnderflow(update[1].child_hash, config) /\ path' = Whole!Front(path)
  BY <1>1, SameNodes, SameRewritten
<1>. QED
  BY <1>1, <1>2, <1>3, <1>4, WholeAscending
  DEF Whole!DeleteAscend, treeVars, Whole!treeVars, gcVars, Whole!gcVars

\* A child that is too small here is there.
LEMMA WholeUnderflows ==
  ASSUME ChildUnderflows
  PROVE  Whole!ChildUnderflows /\ pc = "ascend"
  BY SameNodes, WholeAscending DEF ChildUnderflows, Whole!ChildUnderflows, Ascending

\* Siblings that can be loaded here are those borrowed from or merged there.
LEMMA WholeDeleteRebalance ==
  ASSUME Recorded, DeleteRebalance
  PROVE  Whole!DeleteRebalance
<1>. DEFINE children == HandleUnderflow(Rewritten, Last(path).idx, config)
            node     == WithSlots(Last(path).node, children)
            remade   == {c.child_hash : c \in ToSet(children)}
                          \ {c.child_hash : c \in ToSet(Rewritten)}
<1>1. /\ ChildUnderflows /\ HasSibling(Rewritten)
      /\ SiblingsRead(Rewritten, Last(path).idx, config) \subseteq store
      /\ store' = store \cup remade \cup {node}
      /\ update' = <<EntryFor(node)>>
      /\ path' = Front(path)
      /\ UNCHANGED <<treeVars, pc, call, at, gcVars, reply, versions>>
  BY DEF DeleteRebalance
<1>2. children = Whole!HandleUnderflow(Whole!Rewritten, Whole!Last(path).idx, config)
  BY SameRewritten, SameRepairs
<1>. HIDE DEF children
<1>3. node = Whole!WithSlots(Whole!Last(path).node, children)
  BY SameRewritten, SameNodes
<1>4. remade = {c.child_hash : c \in Whole!ToSet(children)}
                 \ {c.child_hash : c \in Whole!ToSet(Whole!Rewritten)}
  BY SameRewritten DEF ToSet, Whole!ToSet
<1>. HIDE DEF node, remade
<1>5. made' = made \cup remade \cup {node}
  BY <1>1 DEF Recorded
<1>6. /\ Whole!HasSibling(Whole!Rewritten)
      /\ Whole!SiblingsRead(Whole!Rewritten, Whole!Last(path).idx, config) \subseteq made
  BY <1>1, SameRewritten, SameRepairs DEF Recorded
<1>7. update' = <<Whole!EntryFor(node)>> /\ path' = Whole!Front(path)
  BY <1>1, SameNodes, SameRewritten
<1>. QED
  BY <1>1, <1>2, <1>3, <1>4, <1>5, <1>6, <1>7, WholeUnderflows
  DEF Whole!DeleteRebalance, treeVars, Whole!treeVars, gcVars, Whole!gcVars

\* A child without sibling has none there: the call fails in both trees.
LEMMA WholeNoSibling ==
  ASSUME Recorded, NoSibling
  PROVE  Whole!NoSibling
<1>1. ChildUnderflows /\ ~HasSibling(Rewritten) /\ Fail("InternalError")
  BY DEF NoSibling
<1>2. Whole!ChildUnderflows /\ pc = "ascend" /\ ~Whole!HasSibling(Whole!Rewritten)
  BY <1>1, SameRewritten, SameRepairs, WholeUnderflows
<1>3. /\ Whole!Return(call, "InternalError") /\ made' = made
      /\ UNCHANGED <<treeVars, gcVars, versions>>
  BY <1>1, WholeReturn DEF Fail, Recorded
<1>. QED
  BY <1>2, <1>3
  DEF Whole!NoSibling, Whole!Fail, treeVars, Whole!treeVars, gcVars, Whole!gcVars

\* A delete ends with the same root.
LEMMA WholeDeleteAtTop ==
  ASSUME Recorded, DeleteAtTop
  PROVE  Whole!DeleteAtTop
<1>. DEFINE hash == IF update = <<>> THEN None ELSE Collapse(update[1].child_hash)
<1>1. /\ AtTop("delete") /\ pc = "ascend" /\ SetRoot(hash) /\ Return(call, "deleted")
      /\ made' = made /\ config' = config
  BY DEF DeleteAtTop, AtTop, Recorded
<1>2. hash = IF update = <<>> THEN None ELSE Whole!Collapse(update[1].child_hash)
  BY DEF Collapse, Whole!Collapse
<1>. HIDE DEF hash
<1>3. Whole!AtTop("delete") /\ Whole!SetRoot(hash) /\ Whole!Return(call, "deleted")
  BY <1>1, WholeAscending, WholeSetRoot, WholeReturn
<1>. QED
  BY <1>1, <1>2, <1>3 DEF Whole!DeleteAtTop, Whole!gcVars

\* A version that can be checked out here can be there.
LEMMA WholeCheckout ==
  ASSUME Recorded, NEW h, Checkout(h)
  PROVE  Whole!Checkout(h)
<1>1. /\ h = None \/ h \in made
      /\ Whole!SetRoot(h)
      /\ Whole!Return([op |-> "checkout", hash |-> h], IF h # root THEN "changed" ELSE "unchanged")
  BY WholeSetRoot, WholeReturn DEF Recorded, Checkout
<1>2. pc = "idle" /\ made' = made /\ config' = config
  BY DEF Checkout, Recorded
<1>. QED
  BY <1>1, <1>2 DEF Whole!Checkout, Whole!gcVars

\* A load that loses chunks is one that loses none there.
LEMMA WholeLoad ==
  ASSUME Recorded, NEW h, NEW c, NEW lost, Load(h, c, lost)
  PROVE  Whole!Load(h, c, {})
<1>1. pc = "idle" /\ made' = made /\ config' = c /\ made \ {} = made
  BY DEF Load, Recorded
<1>2. /\ h = None \/ h \in made
      /\ Whole!SetRoot(h)
      /\ Whole!Return([op |-> "load", hash |-> h], "loaded")
  BY WholeSetRoot, WholeReturn DEF Recorded, Load
<1>. QED
  BY <1>1, <1>2 DEF Whole!Load, Whole!gcVars
-----------------------------------------------------------------------------
(***************************************************************************)
(* What holds of a tree with losses.                                       *)
(***************************************************************************)
\* A collection is between the live roots and what they reach in the store.
Collecting ==
  pc = "mark" =>
    /\ call.op = "gc"
    /\ root # None => root \in call.live
    /\ call.live \cap store \subseteq marked \cup queue

LossyInv ==
  /\ store \subseteq made
  /\ Whole!Inductive
  /\ Whole!KeepingOrder
  /\ Whole!KeepingMap
  /\ Collecting

\* A step of the tree that lost nothing.
LEMMA WholeStepKeeps ==
  ASSUME Whole!Inductive, Whole!KeepingOrder, Whole!KeepingMap, [Whole!Next]_(Whole!vars)
  PROVE  Whole!Inductive' /\ Whole!KeepingOrder' /\ Whole!KeepingMap'
  BY Whole!NextInductive, Whole!NextInOrder, Whole!NextKeepsMap

\* A call that gives up, or one the other tree knows nothing of.
LEMMA WholeReturnKeeps ==
  ASSUME Whole!Inductive, Whole!KeepingOrder, Whole!KeepingMap,
         NEW request, NEW out, Return(request, out), UNCHANGED <<made, root, config, versions>>
  PROVE  Whole!Inductive' /\ Whole!KeepingOrder' /\ Whole!KeepingMap'
<1>1. Whole!Return(request, out) /\ pc' = "idle" /\ path' = <<>>
  BY WholeReturn DEF Return
<1>2. Whole!Inductive'
  BY <1>1, Whole!QuietReturnInductive DEF Whole!treeVars, Whole!gcVars
<1>3. Whole!KeepingOrder'
  BY <1>1, Whole!StoreLessInOrder
<1>4. Whole!KeepingMap'
  BY <1>1, Whole!QuietKeepsMap
<1>. QED
  BY <1>2, <1>3, <1>4

\* The steps of a collection are none of the other tree.
LEMMA CollectionStutters ==
  ASSUME Whole!Inductive, Recorded,
         (\E keep : Collect(keep)) \/ (\E h : Mark(h)) \/ UNCHANGED vars
  PROVE  UNCHANGED Whole!vars
<1>1. pc = "idle" => call = NoCall
  BY DEF Whole!Inductive, Whole!TypeOK, Whole!NoCall, NoCall
<1>2. store' = store /\ made' = made
  BY DEF Collect, Mark, vars, Recorded
<1>. QED
  BY <1>1, <1>2
  DEF Collect, Mark, vars, treeVars, walkVars, gcVars, Whole!vars, Whole!treeVars,
      Whole!walkVars, Whole!gcVars

\* A step of a call is that step of the other tree, or the call gives up.
LEMMA EveryStepIsWhole ==
  ASSUME Recorded, Step, ~(\E h \in queue : Mark(h)), ~Sweep
  PROVE  \/ Whole!Step
         \/ /\ \E out : Return(call, out)
            /\ UNCHANGED <<made, root, config, versions>>
<1>1. CASE Descend \/ InsertAtLeaf \/ InsertAscend \/ InsertAtTop
  BY <1>1, WholeDescend, WholeInsertAtLeaf, WholeInsertAscend, WholeInsertAtTop DEF Whole!Step
<1>2. CASE DeleteNotFound \/ DeleteAtLeaf \/ DeleteChildGone \/ DeleteAscend
  BY <1>2, WholeDeleteNotFound, WholeDeleteAtLeaf, WholeDeleteChildGone, WholeDeleteAscend
  DEF Whole!Step
<1>3. CASE DeleteRebalance \/ NoSibling \/ DeleteAtTop
  BY <1>3, WholeDeleteRebalance, WholeNoSibling, WholeDeleteAtTop DEF Whole!Step
<1>4. CASE NodeMissing \/ SiblingMissing
  BY <1>4 DEF NodeMissing, SiblingMissing, Fail, Recorded, treeVars
<1>5. CASE GetAtLeaf
  <2>1. UNCHANGED <<root, config, versions>>
    BY <1>5 DEF GetAtLeaf, treeVars
  <2>. QED
    BY <1>5, <2>1, WholeGetAtLeaf DEF Whole!Step
<1>. QED
  BY <1>1, <1>2, <1>3, <1>4, <1>5 DEF Step

\* So is each call that begins, but a load of what is left and a failed checkout.
LEMMA EveryCallIsWhole ==
  ASSUME Recorded, Call \/ PartialLoad, ~(\E keep : Collect(keep))
  PROVE  \/ Whole!Call
         \/ \E h \in versions : CheckoutMissing(h)
<1>1. ASSUME NEW k \in Keys, Get(k) \/ Delete(k)
      PROVE  Whole!Call
  BY <1>1, WholeGetDelete DEF Whole!Call
<1>2. ASSUME NEW k \in Keys, NEW v \in Values, Insert(k, v)
      PROVE  Whole!Call
  BY <1>2, WholeInsert DEF Whole!Call
<1>3. ASSUME NEW h \in versions, Checkout(h)
      PROVE  Whole!Call
  BY <1>3, WholeCheckout DEF Whole!Call
<1>4. ASSUME NEW h \in versions, NEW c \in Configs, NEW lost, Load(h, c, lost)
      PROVE  Whole!Call
  BY <1>4, WholeLoad DEF Whole!Call
<1>. QED
  BY <1>1, <1>2, <1>3, <1>4 DEF Call, PartialLoad

\* Each step of a collection leaves it there.
LEMMA CollectingKept ==
  ASSUME Collecting, [LossyNext]_vars
  PROVE  Collecting'
<1>1. CASE pc' # "mark"
  BY <1>1 DEF Collecting
<1>2. CASE UNCHANGED vars
  BY <1>2 DEF vars, treeVars, walkVars, gcVars, Collecting
<1>3. ASSUME NEW keep, Collect(keep)
      PROVE  Collecting'
  BY <1>3 DEF Collect, LiveRoots, Collecting, treeVars
<1>4. ASSUME NEW h, Mark(h)
      PROVE  Collecting'
  BY <1>4 DEF Mark, Collecting, treeVars, walkVars
<1>5. CASE pc' = "mark" /\ LossyNext /\ ~(\E keep : Collect(keep)) /\ ~(\E h : Mark(h))
  <2>1. ~Call /\ ~PartialLoad
    BY <1>5 DEF Call, PartialLoad, Get, Delete, Insert, Checkout, CheckoutMissing, Load,
       Return, StartDescent
  <2>2. ~(Descend \/ NodeMissing \/ GetAtLeaf \/ InsertAtLeaf \/ InsertAscend \/ InsertAtTop)
    BY <1>5 DEF Descend, NodeMissing, Fail, Return, GetAtLeaf, InsertAtLeaf, StoreAndAscend,
       InsertAscend, InsertAtTop
  <2>3. ~(DeleteNotFound \/ DeleteAtLeaf \/ DeleteChildGone \/ DeleteAscend \/ DeleteRebalance)
    BY <1>5 DEF DeleteNotFound, DeleteAtLeaf, DeleteChildGone, DeleteAscend, DeleteRebalance,
       ChildUnderflows, Ascending, StoreAndAscend, Return
  <2>4. ~(SiblingMissing \/ NoSibling \/ DeleteAtTop \/ Sweep)
    BY <1>5 DEF SiblingMissing, NoSibling, Fail, DeleteAtTop, Sweep, Return
  <2>. QED
    BY <1>5, <2>1, <2>2, <2>3, <2>4 DEF LossyNext, Next, Step
<1>. QED
  BY <1>1, <1>2, <1>3, <1>4, <1>5

\* Each step of the lossy tree keeps what its whole twin keeps.
LEMMA LossyInvKept ==
  ASSUME LossyInv, [LossyNext]_vars, made' = made \cup store'
  PROVE  LossyInv'
<1>1. Recorded /\ store' \subseteq made'
  BY DEF LossyInv, Recorded
<1>2. Collecting'
  BY CollectingKept DEF LossyInv
<1>3. CASE (\E keep : Collect(keep)) \/ (\E h : Mark(h)) \/ UNCHANGED vars
  BY <1>1, <1>2, <1>3, CollectionStutters, WholeStepKeeps DEF LossyInv
<1>4. CASE Sweep \/ \E h \in versions : CheckoutMissing(h)
  <2>1. store' \subseteq store
    BY <1>4 DEF Sweep, CheckoutMissing
  <2>2. /\ \E request, out : Return(request, out)
        /\ UNCHANGED <<made, root, config, versions>>
    BY <1>1, <1>4, <2>1 DEF Sweep, CheckoutMissing, treeVars, Recorded
  <2>. QED
    BY <1>1, <1>2, <2>2, WholeReturnKeeps DEF LossyInv
<1>5. CASE /\ LossyNext
           /\ ~(\E keep : Collect(keep)) /\ ~(\E h : Mark(h))
           /\ ~Sweep /\ ~(\E h \in versions : CheckoutMissing(h))
  <2>1. Whole!Call \/ Whole!Step => [Whole!Next]_(Whole!vars)
    BY DEF Whole!Next
  <2>2. CASE Whole!Call \/ Whole!Step
    BY <1>1, <1>2, <2>1, <2>2, WholeStepKeeps DEF LossyInv
  <2>3. CASE (\E out : Return(call, out)) /\ UNCHANGED <<made, root, config, versions>>
    BY <1>1, <1>2, <2>3, WholeReturnKeeps DEF LossyInv
  <2>. QED
    BY <1>1, <1>5, <2>2, <2>3, EveryStepIsWhole, EveryCallIsWhole DEF LossyNext, Next
<1>. QED
  BY <1>3, <1>4, <1>5

\* It holds of a new tree.
LEMMA LossyInvInit ==
  ASSUME Init, made = store
  PROVE  LossyInv
<1>1. Whole!Init
  BY DEF Init, Whole!Init, Whole!NoCall, NoCall, Whole!NoReply, NoReply
<1>2. Whole!Inductive /\ Whole!KeepingOrder /\ Whole!KeepingMap
  BY <1>1, Whole!InitInductive, Whole!InitInOrder, Whole!InitKeepsMap
<1>. QED
  BY <1>2 DEF LossyInv, Collecting, Init

(***************************************************************************)
(* Whatever was lost, the tree that lost nothing is in the same step of    *)
(* the same call, and all that is proved of complete trees holds of it:    *)
(* types, closure, balance, exact entries, order, and the map it stores.   *)
(***************************************************************************)
THEOREM LossyInvHolds == LossySpec /\ Recording => []LossyInv
<1>1. Init /\ made = store => LossyInv
  BY LossyInvInit
<1>2. LossyInv /\ [LossyNext]_vars /\ [made' = made \cup store']_<<vars, made>> => LossyInv'
  <2>. SUFFICES ASSUME LossyInv, [LossyNext]_vars, [made' = made \cup store']_<<vars, made>>
                PROVE  LossyInv'
    OBVIOUS
  <2>1. CASE made' = made \cup store'
    BY <2>1, LossyInvKept
  <2>2. CASE UNCHANGED <<vars, made>>
    <3>1. made' = made \cup store'
      BY <2>2 DEF LossyInv, vars
    <3>. QED
      BY <3>1, LossyInvKept
  <2>. QED
    BY <2>1, <2>2
<1>. QED
  BY <1>1, <1>2, PTL DEF LossySpec, Recording
-----------------------------------------------------------------------------
(***************************************************************************)
(* Whatever was lost, the current tree can be searched.                    *)
(***************************************************************************)
\* What lies below a node, and whether it is in order, is the same of both trees.
LEMMA SameBelow ==
  /\ \A n : Whole!Descendants(n) = Descendants(n)
  /\ \A s : Whole!InOrder(s) = InOrder(s)
  /\ \A n : Whole!EntriesUpToDate(n) = EntriesUpToDate(n)
  /\ \A n : Whole!ChildrenOneLevelDown(n) = ChildrenOneLevelDown(n)
<1>1. \A n : Whole!Descendants(n) = Descendants(n)
  <2>1. \A nodes : Whole!ChildrenOf(nodes) = ChildrenOf(nodes)
    BY DEF Whole!ChildrenOf, ChildrenOf, Whole!ToSet, ToSet
  <2>. QED
    BY <2>1 DEF Whole!Descendants, Descendants
<1>2. \A n : Whole!LowKey(n) = LowKey(n)
  <2>1. \A n : Whole!LeftEdge(n) = LeftEdge(n)
    BY DEF Whole!LeftEdge, LeftEdge
  <2>. QED
    BY <2>1, SameNodes DEF Whole!LowKey, LowKey
<1>3. \A s : Whole!LowestKey(s) = LowestKey(s) /\ Whole!HighestKey(s) = HighestKey(s)
  BY <1>2 DEF Whole!LowestKey, LowestKey, Whole!HighestKey, HighestKey
<1>4. \A s : Whole!InOrder(s) = InOrder(s)
  BY <1>3 DEF Whole!InOrder, InOrder
<1>5. \A n : Whole!EntriesUpToDate(n) = EntriesUpToDate(n)
  BY SameNodes DEF Whole!EntriesUpToDate, EntriesUpToDate
<1>6. \A n : Whole!ChildrenOneLevelDown(n) = ChildrenOneLevelDown(n)
  BY SameNodes DEF Whole!ChildrenOneLevelDown, ChildrenOneLevelDown
<1>. QED
  BY <1>1, <1>4, <1>5, <1>6

\* A tree is in order or not whatever of it can be loaded.
LEMMA SameSearchable ==
  ASSUME NEW n
  PROVE  Whole!Searchable(n) = Searchable(n)
<1>1. Whole!NodesUnder(n) = NodesUnder(n)
  BY SameNodes, SameBelow DEF Whole!NodesUnder, NodesUnder
<1>. QED
  BY <1>1, SameNodes, SameBelow DEF Whole!Searchable, Searchable

\* The tree that lost nothing has the same root.
LEMMA LossySearchable ==
  ASSUME LossyInv
  PROVE  TreeSearchable
<1>1. Whole!TreeSearchable
  BY Whole!CurrentSearchable DEF LossyInv
<1>. QED
  BY <1>1, SameSearchable DEF Whole!TreeSearchable, TreeSearchable

(***************************************************************************)
(* Edits after a load under another fanout, or of what is left of a tree,  *)
(* leave the current tree in order, with exact boundaries and counters and *)
(* its leaves at one depth, also those that fail half way.                 *)
(***************************************************************************)
THEOREM LossyTreesStaySearchable == LossySpec /\ Recording => []TreeSearchable
BY LossyInvHolds, LossySearchable, PTL
-----------------------------------------------------------------------------
(***************************************************************************)
(* Whatever was lost, a call that succeeds did to the map what it says.    *)
(***************************************************************************)
LEMMA SameMaps ==
  \A hash : Whole!MapOf(hash) = MapOf(hash)
<1>1. \A n : Whole!StoredIn(n) = StoredIn(n)
  BY SameNodes, SameBelow DEF Whole!StoredIn, StoredIn, Whole!ToSet, ToSet
<1>. QED
  BY <1>1, SameValues DEF Whole!MapOf, MapOf

\* What an access of the other tree does to the map and answers, it does here.
LEMMA AccessIsSame ==
  ASSUME Whole!Versioned!VersionedNext \/ Whole!Versioned!Reshaped,
         reply'.request.op \in {"get", "insert", "delete"},
         store \subseteq store', versions \subseteq versions'
  PROVE  Versioned!VersionedNext \/ Versioned!Reshaped
<1>1. MapOf(root) = Whole!MapOf(root) /\ MapOf(root)' = Whole!MapOf(root)'
  BY SameMaps
<1>2. /\ [v \in versions |-> MapOf(v)] = [v \in versions |-> Whole!MapOf(v)]
      /\ [v \in versions |-> MapOf(v)]' = [v \in versions |-> Whole!MapOf(v)]'
  BY SameMaps
<1>3. ((versions \cap store) \cup {None}) \subseteq ((versions \cap store) \cup {None})'
  OBVIOUS
<1>4. \A m : Whole!Versioned!Become(m) => Versioned!Become(m)
  BY <1>1, <1>2 DEF Whole!Versioned!Become, Versioned!Become, Whole!Versioned!Put, Versioned!Put
<1>5. \A request, out : Whole!Versioned!Replies(request, out) => Versioned!Replies(request, out)
  BY DEF Whole!Versioned!Replies, Versioned!Replies
<1>6. CASE Whole!Versioned!Reshaped
  <2>1. Versioned!Reshaped
    BY <1>1, <1>3, <1>4, <1>5, <1>6 DEF Whole!Versioned!Reshaped, Versioned!Reshaped
  <2>. QED
    BY <2>1
<1>7. CASE Whole!Versioned!Access /\ Whole!Versioned!Edited
  <2>1. Versioned!Edited
    BY <1>1, <1>3, <1>4, <1>7 DEF Whole!Versioned!Edited, Versioned!Edited
  <2>2. \A k : Whole!Versioned!Get(k) => Versioned!Get(k)
    BY <1>1, <1>5 DEF Whole!Versioned!Get, Versioned!Get
  <2>3. \A k : Whole!Versioned!Delete(k) => Versioned!Delete(k)
    BY <1>1, <1>5 DEF Whole!Versioned!Delete, Versioned!Delete, Whole!Versioned!Restrict,
                      Versioned!Restrict
  <2>4. \A k, v : Whole!Versioned!Insert(k, v) => Versioned!Insert(k, v)
    BY <1>1, <1>5 DEF Whole!Versioned!Insert, Versioned!Insert, Whole!Versioned!Put, Versioned!Put
  <2>5. Versioned!Access
    BY <1>7, <2>2, <2>3, <2>4 DEF Whole!Versioned!Access, Versioned!Access
  <2>. QED
    BY <2>1, <2>5 DEF Versioned!VersionedNext
<1>8. CASE Whole!Versioned!Reappear
  <2>1. Versioned!Reappear
    BY <1>1, <1>2, <1>3, <1>8
    DEF Whole!Versioned!Reappear, Versioned!Reappear, Whole!Versioned!mapVars, Versioned!mapVars
  <2>. QED
    BY <2>1 DEF Versioned!VersionedNext
<1>9. ASSUME NEW op \in {"checkout", "load"}, NEW v, NEW out
      PROVE  ~Whole!Versioned!Replies([op |-> op, hash |-> v], out)
  BY DEF Whole!Versioned!Replies
<1>10. ~Whole!Versioned!Collect
  BY DEF Whole!Versioned!Collect
<1>11. \A v : ~(Whole!Versioned!Checkout(v) \/ Whole!Versioned!CheckoutGone(v) \/ Whole!Versioned!Load(v))
  BY <1>9 DEF Whole!Versioned!Checkout, Whole!Versioned!CheckoutGone, Whole!Versioned!Load,
              Whole!Versioned!Switch
<1>. QED
  BY <1>6, <1>7, <1>8, <1>10, <1>11 DEF Whole!Versioned!VersionedNext

\* A call that fails on the way changes nothing.
LEMMA FailedMaps ==
  ASSUME call.op \in {"get", "insert", "delete"}, UNCHANGED <<store, root, versions>>,
         NEW error \in {"ChunkNotFound", "InternalError"}, Return(call, error)
  PROVE  Versioned!Failed
<1>1. reply'.request = call /\ reply'.out = error
  BY DEF Return
<1>2. UNCHANGED <<MapOf(root), root, [v \in versions |-> MapOf(v)], (versions \cap store) \cup {None}>>
  OBVIOUS
<1>. QED
  BY <1>1, <1>2 DEF Versioned!Failed

\* A get or delete that begins changes no map, and one of an empty tree answers.
LEMMA LossyGetDeleteMaps ==
  ASSUME LossyInv, Recorded, NEW k \in Keys, Get(k) \/ Delete(k)
  PROVE  Versioned!VersionedNext \/ Versioned!Reshaped
<1>1. CASE root # None
  BY <1>1, QuietStep DEF Get, Delete, StartDescent, treeVars, Versioned!VersionedNext
<1>2. CASE root = None
  <2>1. Whole!Versioned!VersionedNext
    BY WholeGetDelete, Whole!GetDeleteMaps DEF LossyInv
  <2>2. reply'.request.op \in {"get", "insert", "delete"} /\ UNCHANGED <<store, versions>>
    BY <1>2 DEF Get, Delete, Return
  <2>. QED
    BY <2>1, <2>2, AccessIsSame
<1>. QED
  BY <1>1, <1>2

\* An insert into an empty tree makes a map of one key.
LEMMA LossyInsertMaps ==
  ASSUME LossyInv, Recorded, ~IsNode(None), NEW k \in Keys, NEW v \in Values, Insert(k, v)
  PROVE  Versioned!VersionedNext \/ Versioned!Reshaped
<1>1. CASE root # None
  BY <1>1, QuietStep DEF Insert, StartDescent, treeVars, Versioned!VersionedNext
<1>2. CASE root = None
  <2>0. ~Whole!IsNode(None)
    BY DEF Whole!IsNode, IsNode
  <2>1. Whole!Versioned!VersionedNext
    BY <2>0, WholeInsert, Whole!InsertMaps DEF LossyInv
  <2>2. reply'.request.op \in {"get", "insert", "delete"} /\ store \subseteq store'
        /\ versions \subseteq versions'
    BY <1>2 DEF Insert, SetRoot, Return
  <2>. QED
    BY <2>1, <2>2, AccessIsSame
<1>. QED
  BY <1>1, <1>2

\* A call returns from a leaf or at the top.
LEMMA LossyReturnMaps ==
  ASSUME LossyInv, Recorded, ~IsNode(None),
         GetAtLeaf \/ DeleteNotFound \/ InsertAtTop \/ DeleteAtTop
  PROVE  Versioned!VersionedNext \/ Versioned!Reshaped \/ Versioned!Failed
<1>0. ~Whole!IsNode(None)
  BY DEF Whole!IsNode, IsNode
<1>1. /\ call.op \in {"get", "insert", "delete"} /\ reply'.request = call
      /\ store \subseteq store' /\ versions \subseteq versions'
  BY DEF GetAtLeaf, DeleteNotFound, InsertAtTop, DeleteAtTop, AtLeaf, AtTop, Return, SetRoot
<1>2. CASE GetAtLeaf /\ ~Whole!GetAtLeaf
  <2>1. Return(call, "ChunkNotFound") /\ UNCHANGED <<store, root, versions>>
    BY <1>2, WholeGetAtLeaf DEF GetAtLeaf, treeVars
  <2>. QED
    BY <1>1, <2>1, FailedMaps
<1>3. CASE Whole!GetAtLeaf \/ DeleteNotFound \/ InsertAtTop \/ DeleteAtTop
  <2>1. Whole!Versioned!VersionedNext \/ Whole!Versioned!Reshaped
    BY <1>0, <1>3, WholeDeleteNotFound, WholeInsertAtTop, WholeDeleteAtTop, Whole!GetAtLeafMaps,
       Whole!DeleteNotFoundMaps, Whole!InsertAtTopMaps, Whole!DeleteAtTopMaps DEF LossyInv
  <2>. QED
    BY <1>1, <2>1, AccessIsSame
<1>. QED
  BY <1>2, <1>3

\* A call that misses a chunk fails and leaves the map as it was.
LEMMA LossyMissingMaps ==
  ASSUME LossyInv, NodeMissing \/ SiblingMissing
  PROVE  Versioned!Failed
<1>1. call.op \in {"get", "insert", "delete"}
  BY DEF LossyInv, Whole!Inductive, Whole!TypeOK, Whole!Requests, NodeMissing, SiblingMissing,
         ChildUnderflows, Ascending
<1>2. Return(call, "ChunkNotFound") /\ UNCHANGED <<store, root, versions>>
  BY DEF NodeMissing, SiblingMissing, Fail, treeVars
<1>. QED
  BY <1>1, <1>2, FailedMaps

\* A load makes the version it names the current one.
LEMMA LossyLoadMaps ==
  ASSUME NEW h \in versions, NEW c, NEW lost, Load(h, c, lost)
  PROVE  Versioned!LossyNext
<1>1. h \in DOMAIN [v \in versions |-> MapOf(v)]
  OBVIOUS
<1>2. /\ h = None \/ h \in store
      /\ Return([op |-> "load", hash |-> h], "loaded") /\ SetRoot(h) /\ store' \subseteq store
  BY DEF Load
<1>3. Versioned!LossyLoad(h)
  BY <1>2, SwitchMaps DEF Versioned!LossyLoad
<1>. QED
  BY <1>1, <1>3 DEF Versioned!LossyNext

\* A sweep gives up versions, but none that is live, nor the current one.
LEMMA LossySweepMaps ==
  ASSUME LossyInv, Sweep
  PROVE  Versioned!VersionedNext
<1>. DEFINE available == (versions \cap store) \cup {None}
<1>1. /\ call.op = "gc" /\ queue = {} /\ store' = store \cap marked
      /\ reply' = [request |-> call, out |-> "done"] /\ UNCHANGED <<root, versions>>
      /\ call.live \cap store \subseteq marked /\ (root # None => root \in call.live)
  BY DEF Sweep, Return, treeVars, LossyInv, Collecting
<1>2. available' \subseteq available
  BY <1>1
<1>3. ASSUME NEW v \in available \cap (call.live \cup {root})
      PROVE  v \in available'
  BY <1>1, <1>3
<1>4. UNCHANGED <<MapOf(root), root, [v \in versions |-> MapOf(v)]>>
  BY <1>1
<1>5. reply'.request = call /\ reply'.out = "done"
  BY <1>1
<1>6. Versioned!Collect
  BY <1>1, <1>2, <1>3, <1>4, <1>5 DEF Versioned!Collect
<1>. QED
  BY <1>6 DEF Versioned!VersionedNext

\* Each step of the lossy tree is one of the lossy map, or none.
LEMMA LossyNextMaps ==
  ASSUME LossyInv, Recorded, ~IsNode(None), [LossyNext]_vars
  PROVE  [Versioned!LossyNext]_Versioned!versionedVars
<1>1. ASSUME Call \/ PartialLoad
      PROVE  Versioned!LossyNext
  <2>1. ASSUME NEW k \in Keys, Get(k) \/ Delete(k)
        PROVE  Versioned!LossyNext
    BY <2>1, LossyGetDeleteMaps DEF Versioned!LossyNext
  <2>2. ASSUME NEW k \in Keys, NEW v \in Values, Insert(k, v)
        PROVE  Versioned!LossyNext
    BY <2>2, LossyInsertMaps DEF Versioned!LossyNext
  <2>3. ASSUME NEW h \in versions, Checkout(h) \/ CheckoutMissing(h)
        PROVE  Versioned!LossyNext
    BY <2>3, CheckoutMaps DEF Versioned!LossyNext
  <2>4. ASSUME NEW h \in versions, NEW c, NEW lost, Load(h, c, lost)
        PROVE  Versioned!LossyNext
    BY <2>4, LossyLoadMaps
  <2>5. ASSUME NEW keep, Collect(keep)
        PROVE  Versioned!LossyNext
    BY <2>5, MiddleMaps DEF Versioned!LossyNext
  <2>. QED
    BY <1>1, <2>1, <2>2, <2>3, <2>4, <2>5 DEF Call, PartialLoad
<1>2. ASSUME Step
      PROVE  Versioned!LossyNext
  <2>1. ASSUME NEW h \in queue, Mark(h)
        PROVE  Versioned!LossyNext
    BY <2>1, MiddleMaps DEF Versioned!LossyNext
  <2>2. CASE NodeMissing \/ SiblingMissing
    BY <2>2, LossyMissingMaps DEF Versioned!LossyNext
  <2>3. CASE \/ Descend \/ InsertAtLeaf \/ InsertAscend
             \/ DeleteAtLeaf \/ DeleteChildGone \/ DeleteAscend \/ DeleteRebalance
    BY <2>3, MiddleMaps DEF Versioned!LossyNext
  <2>4. CASE GetAtLeaf \/ DeleteNotFound \/ InsertAtTop \/ DeleteAtTop
    BY <2>4, LossyReturnMaps DEF Versioned!LossyNext
  <2>5. CASE Sweep \/ NoSibling
    BY <2>5, LossySweepMaps, NoSiblingFails DEF Versioned!LossyNext
  <2>. QED
    BY <1>2, <2>1, <2>2, <2>3, <2>4, <2>5 DEF Step
<1>3. CASE UNCHANGED vars
  <2>1. UNCHANGED <<root, reply, versions, store>>
    BY <1>3 DEF vars, treeVars
  <2>2. UNCHANGED <<MapOf(root), [v \in versions |-> MapOf(v)], (versions \cap store) \cup {None}>>
    BY <2>1
  <2>. QED
    BY <2>1, <2>2 DEF Versioned!versionedVars, Versioned!mapVars
<1>. QED
  BY <1>1, <1>2, <1>3 DEF LossyNext, Next

(***************************************************************************)
(* A tree that is loaded without some of its chunks, or under another      *)
(* fanout, never serves a wrong map: each get, insert and delete does what *)
(* it says to the map under the root, or reports ChunkNotFound or a        *)
(* missing sibling and leaves root and versions as they were.              *)
(***************************************************************************)
THEOREM LossyTreeIsLossyMap ==
  ASSUME ~IsNode(None)
  PROVE  LossySpec /\ Recording => ImplementsLossy
<1>1. Init => Versioned!VersionedInit
  BY InitMaps
<1>2. LossyInv /\ [LossyNext]_vars /\ [made' = made \cup store']_<<vars, made>>
        => [Versioned!LossyNext]_Versioned!versionedVars
  <2>. SUFFICES ASSUME LossyInv, [LossyNext]_vars, [made' = made \cup store']_<<vars, made>>
                PROVE  [Versioned!LossyNext]_Versioned!versionedVars
    OBVIOUS
  <2>1. Recorded
    BY DEF LossyInv, Recorded, vars
  <2>. QED
    BY <2>1, LossyNextMaps
<1>. QED
  BY <1>1, <1>2, LossyInvHolds, PTL DEF LossySpec, Recording, ImplementsLossy, Versioned!LossySpec

\* Its counters count what it stored, of which some may be gone.
LEMMA LossyCounted ==
  ASSUME LossyInv, ~IsNode(None)
  PROVE  TreeCounted
<1>0. ~Whole!IsNode(None)
  BY DEF Whole!IsNode, IsNode
<1>1. Whole!StoreCounted
  BY <1>0, Whole!StoredNodeCounted DEF LossyInv, Whole!StoreCounted
<1>2. Whole!TreeCounted
  BY <1>1, Whole!CurrentCounted DEF LossyInv
<1>3. \A hash : Whole!CountAllItems(hash) = CountAllItems(hash)
  BY SameNodes DEF Whole!CountAllItems, CountAllItems
<1>4. \A S : Whole!Cardinality(S) = Cardinality(S)
  BY DEF Whole!Cardinality, Cardinality
<1>. QED
  BY <1>2, <1>3, <1>4, SameMaps DEF Whole!TreeCounted, TreeCounted

(***************************************************************************)
(* countAllItems still answers how many keys the version has, although     *)
(* edits split and merged nodes next to some that could not be read.       *)
(***************************************************************************)
THEOREM LossyTreesStayCounted ==
  ASSUME ~IsNode(None)
  PROVE  LossySpec /\ Recording => []TreeCounted
BY LossyInvHolds, LossyCounted, PTL

\* A map whose steps are those of a lossy one tells when its version changes.
LEMMA MapStepTells ==
  ASSUME [Versioned!LossyNext]_Versioned!versionedVars
  PROVE  RootTold
<1>1. CASE UNCHANGED Versioned!versionedVars
  BY <1>1 DEF Versioned!versionedVars, Versioned!mapVars, RootTold
<1>2. ASSUME NEW k \in Keys, Versioned!Get(k), Versioned!Edited PROVE RootTold
  <2>1. reply'.request.op = "get" /\ root' = root
    BY <1>2 DEF Versioned!Get, Versioned!Replies, Versioned!Edited
  <2>. QED BY <2>1 DEF RootTold, Tells
<1>3. ASSUME NEW k \in Keys, Versioned!Delete(k), Versioned!Edited PROVE RootTold
  <2>1. /\ reply'.request.op = "delete"
        /\ reply'.out = IF k \in DOMAIN MapOf(root) THEN "deleted" ELSE "absent"
    BY <1>3 DEF Versioned!Delete, Versioned!Replies
  <2>2. MapOf(root)' = Versioned!Restrict(MapOf(root), DOMAIN MapOf(root) \ {k})
    BY <1>3 DEF Versioned!Delete
  <2>3. MapOf(root)' = MapOf(root) => root' = root
    BY <1>3 DEF Versioned!Edited
  <2>4. CASE k \in DOMAIN MapOf(root)
    <3>1. k \notin DOMAIN Versioned!Restrict(MapOf(root), DOMAIN MapOf(root) \ {k})
      BY DEF Versioned!Restrict
    <3>2. MapOf(root)' # MapOf(root)
      BY <2>2, <2>4, <3>1
    <3>3. root' # root
      BY <3>2
    <3>. QED BY <2>1, <2>4, <3>3 DEF RootTold, Tells
  <2>5. CASE k \notin DOMAIN MapOf(root)
    <3>1. Versioned!Restrict(MapOf(root), DOMAIN MapOf(root) \ {k}) = MapOf(root)
      <4>1. MapOf(root) = [x \in DOMAIN MapOf(root) |-> MapOf(root)[x]]
        BY DEF MapOf
      <4>2. DOMAIN MapOf(root) \ {k} = DOMAIN MapOf(root)
        BY <2>5
      <4>. QED BY <4>1, <4>2 DEF Versioned!Restrict
    <3>. QED BY <2>1, <2>2, <2>3, <2>5, <3>1 DEF RootTold, Tells
  <2>. QED BY <2>4, <2>5
<1>4. ASSUME NEW k \in Keys, NEW v \in Values, Versioned!Insert(k, v), Versioned!Edited
      PROVE  RootTold
  <2>1. /\ reply'.request.op = "insert"
        /\ reply'.out = IF MapOf(root)' # MapOf(root) THEN "changed" ELSE "unchanged"
    BY <1>4 DEF Versioned!Insert, Versioned!Replies
  <2>2. MapOf(root)' = MapOf(root) => root' = root
    BY <1>4 DEF Versioned!Edited
  <2>3. root' = root => MapOf(root)' = MapOf(root)
    OBVIOUS
  <2>. QED BY <2>1, <2>2, <2>3 DEF RootTold, Tells
<1>5. CASE Versioned!Access /\ Versioned!Edited
  BY <1>2, <1>3, <1>4, <1>5 DEF Versioned!Access
<1>6. CASE Versioned!Reappear
  BY <1>6 DEF Versioned!Reappear, Versioned!mapVars, RootTold
<1>7. ASSUME NEW v, Versioned!Checkout(v) PROVE RootTold
  BY <1>7 DEF Versioned!Checkout, Versioned!Switch, Versioned!Replies, RootTold, Tells
<1>8. ASSUME NEW v, Versioned!CheckoutGone(v) PROVE RootTold
  BY <1>8 DEF Versioned!CheckoutGone, Versioned!Replies, RootTold, Tells
<1>9. ASSUME NEW v, Versioned!Load(v) \/ Versioned!LossyLoad(v) PROVE RootTold
  BY <1>9 DEF Versioned!Load, Versioned!LossyLoad, Versioned!Switch, Versioned!Replies,
              RootTold, Tells
<1>10. CASE Versioned!Collect
  BY <1>10 DEF Versioned!Collect, RootTold, Tells
<1>11. CASE Versioned!Failed
  BY <1>11 DEF Versioned!Failed, RootTold, Tells
<1>12. CASE Versioned!Reshaped
  BY <1>12 DEF Versioned!Reshaped, Versioned!Replies, RootTold, Tells
<1>. QED
  BY <1>1, <1>5, <1>6, <1>7, <1>8, <1>9, <1>10, <1>11, <1>12
     DEF Versioned!LossyNext, Versioned!VersionedNext

(***************************************************************************)
(* The outcome of a call on a tree says whether it has another root now,   *)
(* also in a tree that has lost chunks or was built with another fanout:   *)
(* PTree, which tells its listeners by the outcome, neither misses a       *)
(* change nor announces one that was none.                                 *)
(***************************************************************************)
THEOREM TreeTellsOfRoot ==
  ASSUME ~IsNode(None)
  PROVE  LossySpec /\ Recording => TellsOfRoot
<1>1. [Versioned!LossyNext]_Versioned!versionedVars => [RootTold]_vars
  BY MapStepTells
<1>. QED
  BY <1>1, LossyTreeIsLossyMap, PTL DEF ImplementsLossy, Versioned!LossySpec, TellsOfRoot
-----------------------------------------------------------------------------
(***************************************************************************)
(* A cursor on such a tree.  The cursor has its own steps, and sees those  *)
(* of the tree as changes of the root and the store.                       *)
(***************************************************************************)
VARIABLES cursor, reading, got, version, kept

Reader == INSTANCE CursorProofs

\* What the reader takes for a well formed tree is what the tree keeps.
LEMMA ReaderChunks ==
  /\ Reader!DataChunks = DataChunks
  /\ \A S : Reader!NodesIn(S) = NodesIn(S)
  /\ \A S : Reader!LeavesOver(S) = LeavesOver(S)
  /\ \A S : Reader!InternalsOver(S) = InternalsOver(S)
<1>1. \A b : Reader!Data(b) = Data(b)
  BY DEF Reader!Data, Data
<1>2. Reader!DataChunks = DataChunks
  BY <1>1 DEF Reader!DataChunks, DataChunks
<1>3. \A S : Reader!NodesIn(S) = NodesIn(S)
  BY DEF Reader!NodesIn, NodesIn, Reader!IsNode, IsNode
<1>4. \A v : Reader!ValueRepr(v) = ValueRepr(v)
  BY <1>1 DEF Reader!ValueRepr, ValueRepr, Reader!Inline, Inline, Reader!Chunked, Chunked
<1>5. \A r : Reader!ReprChunks(r) = ReprChunks(r)
  BY DEF Reader!ReprChunks, ReprChunks, Reader!ToSet, ToSet
<1>6. \A S : Reader!LeafEntries(S) = LeafEntries(S)
  BY <1>4, <1>5 DEF Reader!LeafEntries, LeafEntries
<1>7. \A S : Reader!InternalEntries(S) = InternalEntries(S)
  BY <1>3 DEF Reader!InternalEntries, InternalEntries
<1>8. \A S : Reader!LeavesOver(S) = LeavesOver(S)
  BY <1>6 DEF Reader!LeavesOver, LeavesOver
<1>9. \A S : Reader!InternalsOver(S) = InternalsOver(S)
  BY <1>7 DEF Reader!InternalsOver, InternalsOver
<1>. QED
  BY <1>2, <1>3, <1>8, <1>9

LEMMA ReaderNodes ==
  /\ \A n : Reader!Slots(n) = Slots(n)
  /\ \A n : Reader!ChildrenOneLevelDown(n) = ChildrenOneLevelDown(n)
  /\ \A n : Reader!EntriesUpToDate(n) = EntriesUpToDate(n)
  /\ \A s : Reader!InOrder(s) = InOrder(s)
<1>1. \A n : Reader!Slots(n) = Slots(n) /\ Reader!Level(n) = Level(n)
  BY DEF Reader!Slots, Slots, Reader!Level, Level
<1>2. \A c : Reader!ChildItems(c) = ChildItems(c)
  BY DEF Reader!ChildItems, ChildItems, Reader!Cardinality, Cardinality
<1>3. \A n : Reader!ItemCount(n) = ItemCount(n) /\ Reader!BoundaryKey(n) = BoundaryKey(n)
  BY <1>2 DEF Reader!ItemCount, ItemCount, Reader!BoundaryKey, BoundaryKey, Reader!Last, Last
<1>4. \A n : Reader!EntryFor(n) = EntryFor(n)
  BY <1>3 DEF Reader!EntryFor, EntryFor
<1>5. \A n : Reader!EntriesUpToDate(n) = EntriesUpToDate(n)
  BY <1>4 DEF Reader!EntriesUpToDate, EntriesUpToDate
<1>6. \A n : Reader!ChildrenOneLevelDown(n) = ChildrenOneLevelDown(n)
  BY <1>1 DEF Reader!ChildrenOneLevelDown, ChildrenOneLevelDown
<1>7. \A n : Reader!LowKey(n) = LowKey(n)
  <2>1. \A n : Reader!LeftEdge(n) = LeftEdge(n)
    BY DEF Reader!LeftEdge, LeftEdge
  <2>. QED
    BY <2>1, <1>1 DEF Reader!LowKey, LowKey
<1>8. \A s : Reader!LowestKey(s) = LowestKey(s) /\ Reader!HighestKey(s) = HighestKey(s)
  BY <1>7 DEF Reader!LowestKey, LowestKey, Reader!HighestKey, HighestKey
<1>9. \A s : Reader!InOrder(s) = InOrder(s)
  BY <1>8 DEF Reader!InOrder, InOrder
<1>. QED
  BY <1>1, <1>5, <1>6, <1>9

LEMMA ReaderFit ==
  ASSUME NEW S
  PROVE  /\ Reader!Sound(S) <=> Sound(S)
         /\ Reader!Ordered(S) <=> Ordered(S)
<1>1. Reader!BalancedOver(S) = BalancedOver(S)
  BY ReaderChunks, ReaderNodes DEF Reader!BalancedOver, BalancedOver
<1>2. Reader!Sound(S) <=> Sound(S)
  BY <1>1, ReaderChunks DEF Reader!Sound, Sound
<1>3. Reader!Ordered(S) <=> Ordered(S)
  BY ReaderChunks, ReaderNodes DEF Reader!Ordered, Ordered
<1>. QED
  BY <1>2, <1>3

\* So are the chunks that are well formed over the tree's store and over all that was made.
LEMMA SameSound ==
  ASSUME NEW S
  PROVE  Whole!Sound(S) <=> Sound(S)
<1>1. \A b : Whole!Data(b) = Data(b)
  BY DEF Whole!Data, Data
<1>2. Whole!DataChunks = DataChunks
  BY <1>1 DEF Whole!DataChunks, DataChunks
<1>3. \A n : Whole!NodesIn(n) = NodesIn(n)
  BY DEF Whole!NodesIn, NodesIn, Whole!IsNode, IsNode
<1>4. \A S1 : Whole!LeafEntries(S1) = LeafEntries(S1)
  <2>1. \A r : Whole!ReprChunks(r) = ReprChunks(r)
    BY DEF Whole!ReprChunks, ReprChunks, Whole!ToSet, ToSet
  <2>. QED
    BY <2>1, SameValues DEF Whole!LeafEntries, LeafEntries
<1>5. \A S1 : Whole!InternalEntries(S1) = InternalEntries(S1)
  BY <1>3 DEF Whole!InternalEntries, InternalEntries
<1>6. Whole!LeavesOver(S) = LeavesOver(S) /\ Whole!InternalsOver(S) = InternalsOver(S)
  BY <1>4, <1>5 DEF Whole!LeavesOver, LeavesOver, Whole!InternalsOver, InternalsOver
<1>7. Whole!BalancedOver(S) = BalancedOver(S)
  BY <1>6, SameBelow DEF Whole!BalancedOver, BalancedOver
<1>. QED
  BY <1>2, <1>7 DEF Whole!Sound, Sound

\* All that was ever stored is well formed, and holds the root, whatever was lost.
LEMMA MadeIsFit ==
  ASSUME LossyInv
  PROVE  Sound(made) /\ Ordered(made) /\ (root # None => root \in NodesIn(made))
<1>1. Whole!Sound(made) /\ Whole!StoreOrdered /\ root \in Whole!NodesIn(made) \cup {None}
  BY Whole!InductiveSound
     DEF LossyInv, Whole!Inductive, Whole!TypeOK, Whole!KeepingOrder
<1>2. \A S : Whole!NodesIn(S) = NodesIn(S)
  BY DEF Whole!NodesIn, NodesIn, Whole!IsNode, IsNode
<1>3. Ordered(made)
  BY <1>1, <1>2, SameNodes, SameBelow DEF Whole!StoreOrdered, Ordered
<1>4. Sound(made)
  BY <1>1, SameSound
<1>. QED
  BY <1>1, <1>2, <1>3, <1>4

LEMMA TreeIsFit ==
  ASSUME LossyInv
  PROVE  Reader!TreeFit
<1>1. Reader!Fit(made) /\ (root # None => root \in Reader!NodesIn(made))
  BY MadeIsFit, ReaderFit, ReaderChunks DEF Reader!Fit
<1>. QED
  BY <1>1 DEF Reader!TreeFit

(***************************************************************************)
(* A cursor on a tree that is edited, collected, checked out and loaded    *)
(* again, with or without losses, gives the entries of the version it was  *)
(* opened on, and fails only if chunks of that version were taken.         *)
(***************************************************************************)
THEOREM CursorOnTree ==
  LossySpec /\ Recording /\ Reader!CursorSpec => [](Reader!CursorFaithful /\ Reader!CursorKept)
<1>1. LossyInv => Reader!TreeFit
  BY TreeIsFit
<1>2. LossySpec /\ Recording => []Reader!TreeFit
  BY <1>1, LossyInvHolds, PTL
<1>. QED
  BY <1>2, Reader!CursorStaysFaithful, Reader!CursorStaysKept, PTL

\* Without losses the store itself is well formed.
LEMMA StoreIsFit ==
  ASSUME Inductive, KeepingOrder
  PROVE  Reader!StoreFit
<1>1. Sound(store) /\ Ordered(store) /\ root \in NodesIn(store) \cup {None}
  BY InductiveSound DEF Inductive, TypeOK, KeepingOrder, StoreOrdered, Ordered
<1>. QED
  BY <1>1, ReaderFit, ReaderChunks DEF Reader!StoreFit, Reader!Fit

(***************************************************************************)
(* On a tree that was not loaded with losses, a cursor neither fails to    *)
(* open nor fails later until a collection takes the root of its version:  *)
(* a collection that keeps that root keeps all a cursor will ask for.      *)
(***************************************************************************)
THEOREM RootKeepsCursor ==
  Spec /\ Reader!CursorSpec /\ []Reader!RootKept => [](reading \in {"none", "open", "done"})
<1>1. Inductive /\ KeepingOrder => Reader!StoreFit
  BY StoreIsFit
<1>2. Spec => []Reader!StoreFit
  BY <1>1, InductiveHolds, OrderIsKept, PTL
<1>. QED
  BY <1>2, Reader!CursorNeverFails, PTL

-----------------------------------------------------------------------------
(***************************************************************************)
(* Scans of such a tree.  Each is one step, and what happens to the tree   *)
(* happens between two of them.                                            *)
(***************************************************************************)
VARIABLES
  asked, answer,               \* the read made last, and what it gave
  pages, paged, always, ever   \* a range that is read page by page, see Paging

Scans == INSTANCE ReadsProofs WITH request <- asked, reply <- answer

\* Scans take the same for a well formed tree.
LEMMA ScansChunks ==
  /\ Scans!DataChunks = DataChunks
  /\ \A S : Scans!NodesIn(S) = NodesIn(S)
  /\ \A S : Scans!LeavesOver(S) = LeavesOver(S)
  /\ \A S : Scans!InternalsOver(S) = InternalsOver(S)
<1>1. \A b : Scans!Data(b) = Data(b)
  BY DEF Scans!Data, Data
<1>2. Scans!DataChunks = DataChunks
  BY <1>1 DEF Scans!DataChunks, DataChunks
<1>3. \A S : Scans!NodesIn(S) = NodesIn(S)
  BY DEF Scans!NodesIn, NodesIn, Scans!IsNode, IsNode
<1>4. \A v : Scans!ValueRepr(v) = ValueRepr(v)
  BY <1>1 DEF Scans!ValueRepr, ValueRepr, Scans!Inline, Inline, Scans!Chunked, Chunked
<1>5. \A r : Scans!ReprChunks(r) = ReprChunks(r)
  BY DEF Scans!ReprChunks, ReprChunks, Scans!ToSet, ToSet
<1>6. \A S : Scans!LeafEntries(S) = LeafEntries(S)
  BY <1>4, <1>5 DEF Scans!LeafEntries, LeafEntries
<1>7. \A S : Scans!InternalEntries(S) = InternalEntries(S)
  BY <1>3 DEF Scans!InternalEntries, InternalEntries
<1>8. \A S : Scans!LeavesOver(S) = LeavesOver(S)
  BY <1>6 DEF Scans!LeavesOver, LeavesOver
<1>9. \A S : Scans!InternalsOver(S) = InternalsOver(S)
  BY <1>7 DEF Scans!InternalsOver, InternalsOver
<1>. QED
  BY <1>2, <1>3, <1>8, <1>9

LEMMA ScansNodes ==
  /\ \A n : Scans!Slots(n) = Slots(n)
  /\ \A n : Scans!ChildrenOneLevelDown(n) = ChildrenOneLevelDown(n)
  /\ \A n : Scans!EntriesUpToDate(n) = EntriesUpToDate(n)
  /\ \A s : Scans!InOrder(s) = InOrder(s)
<1>1. \A n : Scans!Slots(n) = Slots(n) /\ Scans!Level(n) = Level(n)
  BY DEF Scans!Slots, Slots, Scans!Level, Level
<1>2. \A c : Scans!ChildItems(c) = ChildItems(c)
  BY DEF Scans!ChildItems, ChildItems, Scans!Cardinality, Cardinality
<1>3. \A n : Scans!ItemCount(n) = ItemCount(n) /\ Scans!BoundaryKey(n) = BoundaryKey(n)
  BY <1>2 DEF Scans!ItemCount, ItemCount, Scans!BoundaryKey, BoundaryKey, Scans!Last, Last
<1>4. \A n : Scans!EntryFor(n) = EntryFor(n)
  BY <1>3 DEF Scans!EntryFor, EntryFor
<1>5. \A n : Scans!EntriesUpToDate(n) = EntriesUpToDate(n)
  BY <1>4 DEF Scans!EntriesUpToDate, EntriesUpToDate
<1>6. \A n : Scans!ChildrenOneLevelDown(n) = ChildrenOneLevelDown(n)
  BY <1>1 DEF Scans!ChildrenOneLevelDown, ChildrenOneLevelDown
<1>7. \A n : Scans!LowKey(n) = LowKey(n)
  <2>1. \A n : Scans!LeftEdge(n) = LeftEdge(n)
    BY DEF Scans!LeftEdge, LeftEdge
  <2>. QED
    BY <2>1, <1>1 DEF Scans!LowKey, LowKey
<1>8. \A s : Scans!LowestKey(s) = LowestKey(s) /\ Scans!HighestKey(s) = HighestKey(s)
  BY <1>7 DEF Scans!LowestKey, LowestKey, Scans!HighestKey, HighestKey
<1>9. \A s : Scans!InOrder(s) = InOrder(s)
  BY <1>8 DEF Scans!InOrder, InOrder
<1>. QED
  BY <1>1, <1>5, <1>6, <1>9

LEMMA ScansFit ==
  ASSUME NEW S
  PROVE  /\ Scans!Sound(S) <=> Sound(S)
         /\ Scans!Ordered(S) <=> Ordered(S)
<1>1. Scans!BalancedOver(S) = BalancedOver(S)
  BY ScansChunks, ScansNodes DEF Scans!BalancedOver, BalancedOver
<1>2. Scans!Sound(S) <=> Sound(S)
  BY <1>1, ScansChunks DEF Scans!Sound, Sound
<1>3. Scans!Ordered(S) <=> Ordered(S)
  BY ScansChunks, ScansNodes DEF Scans!Ordered, Ordered
<1>. QED
  BY <1>2, <1>3

LEMMA TreeIsFitForScans ==
  ASSUME LossyInv
  PROVE  Scans!TreeFit
<1>1. Scans!Fit(made) /\ (root # None => root \in Scans!NodesIn(made))
  BY MadeIsFit, ScansFit, ScansChunks DEF Scans!Fit
<1>. QED
  BY <1>1 DEF Scans!TreeFit

(***************************************************************************)
(* A scan of a tree that is edited, collected, checked out and loaded      *)
(* again, with or without losses, gives what the tree holds within its     *)
(* bounds, from its offset on, in pages that join, and fails only if       *)
(* chunks of it are gone.                                                  *)
(***************************************************************************)
THEOREM ScansOnTree ==
  LossySpec /\ Recording /\ Scans!ReadsSpec => [](Scans!ScanSound /\ Scans!PagesJoin /\ Scans!OffsetsCount)
<1>1. LossyInv => Scans!TreeFit
  BY TreeIsFitForScans
<1>2. LossySpec /\ Recording => []Scans!TreeFit
  BY <1>1, LossyInvHolds, PTL
<1>. QED
  BY <1>2, Scans!ScansStaySound, Scans!PagesKeepJoining, Scans!OffsetsKeepCounting, PTL

(***************************************************************************)
(* Pages of such a tree fit together: no entry twice, none that was never  *)
(* there, and in the end none left out that was there all the time.        *)
(***************************************************************************)
THEOREM PagesOnTree == LossySpec /\ Recording /\ Scans!PagingSpec => []Scans!PagesFit
<1>1. LossyInv => Scans!TreeFit
  BY TreeIsFitForScans
<1>2. LossySpec /\ Recording => []Scans!TreeFit
  BY <1>1, LossyInvHolds, PTL
<1>. QED
  BY <1>2, Scans!PagesStayFit, PTL
=============================================================================
