----------------------------- MODULE ProllyTree -----------------------------
(***************************************************************************)
(* One ProllyTree over its chunk store: tree/prolly_tree.rs,               *)
(* tree/core_logic.rs, gc.rs and the store of store/mem_store.rs, as the   *)
(* PTree facade of lib.rs drives them.                                     *)
(*                                                                         *)
(* The facade holds one mutex from the start of a call to its end, so one  *)
(* call runs at a time.  A call is a sequence of steps, one for each node  *)
(* it visits: a step loads a node, computes, and stores what it made.      *)
(* Recursion is a stack, `path', of the internal nodes still to be         *)
(* rewritten; `update' is what the call below returns.                     *)
(***************************************************************************)
EXTENDS Node

\* An error is told apart from what a read may return.
ASSUME ErrorsAssumption == "ChunkNotFound" \notin Values \cup {None}

VARIABLES
  store,     \* the chunks that can be loaded
  root,      \* root_hash
  config,    \* the tree's fanout configuration
  pc,        \* what the running call does next, "idle" between calls
  call,      \* the running call and its arguments
  at,        \* the hash of the node to load next, while descending
  path,      \* the internal nodes above it, each with the index descended into
  update,    \* the entries that replace the child below, none if it vanished
  marked,    \* live_chunks_set of a collection
  queue,     \* the hashes a collection still has to mark
  reply,     \* the last call that returned, and what it returned
  versions   \* the roots the application has seen, None among them

treeVars == <<root, config>>
walkVars == <<call, at, path, update>>
gcVars   == <<marked, queue>>
vars     == <<store, treeVars, pc, walkVars, gcVars, reply, versions>>

NoCall == [op |-> "none"]

NoReply == [request |-> NoCall, out |-> None]

Frames == [node : NodesIn(store), idx : Nat]

(***************************************************************************)
(* A call ends: it replies to its request, and its locals are gone.        *)
(***************************************************************************)
Return(request, out) ==
  /\ pc' = "idle"
  /\ call' = NoCall
  /\ at' = None
  /\ path' = <<>>
  /\ update' = <<>>
  /\ reply' = [request |-> request, out |-> out]

\* The call ends in an error: the tree keeps its root, what was stored stays.
Fail(error) ==
  /\ Return(call, error)
  /\ UNCHANGED <<store, treeVars, gcVars, versions>>

SetRoot(hash) ==
  /\ root' = hash
  /\ versions' = versions \cup {hash}

Init ==
  /\ store = {}
  /\ root = None
  /\ config \in Configs
  /\ pc = "idle"
  /\ call = NoCall
  /\ at = None
  /\ path = <<>>
  /\ update = <<>>
  /\ marked = {}
  /\ queue = {}
  /\ reply = NoReply
  /\ versions = {None}
-----------------------------------------------------------------------------
(***************************************************************************)
(* Descending to the leaf a key belongs to: shared by get, insert and      *)
(* delete, which all choose the child in the same way.                     *)
(***************************************************************************)
StartDescent(request) ==
  /\ pc' = "descend"
  /\ call' = request
  /\ at' = root
  /\ UNCHANGED <<treeVars, path, update, gcVars, reply, versions>>

Descend ==
  /\ pc = "descend"
  /\ at \in store
  /\ at.kind = "Internal"
  /\ LET idx == ChildIndex(at.children, call.key)
     IN  /\ path' = Append(path, [node |-> at, idx |-> idx])
         /\ at' = at.children[idx].child_hash
  /\ UNCHANGED <<store, treeVars, pc, call, update, gcVars, reply, versions>>

\* (Faulty: a chunk that is not there is taken for a key that is not there.)
NodeMissingIsAbsent ==
  /\ pc = "descend"
  /\ at \notin store
  /\ Fail(IF call.op = "get" THEN None ELSE "absent")

\* load_node finds no chunk under the hash.
NodeMissing ==
  /\ pc = "descend"
  /\ at \notin store
  /\ Fail("ChunkNotFound")

AtLeaf(op) ==
  /\ pc = "descend"
  /\ call.op = op
  /\ at \in store
  /\ at.kind = "Leaf"

(***************************************************************************)
(* Get.                                                                    *)
(***************************************************************************)
Get(k) ==
  /\ pc = "idle"
  /\ IF root = None
     THEN /\ Return([op |-> "get", key |-> k], None)
          /\ UNCHANGED <<store, treeVars, gcVars, versions>>
     ELSE /\ StartDescent([op |-> "get", key |-> k])
          /\ UNCHANGED store

GetAtLeaf ==
  /\ AtLeaf("get")
  /\ IF HasKey(at.entries, call.key)
     THEN LET repr == at.entries[KeyPosition(at.entries, call.key)].value
          IN  IF repr.repr = "Chunked" /\ ~(ToSet(repr.chunk_hashes) \subseteq store)
              THEN Return(call, "ChunkNotFound")
              ELSE Return(call, ValueOf(repr))
     ELSE Return(call, None)
  /\ UNCHANGED <<store, treeVars, gcVars, versions>>
-----------------------------------------------------------------------------
(***************************************************************************)
(* Insert.                                                                 *)
(***************************************************************************)
\* (Faulty: the value's data chunks are only stored with the first key.)
InsertWithoutChunks(k, v) ==
  /\ pc = "idle"
  /\ IF root = None
     THEN LET leaf == Leaf(<<[key |-> k, value |-> ValueRepr(v)]>>)
          IN  /\ store' = store \cup ValueChunks(v) \cup {leaf}
              /\ SetRoot(leaf)
              /\ Return([op |-> "insert", key |-> k, value |-> v], "changed")
              /\ UNCHANGED <<config, gcVars>>
     ELSE /\ StartDescent([op |-> "insert", key |-> k, value |-> v])
          /\ UNCHANGED store

Insert(k, v) ==
  /\ pc = "idle"
  /\ IF root = None
     THEN LET leaf == Leaf(<<[key |-> k, value |-> ValueRepr(v)]>>)
          IN  /\ store' = store \cup ValueChunks(v) \cup {leaf}
              /\ SetRoot(leaf)
              /\ Return([op |-> "insert", key |-> k, value |-> v], "changed")
              /\ UNCHANGED <<config, gcVars>>
     ELSE /\ StartDescent([op |-> "insert", key |-> k, value |-> v])
          /\ store' = store \cup ValueChunks(v)

\* The step above hands `update' to the parent: the entries for the nodes it stored.
StoreAndAscend(nodes) ==
  /\ store' = store \cup ToSet(nodes)
  /\ update' = [i \in DOMAIN nodes |-> EntryFor(nodes[i])]
  /\ pc' = "ascend"
  /\ at' = None

InsertAtLeaf ==
  /\ AtLeaf("insert")
  /\ StoreAndAscend(Split(Leaf(Upsert(at.entries, call.key, ValueRepr(call.value))), config))
  /\ UNCHANGED <<treeVars, call, path, gcVars, reply, versions>>

Ascending(op) ==
  /\ pc = "ascend"
  /\ call.op = op
  /\ path # <<>>

\* An internal node is only split when its child was.
InsertAscend ==
  /\ Ascending("insert")
  /\ LET frame == Last(path)
         node  == WithSlots(frame.node, AfterInsert(frame.node.children, frame.idx, update))
     IN  StoreAndAscend(IF Len(update) = 1 THEN <<node>> ELSE Split(node, config))
  /\ path' = Front(path)
  /\ UNCHANGED <<treeVars, call, gcVars, reply, versions>>

AtTop(op) ==
  /\ pc = "ascend"
  /\ call.op = op
  /\ path = <<>>

\* (Faulty: the new root is not stored.)
InsertAtTopUnstored ==
  /\ AtTop("insert")
  /\ LET newRoot == IF Len(update) = 1 THEN update[1].child_hash
                    ELSE Internal(Level(update[1].child_hash) + 1, update)
     IN  /\ SetRoot(newRoot)
         /\ Return(call, IF newRoot # root THEN "changed" ELSE "unchanged")
  /\ UNCHANGED <<store, config, gcVars>>

\* (Faulty: the new root is given the level of its children.)
InsertAtTopFlat ==
  /\ AtTop("insert")
  /\ LET newRoot == IF Len(update) = 1 THEN update[1].child_hash
                    ELSE Internal(Level(update[1].child_hash), update)
     IN  /\ store' = store \cup {newRoot}
         /\ SetRoot(newRoot)
         /\ Return(call, IF newRoot # root THEN "changed" ELSE "unchanged")
  /\ UNCHANGED <<config, gcVars>>

\* (Faulty: every insert is reported as a change.)
InsertAtTopChanges ==
  /\ AtTop("insert")
  /\ LET newRoot == IF Len(update) = 1 THEN update[1].child_hash
                    ELSE Internal(Level(update[1].child_hash) + 1, update)
     IN  /\ store' = store \cup {newRoot}
         /\ SetRoot(newRoot)
         /\ Return(call, "changed")
  /\ UNCHANGED <<config, gcVars>>

InsertAtTop ==
  /\ AtTop("insert")
  /\ LET newRoot == IF Len(update) = 1 THEN update[1].child_hash
                    ELSE Internal(Level(update[1].child_hash) + 1, update)
     IN  /\ store' = store \cup {newRoot}
         /\ SetRoot(newRoot)
         /\ Return(call, IF newRoot # root THEN "changed" ELSE "unchanged")
  /\ UNCHANGED <<config, gcVars>>
-----------------------------------------------------------------------------
(***************************************************************************)
(* Delete.                                                                 *)
(***************************************************************************)
Delete(k) ==
  /\ pc = "idle"
  /\ IF root = None
     THEN /\ Return([op |-> "delete", key |-> k], "absent")
          /\ UNCHANGED <<store, treeVars, gcVars, versions>>
     ELSE /\ StartDescent([op |-> "delete", key |-> k])
          /\ UNCHANGED store

\* DeleteRecursionResult::NotFound passes through every level and changes nothing.
DeleteNotFound ==
  /\ AtLeaf("delete")
  /\ ~HasKey(at.entries, call.key)
  /\ Return(call, "absent")
  /\ UNCHANGED <<store, treeVars, gcVars, versions>>

\* A leaf that becomes empty is not stored: DeleteRecursionResult::Merged.
DeleteAtLeaf ==
  /\ AtLeaf("delete")
  /\ HasKey(at.entries, call.key)
  /\ LET rest == RemoveKey(at.entries, call.key)
     IN  StoreAndAscend(IF rest = <<>> THEN <<>> ELSE <<Leaf(rest)>>)
  /\ UNCHANGED <<treeVars, call, path, gcVars, reply, versions>>

\* The child below vanished; its siblings are not rebalanced.
DeleteChildGone ==
  /\ Ascending("delete")
  /\ update = <<>>
  /\ LET frame == Last(path)
         rest  == RemoveAt(frame.node.children, frame.idx)
     IN  StoreAndAscend(IF rest = <<>> THEN <<>> ELSE <<WithSlots(frame.node, rest)>>)
  /\ path' = Front(path)
  /\ UNCHANGED <<treeVars, call, gcVars, reply, versions>>

\* The children of the node being rewritten, with the entry of the rewritten child.
Rewritten == [Last(path).node.children EXCEPT ![Last(path).idx] = update[1]]

DeleteAscend ==
  /\ Ascending("delete")
  /\ update # <<>>
  /\ ~IsUnderflow(update[1].child_hash, config)
  /\ StoreAndAscend(<<WithSlots(Last(path).node, Rewritten)>>)
  /\ path' = Front(path)
  /\ UNCHANGED <<treeVars, call, gcVars, reply, versions>>

ChildUnderflows ==
  /\ Ascending("delete")
  /\ update # <<>>
  /\ IsUnderflow(update[1].child_hash, config)

DeleteRebalance ==
  /\ ChildUnderflows
  /\ HasSibling(Rewritten)
  /\ SiblingsRead(Rewritten, Last(path).idx, config) \subseteq store
  /\ LET children == HandleUnderflow(Rewritten, Last(path).idx, config)
         node     == WithSlots(Last(path).node, children)
         remade   == {c.child_hash : c \in ToSet(children)}
                       \ {c.child_hash : c \in ToSet(Rewritten)}
     IN  /\ store' = store \cup remade \cup {node}
         /\ update' = <<EntryFor(node)>>
  /\ path' = Front(path)
  /\ UNCHANGED <<treeVars, pc, call, at, gcVars, reply, versions>>

SiblingMissing ==
  /\ ChildUnderflows
  /\ ~(SiblingsRead(Rewritten, Last(path).idx, config) \subseteq store)
  /\ Fail("ChunkNotFound")

\* "Underflow node has no sibling to merge with."
NoSibling ==
  /\ ChildUnderflows
  /\ ~HasSibling(Rewritten)
  /\ Fail("InternalError")

\* A root left with one child is replaced by that child, once.
Collapse(hash) ==
  IF hash.kind = "Internal" /\ Len(hash.children) = 1
  THEN hash.children[1].child_hash
  ELSE hash

\* (Faulty: a root with one child stays.)
DeleteWithoutCollapse ==
  /\ AtTop("delete")
  /\ SetRoot(IF update = <<>> THEN None ELSE update[1].child_hash)
  /\ Return(call, "deleted")
  /\ UNCHANGED <<store, config, gcVars>>

DeleteAtTop ==
  /\ AtTop("delete")
  /\ SetRoot(IF update = <<>> THEN None ELSE Collapse(update[1].child_hash))
  /\ Return(call, "deleted")
  /\ UNCHANGED <<store, config, gcVars>>
-----------------------------------------------------------------------------
(***************************************************************************)
(* Versions.  checkout accepts any hash that resolves to a node.           *)
(***************************************************************************)
\* (Faulty: any hash is taken for a version.)
CheckoutBlind(hash) ==
  /\ pc = "idle"
  /\ SetRoot(hash)
  /\ Return([op |-> "checkout", hash |-> hash], IF hash # root THEN "changed" ELSE "unchanged")
  /\ UNCHANGED <<store, config, gcVars>>

Checkout(hash) ==
  /\ pc = "idle"
  /\ hash = None \/ hash \in store
  /\ SetRoot(hash)
  /\ Return([op |-> "checkout", hash |-> hash], IF hash # root THEN "changed" ELSE "unchanged")
  /\ UNCHANGED <<store, config, gcVars>>

CheckoutMissing(hash) ==
  /\ pc = "idle"
  /\ hash # None
  /\ hash \notin store
  /\ Return([op |-> "checkout", hash |-> hash], "ChunkNotFound")
  /\ UNCHANGED <<store, treeVars, gcVars, versions>>

(***************************************************************************)
(* exportChunks and load: a new tree over a copy of the chunks, with a     *)
(* configuration of its own.  The copy may lack the chunks in `lost'.      *)
(***************************************************************************)
Load(hash, c, lost) ==
  /\ pc = "idle"
  /\ hash = None \/ hash \in store \ lost
  /\ store' = store \ lost
  /\ config' = c
  /\ SetRoot(hash)
  /\ Return([op |-> "load", hash |-> hash], "loaded")
  /\ UNCHANGED gcVars
-----------------------------------------------------------------------------
(***************************************************************************)
(* Garbage collection.  The live roots are those the application passes    *)
(* and the tree's own; the mark phase visits what they reach, the sweep    *)
(* deletes every other chunk of the store.                                 *)
(***************************************************************************)
\* (Faulty: the tree's own root is not live.)
LiveRootsGivenOnly(keep) == keep

LiveRoots(keep) == (keep \cup {root}) \ {None}

Collect(keep) ==
  /\ pc = "idle"
  /\ pc' = "mark"
  /\ call' = [op |-> "gc", live |-> LiveRoots(keep)]
  /\ marked' = {}
  /\ queue' = LiveRoots(keep) \cap store
  /\ UNCHANGED <<store, treeVars, at, path, update, reply, versions>>

\* (Faulty: the data chunks of a leaf are not followed.)
MarkNodesOnly(hash) ==
  /\ pc = "mark"
  /\ hash \in queue
  /\ marked' = marked \cup {hash}
  /\ queue' = (queue \cup NodesIn(References(hash) \cap store)) \ marked'
  /\ UNCHANGED <<store, treeVars, pc, walkVars, reply, versions>>

\* (Faulty: a chunk that was processed is not remembered.)
MarkAgain(hash) ==
  /\ pc = "mark"
  /\ hash \in queue
  /\ queue' = queue \cup (References(hash) \cap store)
  /\ UNCHANGED <<store, treeVars, pc, walkVars, marked, reply, versions>>

Mark(hash) ==
  /\ pc = "mark"
  /\ hash \in queue
  /\ marked' = marked \cup {hash}
  /\ queue' = (queue \cup (References(hash) \cap store)) \ marked'
  /\ UNCHANGED <<store, treeVars, pc, walkVars, reply, versions>>

\* (Faulty: only nodes are swept.)
SweepNodes ==
  /\ pc = "mark"
  /\ queue = {}
  /\ store' = store \cap (marked \cup DataChunks)
  /\ Return(call, "done")
  /\ marked' = {}
  /\ UNCHANGED <<treeVars, queue, versions>>

Sweep ==
  /\ pc = "mark"
  /\ queue = {}
  /\ store' = store \cap marked
  /\ Return(call, "done")
  /\ marked' = {}
  /\ UNCHANGED <<treeVars, queue, versions>>
-----------------------------------------------------------------------------
(***************************************************************************)
(* The calls an application makes, and the steps of a call under way.      *)
(***************************************************************************)
Call ==
  \/ \E k \in Keys : Get(k) \/ Delete(k)
  \/ \E k \in Keys, v \in Values : Insert(k, v)
  \/ \E h \in versions : Checkout(h) \/ CheckoutMissing(h)
  \/ \E h \in versions, c \in Configs : Load(h, c, {})
  \/ \E keep \in SUBSET (versions \ {None}) : Collect(keep)

Step ==
  \/ Descend \/ NodeMissing
  \/ GetAtLeaf
  \/ InsertAtLeaf \/ InsertAscend \/ InsertAtTop
  \/ DeleteNotFound \/ DeleteAtLeaf \/ DeleteChildGone \/ DeleteAscend
  \/ DeleteRebalance \/ SiblingMissing \/ NoSibling \/ DeleteAtTop
  \/ \E h \in queue : Mark(h)
  \/ Sweep

Next == Call \/ Step

Spec == Init /\ [][Next]_vars

\* A call that has begun is polled until it returns.
FairSpec == Spec /\ WF_vars(Step)
-----------------------------------------------------------------------------
(***************************************************************************)
(* Safety.                                                                 *)
(***************************************************************************)
Requests ==
  [op : {"get", "delete"}, key : Keys]
    \cup [op : {"insert"}, key : Keys, value : Values]

\* The variables hold what the code's variables hold: the one type invariant.
TypeOK ==
  /\ root \in NodesIn(store) \cup {None}
  /\ config \in Configs
  /\ pc \in {"idle", "descend", "ascend", "mark"}
  /\ pc = "idle" => call = NoCall /\ path = <<>> /\ update = <<>>
  /\ pc \in {"descend", "ascend"} => call \in Requests
  /\ pc = "mark" => call.op = "gc"
  /\ path \in Seq(Frames)
  /\ \A i \in DOMAIN path : /\ path[i].node.kind = "Internal"
                           /\ path[i].idx \in DOMAIN path[i].node.children
  /\ update \in Seq(InternalEntries(store))
  /\ pc = "ascend" => /\ call.op \in {"insert", "delete"}
                      /\ Len(update) \in (IF call.op = "insert" THEN 1..2 ELSE 0..1)
  /\ marked \subseteq store
  /\ queue \subseteq store
  /\ {root, None} \subseteq versions
  /\ \A v \in versions \ {None} : IsNode(v)

(***************************************************************************)
(* At every step of every call, whatever the store holds can be resolved   *)
(* completely: all chunks a stored chunk refers to are stored too.  This   *)
(* is what makes a version readable as soon as its root is, what makes an  *)
(* interrupted call harmless, and what a sweep must not break.             *)
(***************************************************************************)
StoreClosed == store \subseteq ChunksOver(store)

(***************************************************************************)
(* Every stored internal node is one level above each of its children, so  *)
(* a merge or a borrow never mixes a leaf with an internal node            *)
(* ("Mismatched node types during merge") and all leaves of a version are  *)
(* at one depth.                                                           *)
(***************************************************************************)
StoreBalanced == \A chunk \in store : ChildrenOneLevelDown(chunk)

(***************************************************************************)
(* What a stored parent copies from a child is the child's own: the        *)
(* boundary key searches go by and the item counter offsets are skipped    *)
(* and totals reported by.  A merge computes the counter from the two old  *)
(* copies, not from the merged node, so a stale copy would spread.         *)
(***************************************************************************)
EntriesExact == \A chunk \in store : EntriesUpToDate(chunk)

(***************************************************************************)
(* The slots of every stored node are in order, and each is above the      *)
(* boundary of the one before with all the keys below it, so a search that *)
(* goes by boundaries looks where the key is.                              *)
(***************************************************************************)
StoreOrdered == \A chunk \in NodesIn(store) : InOrder(Slots(chunk))

(***************************************************************************)
(* The leaf of every key is found in the current tree: keys are in order   *)
(* under exact boundaries, counters are right and leaves at one depth, and *)
(* that is so after splits, borrows and merges under whatever fanout, and  *)
(* after calls that fail half way in a tree that has lost chunks.          *)
(***************************************************************************)
TreeSearchable == root # None => Searchable(root)

(***************************************************************************)
(* As long as a tree is only loaded with the fanout it was built with, no  *)
(* stored node is too large, every node below another holds the minimum,   *)
(* and a root that is not a leaf has children to borrow from and merge     *)
(* with.  With a minimum of one, leaves vanish before they are too small,  *)
(* and a root may be left with one child.                                  *)
(***************************************************************************)
Branches(n) == n.kind = "Internal" /\ config.min_fanout > 1 => NumEntries(n) > 1

StoreSized ==
  /\ \A chunk \in NodesIn(store) :
       /\ NumEntries(chunk) <= config.target_fanout
       /\ chunk.kind = "Internal" =>
            \A i \in DOMAIN chunk.children : ~IsUnderflow(chunk.children[i].child_hash, config)
  /\ \A v \in versions \ {None} : Branches(v)

(***************************************************************************)
(* No read of the live tree ever misses a chunk: only a checkout of a      *)
(* version that was collected may report ChunkNotFound.                    *)
(***************************************************************************)
NothingMissing == reply # NoReply /\ reply.out = "ChunkNotFound" => reply.request.op = "checkout"

(***************************************************************************)
(* A sweep keeps every root the application or the tree named live, and    *)
(* keeps nothing else but what those reach: each surviving chunk is one of *)
(* the roots or is referred to by a surviving chunk.                       *)
(***************************************************************************)
SweepIsExact ==
  pc = "mark" /\ pc' = "idle" =>
    /\ call.live \cap store \subseteq store'
    /\ \A c \in store' : c \in call.live \/ \E p \in store' : c \in References(p)

GcExact == [][SweepIsExact]_vars
-----------------------------------------------------------------------------
(***************************************************************************)
(* What holds between the steps of a call: the inductive invariant.        *)
(***************************************************************************)
\* A descent is at a stored node, one level below the last one it came by;
\* the nodes it came by are parent and child; what it will store is stored.
Descending ==
  /\ pc = "descend" => /\ at \in NodesIn(store)
                       /\ path # <<>> => Level(at) + 1 = path[Len(path)].node.level
  /\ \A i \in 2..Len(path) : path[i].node.level + 1 = path[i - 1].node.level
  /\ call.op = "insert" => ValueChunks(call.value) \subseteq store

\* The entries handed upwards say what their nodes say, and are for nodes of
\* one level, that of the child replaced.
HandingUp ==
  pc = "ascend" =>
    \A i \in DOMAIN update :
      /\ update[i] = EntryFor(update[i].child_hash)
      /\ path # <<>> => Level(update[i].child_hash) + 1 = path[Len(path)].node.level
      /\ Level(update[i].child_hash) = Level(update[1].child_hash)

\* The mark phase is between its roots and all they reach.
Marking ==
  pc = "mark" =>
    /\ root # None => root \in call.live
    /\ call.live \cap store \subseteq marked \cup queue
    /\ \A c \in marked : References(c) \cap store \subseteq marked \cup queue
    /\ \A c \in marked \cup queue :
         c \in call.live \/ \E p \in marked : c \in References(p)

\* The entry for the child a node was left by.
Left(frame) == frame.node.children[frame.idx]

\* The nodes on the stack, and the one to visit, are those a search for the key visits.
Searching ==
  pc \in {"descend", "ascend"} =>
    /\ \A i \in DOMAIN path : path[i].idx = ChildIndex(path[i].node.children, call.key)
    /\ \A i \in 2..Len(path) : path[i].node = Left(path[i - 1]).child_hash
    /\ pc = "descend" /\ path # <<>> => at = Left(Last(path)).child_hash

\* A call begins at the root.
Rooted ==
  /\ pc \in {"descend", "ascend"} => root # None
  /\ pc = "descend" /\ path = <<>> => at = root
  /\ path # <<>> => path[1].node = root

\* What is handed upwards is in order, and goes beyond the child it replaces
\* at most as far as the key the call is about.
Replacing ==
  pc = "ascend" =>
    /\ InOrder(update)
    /\ path # <<>> => GoesNoFurther(update, <<Left(Last(path))>>, call.key)

KeepingOrder == StoreOrdered /\ Searching /\ Replacing

\* Below the root, the nodes handed upwards hold the minimum after an insert,
\* and lack at most one slot after a delete.
Resizing ==
  /\ pc = "ascend" /\ path # <<>> =>
       IF call.op = "insert"
       THEN \A i \in DOMAIN update : ~IsUnderflow(update[i].child_hash, config)
       ELSE IF update = <<>> THEN config.min_fanout = 1
            ELSE NumEntries(update[1].child_hash) >= config.min_fanout - 1
  /\ pc = "ascend" /\ path = <<>> /\ call.op = "insert" =>
       IF Len(update) = 1 THEN Branches(update[1].child_hash)
       ELSE \A i \in DOMAIN update : ~IsUnderflow(update[i].child_hash, config)

KeepingSize == StoreSized /\ Rooted /\ Resizing

Inductive ==
  /\ TypeOK
  /\ StoreClosed
  /\ StoreBalanced
  /\ EntriesExact
  /\ Descending
  /\ HandingUp
  /\ Marking
=============================================================================
