--------------------------- MODULE ProllyTreeProofs ---------------------------
(***************************************************************************)
(* The invariants of ProllyTree, for every set of keys and values, every   *)
(* way to cut values into chunks, every fanout configuration and any       *)
(* number of calls.                                                        *)
(*                                                                         *)
(* `Inductive' of ProllyTree is proved to be inductive, one lemma for each *)
(* action, and so are `KeepingOrder' and, as long as a tree is only loaded *)
(* with the configuration it was built with, `KeepingSize' relative to it; *)
(* the properties follow from them.                                        *)
(***************************************************************************)
EXTENDS ProllyTree, NodeProofs

(***************************************************************************)
(* The stack of nodes above the place a call is at.                        *)
(***************************************************************************)
PathOver(p, S) ==
  /\ p \in Seq([node : NodesIn(S), idx : Nat])
  /\ \A i \in DOMAIN p : /\ p[i].node.kind = "Internal"
                        /\ p[i].idx \in DOMAIN p[i].node.children
  /\ \A i \in 2..Len(p) : p[i].node.level + 1 = p[i - 1].node.level

\* A stack over a store is a stack over a larger one.
LEMMA PathMonotone ==
  ASSUME NEW S, NEW T, S \subseteq T, NEW p, PathOver(p, S)
  PROVE  PathOver(p, T)
<1>1. [node : NodesIn(S), idx : Nat] \subseteq [node : NodesIn(T), idx : Nat]
  BY DEF NodesIn
<1>. QED
  BY <1>1, SeqMonotonic DEF PathOver

\* All but the last element of a sequence.
LEMMA FrontSeq ==
  ASSUME NEW E, NEW s \in Seq(E) \ {<<>>}
  PROVE  /\ Front(s) \in Seq(E)
         /\ Len(Front(s)) = Len(s) - 1
         /\ DOMAIN Front(s) = 1..(Len(s) - 1)
         /\ \A i \in 1..(Len(s) - 1) : Front(s)[i] = s[i]
<1>1. Len(s) \in Nat \ {0} /\ DOMAIN s = 1..Len(s)
  BY ElementsOfSeq
<1>2. \A i \in 1..(Len(s) - 1) : s[i] \in E
  BY <1>1, ElementsOfSeq
<1>3. /\ Front(s) \in Seq(E)
      /\ Len(Front(s)) = Len(s) - 1
      /\ \A i \in 1..(Len(s) - 1) : Front(s)[i] = s[i]
  BY <1>1, <1>2, SubSeqProperties DEF Front
<1>. QED
  BY <1>1, <1>3, ElementsOfSeq

\* Returning from one frame of the recursion leaves a proper stack.
LEMMA PathFront ==
  ASSUME NEW S, NEW p, PathOver(p, S), p # <<>>
  PROVE  /\ PathOver(Front(p), S)
         /\ Front(p) # <<>> => Front(p)[Len(Front(p))].node.level
                                 = p[Len(p)].node.level + 1
<1>. DEFINE F == [node : NodesIn(S), idx : Nat]
<1>1. p \in Seq(F) \ {<<>>} /\ Len(p) \in Nat \ {0} /\ DOMAIN p = 1..Len(p)
  <2>1. p \in Seq(F) \ {<<>>}
    BY DEF PathOver
  <2>. HIDE DEF F
  <2>2. Len(p) \in Nat /\ Len(p) > 0 /\ DOMAIN p = 1..Len(p)
    BY <2>1, ElementsOfSeq, Zenon
  <2>. QED
    BY <2>1, <2>2
<1>. HIDE DEF F
<1>2. /\ Front(p) \in Seq(F)
      /\ Len(Front(p)) = Len(p) - 1
      /\ DOMAIN Front(p) = 1..(Len(p) - 1)
      /\ \A i \in 1..(Len(p) - 1) : Front(p)[i] = p[i]
  BY <1>1, FrontSeq
<1>3. ASSUME NEW i \in DOMAIN Front(p)
      PROVE  /\ Front(p)[i].node.kind = "Internal"
             /\ Front(p)[i].idx \in DOMAIN Front(p)[i].node.children
  <2>1. Front(p)[i] = p[i] /\ i \in DOMAIN p
    BY <1>1, <1>2, <1>3
  <2>. QED
    BY <2>1 DEF PathOver
<1>4. \A i \in 2..Len(Front(p)) : Front(p)[i].node.level + 1 = Front(p)[i - 1].node.level
  <2>. SUFFICES ASSUME NEW i \in 2..Len(Front(p))
                PROVE  Front(p)[i].node.level + 1 = Front(p)[i - 1].node.level
    OBVIOUS
  <2>1. i \in 2..Len(p) /\ i \in 1..(Len(p) - 1) /\ i - 1 \in 1..(Len(p) - 1)
    BY <1>1, <1>2
  <2>. QED
    BY <1>2, <2>1 DEF PathOver
<1>5. PathOver(Front(p), S)
  BY <1>2, <1>3, <1>4 DEF PathOver, F
<1>6. ASSUME Front(p) # <<>>
      PROVE  Front(p)[Len(Front(p))].node.level = p[Len(p)].node.level + 1
  <2>1. Len(p) \in 2..Len(p) /\ Len(p) - 1 \in 1..(Len(p) - 1)
    BY <1>1, <1>2, <1>6, ElementsOfSeq
  <2>. QED
    BY <1>1, <1>2, <2>1 DEF PathOver
<1>. QED
  BY <1>5, <1>6

\* Descending into a child of a stored node extends the stack properly.
LEMMA PathAppend ==
  ASSUME NEW S, NEW p, PathOver(p, S), NEW n \in NodesIn(S), n.kind = "Internal",
         NEW idx \in DOMAIN n.children, idx \in Nat,
         p # <<>> => n.level + 1 = p[Len(p)].node.level
  PROVE  LET q == Append(p, [node |-> n, idx |-> idx])
         IN  /\ PathOver(q, S)
             /\ q[Len(q)].node = n
<1>. DEFINE F == [node : NodesIn(S), idx : Nat]
            f == [node |-> n, idx |-> idx]
            q == Append(p, f)
<1>1. p \in Seq(F) /\ Len(p) \in Nat /\ DOMAIN p = 1..Len(p) /\ f \in F
  BY ElementsOfSeq DEF PathOver
<1>2. /\ q \in Seq(F)
      /\ Len(q) = Len(p) + 1
      /\ \A i \in 1..Len(p) : q[i] = p[i]
      /\ q[Len(p) + 1] = f
  <2>. HIDE DEF F, f
  <2>. QED
    BY <1>1, AppendProperties
<1>3. DOMAIN q = 1..(Len(p) + 1)
  BY <1>2, ElementsOfSeq
<1>. HIDE DEF q, F
<1>4. \A i \in DOMAIN q : /\ q[i].node.kind = "Internal"
                         /\ q[i].idx \in DOMAIN q[i].node.children
  BY <1>1, <1>2, <1>3 DEF PathOver
<1>5. \A i \in 2..Len(q) : q[i].node.level + 1 = q[i - 1].node.level
  <2>. SUFFICES ASSUME NEW i \in 2..Len(q)
                PROVE  q[i].node.level + 1 = q[i - 1].node.level
    OBVIOUS
  <2>1. CASE i \in 2..Len(p)
    <3>1. i \in 1..Len(p) /\ i - 1 \in 1..Len(p)
      BY <1>1, <2>1
    <3>2. q[i] = p[i] /\ q[i - 1] = p[i - 1]
      BY <1>2, <3>1
    <3>. QED
      BY <2>1, <3>2 DEF PathOver
  <2>2. CASE i = Len(p) + 1
    <3>1. p # <<>> /\ Len(p) \in 1..Len(p)
      BY <1>1, <2>2, ElementsOfSeq
    <3>. QED
      BY <1>1, <1>2, <2>2, <3>1
  <2>. QED
    BY <1>1, <1>2, <2>1, <2>2
<1>. QED
  BY <1>2, <1>4, <1>5 DEF PathOver, q, F
-----------------------------------------------------------------------------
(***************************************************************************)
(* What the inductive invariant says of the node a call is at.             *)
(***************************************************************************)
LEMMA InductiveSound ==
  ASSUME Inductive
  PROVE  Sound(store) /\ PathOver(path, store)
<1>1. Sound(store)
  BY SoundIs DEF Inductive, StoreClosed, StoreBalanced, EntriesExact
<1>2. PathOver(path, store)
  BY DEF Inductive, TypeOK, Descending, PathOver, Frames
<1>. QED
  BY <1>1, <1>2

\* The node on top of the stack, and the child it was left by.
LEMMA TopFrame ==
  ASSUME Inductive, path # <<>>
  PROVE  /\ Last(path).node \in BalancedOver(store)
         /\ Last(path).node.kind = "Internal"
         /\ Last(path).node.level \in Nat \ {0}
         /\ Last(path).node.children
              \in Seq(EntriesBelow(store, Last(path).node.level)) \ {<<>>}
         /\ Last(path).idx \in DOMAIN Last(path).node.children
<1>1. Sound(store) /\ PathOver(path, store)
  BY InductiveSound
<1>. DEFINE F == [node : NodesIn(store), idx : Nat]
<1>2. Len(path) \in DOMAIN path /\ Last(path) \in F
  <2>1. path \in Seq(F) \ {<<>>}
    BY <1>1 DEF PathOver
  <2>. HIDE DEF F
  <2>. QED
    BY <2>1, ElementsOfSeq, LastOfSeq
<1>3. /\ Last(path).node \in NodesIn(store)
      /\ Last(path).node.kind = "Internal"
      /\ Last(path).idx \in DOMAIN Last(path).node.children
  BY <1>1, <1>2 DEF PathOver, Last
<1>4. Last(path).node \in BalancedOver(store)
  BY <1>1, <1>3, StoredNode DEF NodesIn
<1>. QED
  BY <1>3, <1>4, NodeKinds
-----------------------------------------------------------------------------
(***************************************************************************)
(* A call that returns, starts, or hands entries to the node above.        *)
(***************************************************************************)
LEMMA ReturnInductive ==
  ASSUME NEW request, NEW out, Return(request, out),
         Sound(store'),
         root' \in NodesIn(store') \cup {None},
         config' \in Configs,
         marked' \subseteq store', queue' \subseteq store',
         {root', None} \subseteq versions',
         \A v \in versions' \ {None} : IsNode(v)
  PROVE  Inductive'
<1>1. pc' = "idle" /\ call' = NoCall /\ path' = <<>> /\ update' = <<>>
  BY DEF Return
<1>2. TypeOK'
  BY <1>1 DEF TypeOK
<1>3. StoreClosed' /\ StoreBalanced' /\ EntriesExact'
  BY SoundIs DEF StoreClosed, StoreBalanced, EntriesExact
<1>4. Descending' /\ HandingUp' /\ Marking'
  BY <1>1 DEF Descending, HandingUp, Marking, NoCall
<1>. QED
  BY <1>2, <1>3, <1>4 DEF Inductive

\* Starting to descend from the root preserves the invariant.
LEMMA StartInductive ==
  ASSUME Inductive, pc = "idle", root # None,
         NEW request \in Requests, StartDescent(request),
         store \subseteq store', Sound(store'),
         request.op = "insert" => ValueChunks(request.value) \subseteq store'
  PROVE  Inductive'
<1>. USE DEF StartDescent, treeVars, gcVars
<1>1. NodesIn(store) \subseteq NodesIn(store')
  BY DEF NodesIn
<1>2. TypeOK'
  BY <1>1 DEF Inductive, TypeOK
<1>3. StoreClosed' /\ StoreBalanced' /\ EntriesExact'
  BY SoundIs DEF StoreClosed, StoreBalanced, EntriesExact
<1>4. Descending'
  BY <1>1 DEF Inductive, TypeOK, Descending
<1>5. HandingUp' /\ Marking'
  BY DEF HandingUp, Marking
<1>. QED
  BY <1>2, <1>3, <1>4, <1>5 DEF Inductive

\* Handing entries of the right level upwards preserves the invariant.
LEMMA AscendInductive ==
  ASSUME Inductive, pc \in {"descend", "ascend"}, call.op \in {"insert", "delete"},
         store \subseteq store', Sound(store'),
         pc' = "ascend", call' = call,
         UNCHANGED <<treeVars, gcVars, reply, versions>>,
         PathOver(path', store'),
         NEW l, update' \in Seq(EntriesBelow(store', l)),
         path' # <<>> => path'[Len(path')].node.level = l,
         Len(update') \in (IF call.op = "insert" THEN 1..2 ELSE 0..1)
  PROVE  Inductive'
<1>. USE DEF treeVars, gcVars
<1>1. NodesIn(store) \subseteq NodesIn(store')
  BY DEF NodesIn
<1>2. update' \in Seq(InternalEntries(store'))
  BY SeqMonotonic DEF EntriesBelow
<1>3. \A i \in DOMAIN update' : Level(update'[i].child_hash) + 1 = l
  BY ElementsOfSeq DEF EntriesBelow
<1>4. TypeOK'
  BY <1>1, <1>2 DEF Inductive, TypeOK, PathOver, Frames
<1>5. StoreClosed' /\ StoreBalanced' /\ EntriesExact'
  BY SoundIs DEF StoreClosed, StoreBalanced, EntriesExact
<1>6. Descending'
  BY DEF Inductive, Descending, PathOver
<1>7. HandingUp'
  <2>1. ASSUME NEW i \in DOMAIN update'
        PROVE  /\ update'[i] = EntryFor(update'[i].child_hash)
               /\ Level(update'[i].child_hash) = Level(update'[1].child_hash)
    <3>1. 1 \in DOMAIN update' /\ update'[i] \in EntriesBelow(store', l)
          /\ update'[1] \in EntriesBelow(store', l)
      BY <2>1, ElementsOfSeq
    <3>2. /\ update'[i] = EntryFor(update'[i].child_hash)
          /\ Level(update'[i].child_hash) + 1 = l /\ Level(update'[1].child_hash) + 1 = l
      BY <3>1 DEF EntriesBelow
    <3>3. Level(update'[i].child_hash) \in Nat /\ Level(update'[1].child_hash) \in Nat
      BY <3>1, ChildOver, NodeKinds DEF EntriesBelow
    <3>. QED
      BY <3>2, <3>3
  <2>. QED
    BY <1>3, <2>1 DEF HandingUp
<1>8. Marking'
  BY DEF Marking
<1>. QED
  BY <1>4, <1>5, <1>6, <1>7, <1>8 DEF Inductive
-----------------------------------------------------------------------------
(***************************************************************************)
(* The steps of a descent, and the reads that end one.                     *)
(***************************************************************************)
\* Where a descent is.
LEMMA AtNode ==
  ASSUME Inductive, pc = "descend"
  PROVE  /\ at \in BalancedOver(store)
         /\ at \in NodesIn(store)
         /\ call \in Requests
         /\ path # <<>> => Level(at) + 1 = path[Len(path)].node.level
<1>1. at \in NodesIn(store)
  BY DEF Inductive, Descending
<1>2. at \in BalancedOver(store)
  BY <1>1, InductiveSound, StoredNode DEF NodesIn
<1>. QED
  BY <1>1, <1>2 DEF Inductive, Descending, TypeOK

\* Descend preserves the invariant: the child is stored and one level down.
LEMMA DescendInductive ==
  ASSUME Inductive, Descend
  PROVE  Inductive'
<1>. USE DEF treeVars, gcVars
<1>. DEFINE idx == ChildIndex(at.children, call.key)
            child == at.children[idx].child_hash
<1>1. /\ pc = "descend" /\ pc' = pc /\ call' = call /\ at.kind = "Internal"
      /\ path' = Append(path, [node |-> at, idx |-> idx])
      /\ at' = child
      /\ UNCHANGED <<store, treeVars, update, gcVars, reply, versions>>
  BY DEF Descend
<1>2. /\ at \in NodesIn(store) /\ at.level \in Nat \ {0} /\ Level(at) = at.level
      /\ at.children \in Seq(EntriesBelow(store, at.level)) \ {<<>>}
  BY <1>1, AtNode, NodeKinds DEF Level
<1>3. idx \in DOMAIN at.children /\ idx \in Nat
  BY <1>2, ChildIndexRange, ElementsOfSeq
<1>. HIDE DEF idx
<1>4. child \in NodesIn(store) /\ Level(child) + 1 = at.level
  BY <1>2, <1>3, ElementsOfSeq DEF EntriesBelow, InternalEntries
<1>5. PathOver(path', store) /\ path'[Len(path')].node = at
  BY <1>1, <1>2, <1>3, AtNode, InductiveSound, PathAppend
<1>. HIDE DEF child
<1>6. TypeOK'
  BY <1>1, <1>5 DEF Inductive, TypeOK, PathOver, Frames, Requests
<1>7. StoreClosed' /\ StoreBalanced' /\ EntriesExact'
  BY <1>1 DEF Inductive, StoreClosed, StoreBalanced, EntriesExact
<1>8. Descending'
  BY <1>1, <1>4, <1>5 DEF Inductive, Descending, PathOver
<1>9. HandingUp' /\ Marking'
  BY <1>1 DEF HandingUp, Marking
<1>. QED
  BY <1>6, <1>7, <1>8, <1>9 DEF Inductive

\* A descent never meets a chunk that is not stored.
LEMMA NodeNeverMissing ==
  ASSUME Inductive
  PROVE  ~NodeMissing
  BY AtNode DEF NodeMissing, NodesIn

\* A call that returns and leaves the store, the tree and the versions alone.
LEMMA QuietReturnInductive ==
  ASSUME Inductive, NEW request, NEW out, Return(request, out),
         UNCHANGED <<store, treeVars, gcVars, versions>>
  PROVE  Inductive'
<1>1. Sound(store)
  BY InductiveSound
<1>2. /\ Sound(store')
      /\ root' \in NodesIn(store') \cup {None}
      /\ config' \in Configs
      /\ marked' \subseteq store' /\ queue' \subseteq store'
      /\ {root', None} \subseteq versions'
      /\ \A v \in versions' \ {None} : IsNode(v)
  BY <1>1 DEF Inductive, TypeOK, treeVars, gcVars
<1>. QED
  BY <1>2, ReturnInductive

\* A get preserves the invariant when it begins.
LEMMA GetInductive ==
  ASSUME Inductive, NEW k \in Keys, Get(k)
  PROVE  Inductive'
<1>1. CASE root = None
  BY <1>1, QuietReturnInductive DEF Get
<1>2. CASE root # None
  <2>1. /\ StartDescent([op |-> "get", key |-> k]) /\ store' = store /\ pc = "idle"
        /\ [op |-> "get", key |-> k] \in Requests
    BY <1>2 DEF Get, Requests
  <2>. QED
    BY <1>2, <2>1, InductiveSound, StartInductive
<1>. QED
  BY <1>1, <1>2

\* A get preserves the invariant when it returns.
LEMMA GetAtLeafInductive ==
  ASSUME Inductive, GetAtLeaf
  PROVE  Inductive'
<1>1. /\ \E out : Return(call, out)
      /\ UNCHANGED <<store, treeVars, gcVars, versions>>
  BY DEF GetAtLeaf
<1>. QED
  BY <1>1, QuietReturnInductive
-----------------------------------------------------------------------------
(***************************************************************************)
(* Insert.                                                                 *)
(***************************************************************************)
\* Storing the data chunks of a value.
LEMMA SoundChunks ==
  ASSUME NEW S, Sound(S), NEW v \in Values
  PROVE  Sound(S \cup ValueChunks(v))
<1>1. Cdc[v] \in Seq(Bytes)
  BY CdcAssumption
<1>2. ValueChunks(v) \subseteq DataChunks
  BY <1>1, ElementsOfSeq DEF ValueChunks, DataChunks, ToSet
<1>. QED
  BY <1>2, SoundAdd

\* An insert preserves the invariant when it begins: it stores data chunks first.
LEMMA InsertInductive ==
  ASSUME Inductive, NEW k \in Keys, NEW v \in Values, Insert(k, v)
  PROVE  Inductive'
<1>. DEFINE request == [op |-> "insert", key |-> k, value |-> v]
            S == store \cup ValueChunks(v)
<1>1. Sound(S) /\ pc = "idle"
  BY InductiveSound, SoundChunks DEF Insert
<1>2. CASE root = None
  <2>. DEFINE entries == <<[key |-> k, value |-> ValueRepr(v)]>>
              leaf == Leaf(entries)
  <2>1. /\ store' = S \cup {leaf} /\ SetRoot(leaf) /\ Return(request, "changed")
        /\ UNCHANGED <<config, gcVars>>
    BY <1>2 DEF Insert
  <2>2. entries \in Seq(LeafEntries(S)) \ {<<>>}
    BY ValueReprOver, SingletonSeq
  <2>. HIDE DEF entries
  <2>3. leaf \in BalancedOver(S)
    BY <2>2, LeafOver
  <2>4. Sound(store') /\ leaf \in NodesIn(store')
    BY <1>1, <2>1, <2>3, SoundAdd, NodeKinds DEF NodesIn
  <2>. HIDE DEF leaf, S, request
  <2>5. /\ root' \in NodesIn(store') \cup {None}
        /\ config' \in Configs
        /\ {root', None} \subseteq versions'
        /\ \A w \in versions' \ {None} : IsNode(w)
    BY <2>1, <2>4 DEF Inductive, TypeOK, SetRoot, NodesIn
  <2>6. marked' \subseteq store' /\ queue' \subseteq store'
    BY <2>1 DEF Inductive, TypeOK, gcVars, S
  <2>. QED
    BY <2>1, <2>4, <2>5, <2>6, ReturnInductive
<1>3. CASE root # None
  <2>1. StartDescent(request) /\ store' = S /\ request \in Requests
    BY <1>3 DEF Insert, Requests
  <2>2. store \subseteq store' /\ ValueChunks(request.value) \subseteq store'
    BY <2>1
  <2>. QED
    BY <1>1, <1>3, <2>1, <2>2, StartInductive
<1>. QED
  BY <1>2, <1>3

\* What StoreAndAscend stores, and hands to the node above.
LEMMA StoreAndAscendOver ==
  ASSUME NEW nodes \in Seq(BalancedOver(store)), StoreAndAscend(nodes), Sound(store),
         NEW v, \A i \in DOMAIN nodes : Level(nodes[i]) = v
  PROVE  /\ store \subseteq store' /\ Sound(store')
         /\ pc' = "ascend"
         /\ update' \in Seq(EntriesBelow(store', v + 1))
         /\ Len(update') = Len(nodes)
<1>1. ToSet(nodes) \subseteq BalancedOver(store)
  BY ElementsOfSeq DEF ToSet
<1>2. store' = store \cup ToSet(nodes) /\ Sound(store')
  BY <1>1, SoundAdd DEF StoreAndAscend
<1>3. ToSet(nodes) \subseteq store'
  BY <1>2
<1>. QED
  BY <1>2, <1>3, EntriesForOver DEF StoreAndAscend

\* Changing and splitting a leaf preserves the invariant.
LEMMA InsertAtLeafInductive ==
  ASSUME Inductive, InsertAtLeaf
  PROVE  Inductive'
<1>. DEFINE entries == Upsert(at.entries, call.key, ValueRepr(call.value))
            nodes == Split(Leaf(entries), config)
<1>1. /\ pc = "descend" /\ call.op = "insert" /\ at.kind = "Leaf"
      /\ StoreAndAscend(nodes)
      /\ UNCHANGED <<treeVars, call, path, gcVars, reply, versions>>
  BY DEF InsertAtLeaf, AtLeaf
<1>2. /\ at.entries \in Seq(LeafEntries(store))
      /\ Level(at) = 0
      /\ path # <<>> => path[Len(path)].node.level = 1
  BY <1>1, AtNode, NodeKinds DEF Level
<1>3. call.key \in Keys /\ call.value \in Values
  BY <1>1, AtNode DEF Requests
<1>4. [key |-> call.key, value |-> ValueRepr(call.value)] \in LeafEntries(store)
  BY <1>1, <1>3, ValueReprOver DEF Inductive, Descending
<1>5. entries \in Seq(LeafEntries(store)) \ {<<>>}
  BY <1>2, <1>3, <1>4, UpsertOver
<1>. HIDE DEF entries
<1>6. Leaf(entries) \in BalancedOver(store) /\ Level(Leaf(entries)) = 0
  BY <1>5, LeafOver
<1>7. config \in Configs
  BY DEF Inductive, TypeOK
<1>8. /\ nodes \in Seq(BalancedOver(store))
      /\ Len(nodes) \in 1..2
      /\ \A i \in DOMAIN nodes : Level(nodes[i]) = 0
  BY <1>6, <1>7, SplitOver
<1>. HIDE DEF nodes
<1>9. /\ store \subseteq store' /\ Sound(store') /\ pc' = "ascend"
      /\ update' \in Seq(EntriesBelow(store', 0 + 1))
      /\ Len(update') \in 1..2
  BY <1>1, <1>8, InductiveSound, StoreAndAscendOver
<1>10. PathOver(path', store')
  BY <1>1, <1>9, InductiveSound, PathMonotone
<1>11. update' \in Seq(EntriesBelow(store', 1))
  BY <1>9
<1>. QED
  BY <1>1, <1>2, <1>9, <1>10, <1>11, AscendInductive

\* What is handed to the node on top of the stack.
LEMMA UpdateBelow ==
  ASSUME Inductive, pc = "ascend", path # <<>>
  PROVE  update \in Seq(EntriesBelow(store, Last(path).node.level))
<1>1. update \in Seq(InternalEntries(store))
  BY DEF Inductive, TypeOK
<1>2. \A i \in DOMAIN update : update[i] \in EntriesBelow(store, Last(path).node.level)
  BY <1>1, ElementsOfSeq DEF Inductive, HandingUp, Last, EntriesBelow
<1>. QED
  BY <1>1, <1>2, SeqWithin

\* The stack above the node being rewritten.
LEMMA FrontOver ==
  ASSUME Inductive, path # <<>>, store \subseteq store', path' = Front(path)
  PROVE  /\ PathOver(path', store')
         /\ path' # <<>> => path'[Len(path')].node.level = Last(path).node.level + 1
<1>1. /\ PathOver(path', store)
      /\ path' # <<>> => path'[Len(path')].node.level = path[Len(path)].node.level + 1
  BY InductiveSound, PathFront
<1>2. PathOver(path', store')
  BY <1>1, PathMonotone
<1>. QED
  BY <1>1, <1>2 DEF Last

\* A step that rewrites the node on top of the stack into nodes of its level.
LEMMA RewriteInductive ==
  ASSUME Inductive, pc = "ascend", path # <<>>, call.op \in {"insert", "delete"},
         NEW nodes \in Seq(BalancedOver(store)), StoreAndAscend(nodes),
         \A i \in DOMAIN nodes : Level(nodes[i]) = Last(path).node.level,
         Len(nodes) \in (IF call.op = "insert" THEN 1..2 ELSE 0..1),
         path' = Front(path),
         UNCHANGED <<treeVars, call, gcVars, reply, versions>>
  PROVE  Inductive'
<1>. DEFINE l == Last(path).node.level + 1
<1>1. /\ store \subseteq store' /\ Sound(store') /\ pc' = "ascend"
      /\ update' \in Seq(EntriesBelow(store', l))
      /\ Len(update') = Len(nodes)
  BY InductiveSound, StoreAndAscendOver
<1>2. /\ PathOver(path', store')
      /\ path' # <<>> => path'[Len(path')].node.level = l
  BY <1>1, FrontOver
<1>3. Len(update') \in (IF call.op = "insert" THEN 1..2 ELSE 0..1)
  BY <1>1
<1>. HIDE DEF l
<1>. QED
  BY <1>1, <1>2, <1>3, AscendInductive

\* Rewriting and splitting a parent after an insert preserves the invariant.
LEMMA InsertAscendInductive ==
  ASSUME Inductive, InsertAscend
  PROVE  Inductive'
<1>. DEFINE frame == Last(path)
            children == AfterInsert(frame.node.children, frame.idx, update)
            node == WithSlots(frame.node, children)
            nodes == IF Len(update) = 1 THEN <<node>> ELSE Split(node, config)
<1>1. /\ pc = "ascend" /\ call.op = "insert" /\ path # <<>>
      /\ StoreAndAscend(nodes)
      /\ path' = Front(path)
      /\ UNCHANGED <<treeVars, call, gcVars, reply, versions>>
  BY DEF InsertAscend, Ascending
<1>2. /\ frame.node \in BalancedOver(store) /\ frame.node.kind = "Internal"
      /\ Level(frame.node) = frame.node.level
      /\ frame.node.children \in Seq(EntriesBelow(store, frame.node.level))
      /\ frame.idx \in DOMAIN frame.node.children
  BY <1>1, TopFrame DEF Level
<1>3. update \in Seq(EntriesBelow(store, frame.node.level)) /\ Len(update) \in 1..2
  BY <1>1, UpdateBelow DEF Inductive, TypeOK
<1>. HIDE DEF frame
<1>4. children \in Seq(EntriesBelow(store, frame.node.level)) \ {<<>>}
  BY <1>2, <1>3, AfterInsertOver
<1>5. children \in Seq(SlotsOver(frame.node, store)) \ {<<>>}
  BY <1>2, <1>4 DEF SlotsOver
<1>. HIDE DEF children
<1>6. node \in BalancedOver(store) /\ Level(node) = frame.node.level
  BY <1>2, <1>5, WithSlotsOver
<1>. HIDE DEF node
<1>7. config \in Configs
  BY DEF Inductive, TypeOK
<1>8. /\ nodes \in Seq(BalancedOver(store))
      /\ Len(nodes) \in 1..2
      /\ \A i \in DOMAIN nodes : Level(nodes[i]) = frame.node.level
  <2>1. CASE Len(update) = 1
    BY <1>6, <2>1
  <2>2. CASE Len(update) # 1
    BY <1>6, <1>7, <2>2, SplitOver
  <2>. QED
    BY <2>1, <2>2
<1>. HIDE DEF nodes
<1>. QED
  BY <1>1, <1>8, RewriteInductive DEF frame

\* The root an insert makes is a node over the store.
LEMMA NewRootOver ==
  ASSUME Inductive, AtTop("insert")
  PROVE  LET newRoot == IF Len(update) = 1 THEN update[1].child_hash
                        ELSE Internal(Level(update[1].child_hash) + 1, update)
         IN  newRoot \in BalancedOver(store)
<1>. DEFINE l == Level(update[1].child_hash) + 1
<1>1. pc = "ascend" /\ call.op = "insert"
  BY DEF AtTop
<1>2. update \in Seq(InternalEntries(store)) /\ Len(update) \in 1..2
  BY <1>1 DEF Inductive, TypeOK
<1>3. update[1] \in InternalEntries(store) /\ 1 \in DOMAIN update
  BY <1>2, ElementsOfSeq
<1>4. /\ update[1].child_hash \in BalancedOver(store)
      /\ l \in Nat \ {0}
  BY <1>3, InductiveSound, ChildOver, NodeKinds
<1>5. update \in Seq(EntriesBelow(store, l)) \ {<<>>}
  <2>1. ASSUME NEW i \in DOMAIN update
        PROVE  update[i] \in EntriesBelow(store, l)
    <3>1. update[i] \in InternalEntries(store)
      BY <1>2, ElementsOfSeq
    <3>2. /\ update[i] = EntryFor(update[i].child_hash)
          /\ Level(update[i].child_hash) = Level(update[1].child_hash)
      BY <1>1 DEF Inductive, HandingUp
    <3>. QED
      BY <3>1, <3>2 DEF EntriesBelow
  <2>. HIDE DEF l
  <2>2. update \in Seq(EntriesBelow(store, l))
    BY <1>2, <2>1, SeqWithin
  <2>3. Len(update) # 0
    BY <1>2
  <2>4. update # <<>>
    BY <2>3
  <2>. QED
    BY <2>2, <2>4
<1>. HIDE DEF l
<1>. QED
  BY <1>4, <1>5, InternalOver DEF l

\* Setting the root after an insert, grown or not, preserves the invariant.
LEMMA InsertAtTopInductive ==
  ASSUME Inductive, InsertAtTop
  PROVE  Inductive'
<1>. DEFINE newRoot == IF Len(update) = 1 THEN update[1].child_hash
                       ELSE Internal(Level(update[1].child_hash) + 1, update)
<1>1. /\ AtTop("insert")
      /\ store' = store \cup {newRoot}
      /\ SetRoot(newRoot)
      /\ UNCHANGED <<config, gcVars>>
  BY DEF InsertAtTop
<1>2. \E out \in {"changed", "unchanged"} : Return(call, out)
  BY DEF InsertAtTop
<1>3. newRoot \in BalancedOver(store)
  BY <1>1, NewRootOver
<1>. HIDE DEF newRoot
<1>4. Sound(store') /\ newRoot \in NodesIn(store')
  BY <1>1, <1>3, InductiveSound, SoundAdd, NodeKinds DEF NodesIn
<1>5. /\ root' \in NodesIn(store') \cup {None}
      /\ config' \in Configs
      /\ marked' \subseteq store' /\ queue' \subseteq store'
      /\ {root', None} \subseteq versions'
      /\ \A v \in versions' \ {None} : IsNode(v)
  BY <1>1, <1>4 DEF Inductive, TypeOK, SetRoot, gcVars, NodesIn
<1>. QED
  BY <1>2, <1>4, <1>5, ReturnInductive
-----------------------------------------------------------------------------
(***************************************************************************)
(* Delete.                                                                 *)
(***************************************************************************)
LEMMA DeleteInductive ==
  ASSUME Inductive, NEW k \in Keys, Delete(k)
  PROVE  Inductive'
<1>1. CASE root = None
  BY <1>1, QuietReturnInductive DEF Delete
<1>2. CASE root # None
  <2>1. /\ StartDescent([op |-> "delete", key |-> k]) /\ store' = store /\ pc = "idle"
        /\ [op |-> "delete", key |-> k] \in Requests
    BY <1>2 DEF Delete, Requests
  <2>. QED
    BY <1>2, <2>1, InductiveSound, StartInductive
<1>. QED
  BY <1>1, <1>2

\* A delete of an absent key preserves the invariant.
LEMMA DeleteNotFoundInductive ==
  ASSUME Inductive, DeleteNotFound
  PROVE  Inductive'
  BY QuietReturnInductive DEF DeleteNotFound

\* No node when the last slot of a node went, else the rebuilt node.
LEMMA RestOver ==
  ASSUME NEW S, NEW v, NEW slots, NEW n, slots # <<>> => n \in BalancedOver(S) /\ Level(n) = v
  PROVE  LET nodes == IF slots = <<>> THEN <<>> ELSE <<n>>
         IN  /\ nodes \in Seq(BalancedOver(S))
             /\ Len(nodes) \in 0..1
             /\ \A i \in DOMAIN nodes : Level(nodes[i]) = v
  OBVIOUS

\* Removing a key from a leaf, which may vanish, preserves the invariant.
LEMMA DeleteAtLeafInductive ==
  ASSUME Inductive, DeleteAtLeaf
  PROVE  Inductive'
<1>. DEFINE rest == RemoveKey(at.entries, call.key)
            nodes == IF rest = <<>> THEN <<>> ELSE <<Leaf(rest)>>
<1>1. /\ pc = "descend" /\ call.op = "delete" /\ at.kind = "Leaf"
      /\ HasKey(at.entries, call.key)
      /\ StoreAndAscend(nodes)
      /\ UNCHANGED <<treeVars, call, path, gcVars, reply, versions>>
  BY DEF DeleteAtLeaf, AtLeaf
<1>2. /\ at.entries \in Seq(LeafEntries(store))
      /\ Level(at) = 0
      /\ path # <<>> => path[Len(path)].node.level = 1
  BY <1>1, AtNode, NodeKinds DEF Level
<1>3. call.key \in Keys
  BY <1>1, AtNode DEF Requests
<1>4. rest \in Seq(LeafEntries(store))
  BY <1>1, <1>2, <1>3, RemoveKeyOver
<1>. HIDE DEF rest
<1>5. rest # <<>> => Leaf(rest) \in BalancedOver(store) /\ Level(Leaf(rest)) = 0
  BY <1>4, LeafOver
<1>6. /\ nodes \in Seq(BalancedOver(store))
      /\ Len(nodes) \in 0..1
      /\ \A i \in DOMAIN nodes : Level(nodes[i]) = 0
  BY <1>5, RestOver
<1>. HIDE DEF nodes
<1>7. /\ store \subseteq store' /\ Sound(store') /\ pc' = "ascend"
      /\ update' \in Seq(EntriesBelow(store', 0 + 1))
      /\ Len(update') \in 0..1
  BY <1>1, <1>6, InductiveSound, StoreAndAscendOver
<1>8. PathOver(path', store')
  BY <1>1, <1>7, InductiveSound, PathMonotone
<1>9. update' \in Seq(EntriesBelow(store', 1))
  BY <1>7
<1>. QED
  BY <1>1, <1>2, <1>7, <1>8, <1>9, AscendInductive

\* The node on top of the stack, with other children.
LEMMA FrameOver ==
  ASSUME Inductive, path # <<>>, NEW T, store \subseteq T,
         NEW children \in Seq(EntriesBelow(T, Last(path).node.level)) \ {<<>>}
  PROVE  /\ WithSlots(Last(path).node, children) \in BalancedOver(T)
         /\ Level(WithSlots(Last(path).node, children)) = Last(path).node.level
<1>. DEFINE node == Last(path).node
<1>1. node \in BalancedOver(store) /\ node.kind = "Internal" /\ Level(node) = node.level
  BY TopFrame DEF Level
<1>2. children \in Seq(SlotsOver(node, T)) \ {<<>>}
  BY <1>1 DEF SlotsOver
<1>. HIDE DEF node
<1>3. /\ WithSlots(node, children) \in BalancedOver(T)
      /\ Level(WithSlots(node, children)) = node.level
  BY <1>1, <1>2, WithSlotsOver
<1>. QED
  BY <1>3 DEF node

\* Removing a vanished child from its parent preserves the invariant.
LEMMA DeleteChildGoneInductive ==
  ASSUME Inductive, DeleteChildGone
  PROVE  Inductive'
<1>. DEFINE l == Last(path).node.level
            rest == RemoveAt(Last(path).node.children, Last(path).idx)
            node == WithSlots(Last(path).node, rest)
            nodes == IF rest = <<>> THEN <<>> ELSE <<node>>
<1>1. /\ pc = "ascend" /\ call.op = "delete" /\ path # <<>>
      /\ StoreAndAscend(nodes)
      /\ path' = Front(path)
      /\ UNCHANGED <<treeVars, call, gcVars, reply, versions>>
  BY DEF DeleteChildGone, Ascending
<1>2. rest \in Seq(EntriesBelow(store, l))
  BY <1>1, TopFrame, ElementsOfSeq, RemoveAtSeq
<1>3. rest # <<>> => node \in BalancedOver(store) /\ Level(node) = l
  <2>. HIDE DEF rest
  <2>. QED
    BY <1>1, <1>2, FrameOver
<1>. HIDE DEF rest, node, l
<1>4. /\ nodes \in Seq(BalancedOver(store))
      /\ Len(nodes) \in 0..1
      /\ \A i \in DOMAIN nodes : Level(nodes[i]) = l
  BY <1>3, RestOver
<1>. HIDE DEF nodes
<1>. QED
  BY <1>1, <1>4, RewriteInductive DEF l

\* The children of the node being rewritten.
LEMMA RewrittenOver ==
  ASSUME Inductive, pc = "ascend", path # <<>>, update # <<>>
  PROVE  /\ Rewritten \in Seq(EntriesBelow(store, Last(path).node.level)) \ {<<>>}
         /\ Last(path).idx \in DOMAIN Rewritten
<1>. DEFINE E == EntriesBelow(store, Last(path).node.level)
            children == Last(path).node.children
            idx == Last(path).idx
<1>1. children \in Seq(E) \ {<<>>} /\ idx \in DOMAIN children
  BY TopFrame
<1>2. update[1] \in E
  BY UpdateBelow, ElementsOfSeq
<1>3. Rewritten = [children EXCEPT ![idx] = update[1]]
  BY DEF Rewritten
<1>. HIDE DEF E, children, idx
<1>4. idx \in 1..Len(children) /\ Len(children) > 0
  BY <1>1, ElementsOfSeq
<1>5. Rewritten \in Seq(E) /\ Len(Rewritten) = Len(children)
  BY <1>1, <1>2, <1>3, <1>4, ExceptSeq
<1>. QED
  BY <1>4, <1>5, ElementsOfSeq DEF E, idx

\* Rewriting a parent after a delete preserves the invariant.
LEMMA DeleteAscendInductive ==
  ASSUME Inductive, DeleteAscend
  PROVE  Inductive'
<1>. DEFINE l == Last(path).node.level
            node == WithSlots(Last(path).node, Rewritten)
<1>1. /\ pc = "ascend" /\ call.op = "delete" /\ path # <<>> /\ update # <<>>
      /\ StoreAndAscend(<<node>>)
      /\ path' = Front(path)
      /\ UNCHANGED <<treeVars, call, gcVars, reply, versions>>
  BY DEF DeleteAscend, Ascending
<1>2. node \in BalancedOver(store) /\ Level(node) = l
  BY <1>1, RewrittenOver, FrameOver
<1>. HIDE DEF node, l
<1>3. /\ <<node>> \in Seq(BalancedOver(store))
      /\ Len(<<node>>) \in 0..1
      /\ \A i \in DOMAIN <<node>> : Level(<<node>>[i]) = l
  BY <1>2
<1>. QED
  BY <1>1, <1>3, RewriteInductive DEF l

\* What a rebalanced node has as children is stored, or among what is remade.
LEMMA RebalancedOver ==
  ASSUME Inductive, DeleteRebalance
  PROVE  LET l        == Last(path).node.level
             children == HandleUnderflow(Rewritten, Last(path).idx, config)
             remade   == {c.child_hash : c \in ToSet(children)}
                           \ {c.child_hash : c \in ToSet(Rewritten)}
             T        == store \cup remade
         IN  Sound(T) /\ children \in Seq(EntriesBelow(T, l)) \ {<<>>}
<1>. DEFINE l == Last(path).node.level
            children == HandleUnderflow(Rewritten, Last(path).idx, config)
            remade == {c.child_hash : c \in ToSet(children)}
                        \ {c.child_hash : c \in ToSet(Rewritten)}
            T == store \cup remade
<1>1. /\ pc = "ascend" /\ path # <<>> /\ update # <<>>
      /\ HasSibling(Rewritten)
  BY DEF DeleteRebalance, ChildUnderflows, Ascending
<1>2. Sound(store) /\ config \in Configs
  BY InductiveSound DEF Inductive, TypeOK
<1>3. Rewritten \in Seq(EntriesBelow(store, l)) /\ Last(path).idx \in DOMAIN Rewritten
  BY <1>1, RewrittenOver
<1>4. PICK M \in SUBSET BalancedOver(store) :
        children \in Seq(EntriesBelow(store \cup M, l)) \ {<<>>}
  BY <1>1, <1>2, <1>3, HandleUnderflowOver
<1>. HIDE DEF children
<1>5. \A c \in ToSet(children) : c \in EntriesBelow(store \cup M, l)
  BY <1>4, ElementsOfSeq DEF ToSet
<1>6. \A c \in ToSet(Rewritten) : c.child_hash \in store
  BY <1>3, ElementsOfSeq DEF ToSet, EntriesBelow, InternalEntries, NodesIn
<1>7. remade \subseteq DataChunks \cup BalancedOver(store)
  BY <1>2, <1>5 DEF EntriesBelow, InternalEntries, NodesIn, Sound
<1>8. \A c \in ToSet(children) : c.child_hash \in T
  BY <1>6
<1>9. children \in Seq(EntriesBelow(T, l)) \ {<<>>}
  <2>1. ASSUME NEW i \in DOMAIN children
        PROVE  children[i] \in EntriesBelow(T, l)
    <3>1. children[i] \in ToSet(children)
      BY DEF ToSet
    <3>. HIDE DEF T
    <3>. QED
      BY <1>5, <1>8, <3>1 DEF EntriesBelow, InternalEntries, NodesIn
  <2>. HIDE DEF T
  <2>. QED
    BY <1>4, <2>1, SeqWithin
<1>10. Sound(T)
  BY <1>2, <1>7, SoundAdd
<1>. QED
  BY <1>9, <1>10 DEF children

\* Borrowing and merging preserve the invariant.
LEMMA DeleteRebalanceInductive ==
  ASSUME Inductive, DeleteRebalance
  PROVE  Inductive'
<1>. DEFINE l == Last(path).node.level
            children == HandleUnderflow(Rewritten, Last(path).idx, config)
            node == WithSlots(Last(path).node, children)
            T == store \cup ({c.child_hash : c \in ToSet(children)}
                               \ {c.child_hash : c \in ToSet(Rewritten)})
<1>1. /\ pc = "ascend" /\ call.op = "delete" /\ path # <<>>
      /\ store' = T \cup {node} /\ store \subseteq T
      /\ update' = <<EntryFor(node)>>
      /\ path' = Front(path)
      /\ UNCHANGED <<treeVars, pc, call, at, gcVars, reply, versions>>
  BY DEF DeleteRebalance, ChildUnderflows, Ascending
<1>2. Sound(T) /\ children \in Seq(EntriesBelow(T, l)) \ {<<>>}
  BY RebalancedOver
<1>. HIDE DEF children, T
<1>3. node \in BalancedOver(T) /\ Level(node) = l
  BY <1>1, <1>2, FrameOver
<1>. HIDE DEF node
<1>4. Sound(store') /\ node \in store' /\ store \subseteq store'
  BY <1>1, <1>2, <1>3, SoundAdd
<1>5. EntryFor(node) \in EntriesBelow(store', l + 1)
  BY <1>3, <1>4, EntryForOver
<1>6. update' \in Seq(EntriesBelow(store', l + 1)) /\ Len(update') \in 0..1
  BY <1>1, <1>5, SingletonSeq
<1>7. /\ PathOver(path', store')
      /\ path' # <<>> => path'[Len(path')].node.level = l + 1
  BY <1>1, <1>4, FrontOver
<1>. HIDE DEF l
<1>. QED
  BY <1>1, <1>4, <1>6, <1>7, AscendInductive

\* The siblings of a rewritten child are stored.
LEMMA SiblingNeverMissing ==
  ASSUME Inductive
  PROVE  ~SiblingMissing
<1>. SUFFICES ASSUME SiblingMissing
              PROVE  FALSE
  OBVIOUS
<1>1. Rewritten \in Seq(EntriesBelow(store, Last(path).node.level))
  BY RewrittenOver DEF SiblingMissing, ChildUnderflows, Ascending
<1>2. \A j \in DOMAIN Rewritten : Rewritten[j].child_hash \in store
  BY <1>1, ElementsOfSeq DEF EntriesBelow, InternalEntries, NodesIn
<1>3. SiblingsRead(Rewritten, Last(path).idx, config) \subseteq store
  BY <1>2 DEF SiblingsRead
<1>. QED
  BY <1>3 DEF SiblingMissing

\* A delete that fails for want of a sibling preserves the invariant.
LEMMA NoSiblingInductive ==
  ASSUME Inductive, NoSibling
  PROVE  Inductive'
  BY QuietReturnInductive DEF NoSibling, Fail

\* Setting the root after a delete, collapsed or not, preserves the invariant.
LEMMA DeleteAtTopInductive ==
  ASSUME Inductive, DeleteAtTop
  PROVE  Inductive'
<1>. DEFINE newRoot == IF update = <<>> THEN None ELSE Collapse(update[1].child_hash)
<1>1. /\ pc = "ascend" /\ SetRoot(newRoot) /\ Return(call, "deleted")
      /\ UNCHANGED <<store, config, gcVars>>
  BY DEF DeleteAtTop, AtTop
<1>2. ASSUME update # <<>>
      PROVE  Collapse(update[1].child_hash) \in NodesIn(store)
  <2>. DEFINE hash == update[1].child_hash
  <2>1. update[1] \in InternalEntries(store)
    BY <1>2, ElementsOfSeq DEF Inductive, TypeOK
  <2>2. hash \in NodesIn(store) /\ hash \in BalancedOver(store)
    BY <2>1, InductiveSound, ChildOver DEF InternalEntries
  <2>. HIDE DEF hash
  <2>3. CASE hash.kind = "Internal" /\ Len(hash.children) = 1
    <3>1. hash.children \in Seq(EntriesBelow(store, hash.level)) \ {<<>>}
      BY <2>2, <2>3, NodeKinds
    <3>2. hash.children[1] \in EntriesBelow(store, hash.level)
      BY <3>1, ElementsOfSeq
    <3>. QED
      BY <2>3, <3>2 DEF Collapse, EntriesBelow, InternalEntries, hash
  <2>4. CASE ~(hash.kind = "Internal" /\ Len(hash.children) = 1)
    BY <2>2, <2>4 DEF Collapse, hash
  <2>. QED
    BY <2>3, <2>4
<1>3. newRoot \in NodesIn(store) \cup {None}
  BY <1>2
<1>. HIDE DEF newRoot
<1>4. /\ Sound(store')
      /\ root' \in NodesIn(store') \cup {None}
      /\ config' \in Configs
      /\ marked' \subseteq store' /\ queue' \subseteq store'
      /\ {root', None} \subseteq versions'
      /\ \A v \in versions' \ {None} : IsNode(v)
  BY <1>1, <1>3, InductiveSound DEF Inductive, TypeOK, SetRoot, gcVars, NodesIn
<1>. QED
  BY <1>1, <1>4, ReturnInductive
-----------------------------------------------------------------------------
(***************************************************************************)
(* Versions and garbage collection.                                        *)
(***************************************************************************)
\* A call that makes another known version the current one.
LEMMA SwitchInductive ==
  ASSUME Inductive, NEW hash \in versions, hash = None \/ hash \in store,
         NEW request, NEW out, Return(request, out),
         SetRoot(hash), store' = store, config' \in Configs, UNCHANGED gcVars
  PROVE  Inductive'
<1>1. hash \in NodesIn(store) \cup {None}
  BY DEF Inductive, TypeOK, NodesIn
<1>2. /\ Sound(store')
      /\ root' \in NodesIn(store') \cup {None}
      /\ config' \in Configs
      /\ marked' \subseteq store' /\ queue' \subseteq store'
      /\ {root', None} \subseteq versions'
      /\ \A v \in versions' \ {None} : IsNode(v)
  BY <1>1, InductiveSound DEF Inductive, TypeOK, SetRoot, gcVars, NodesIn
<1>. QED
  BY <1>2, ReturnInductive

\* A checkout preserves the invariant.
LEMMA CheckoutInductive ==
  ASSUME Inductive, NEW hash \in versions, Checkout(hash)
  PROVE  Inductive'
<1>1. \E out \in {"changed", "unchanged"} : Return([op |-> "checkout", hash |-> hash], out)
  BY DEF Checkout
<1>2. config' \in Configs
  BY DEF Checkout, Inductive, TypeOK
<1>. QED
  BY <1>1, <1>2, SwitchInductive DEF Checkout

\* A checkout that finds no chunk preserves the invariant.
LEMMA CheckoutMissingInductive ==
  ASSUME Inductive, NEW hash, CheckoutMissing(hash)
  PROVE  Inductive'
  BY QuietReturnInductive DEF CheckoutMissing

\* A load of a complete export preserves the invariant.
LEMMA LoadInductive ==
  ASSUME Inductive, NEW hash \in versions, NEW c \in Configs, Load(hash, c, {})
  PROVE  Inductive'
<1>1. hash = None \/ hash \in store
  BY DEF Load
<1>2. store' = store /\ config' \in Configs
  BY DEF Load
<1>. QED
  BY <1>1, <1>2, SwitchInductive DEF Load

\* The beginning of a collection preserves the invariant.
LEMMA CollectInductive ==
  ASSUME Inductive, NEW keep, Collect(keep)
  PROVE  Inductive'
<1>. USE DEF treeVars, gcVars
<1>1. TypeOK'
  BY DEF Collect, Inductive, TypeOK, Frames
<1>2. StoreClosed' /\ StoreBalanced' /\ EntriesExact'
  BY DEF Collect, Inductive, StoreClosed, StoreBalanced, EntriesExact
<1>3. Descending' /\ HandingUp'
  BY DEF Collect, Inductive, TypeOK, Descending, HandingUp
<1>4. Marking'
  BY DEF Collect, LiveRoots, Marking
<1>. QED
  BY <1>1, <1>2, <1>3, <1>4 DEF Inductive

\* Marking one chunk preserves the invariant.
LEMMA MarkInductive ==
  ASSUME Inductive, NEW hash, Mark(hash)
  PROVE  Inductive'
<1>. USE DEF treeVars, walkVars
<1>1. TypeOK'
  BY DEF Mark, Inductive, TypeOK, Frames
<1>2. StoreClosed' /\ StoreBalanced' /\ EntriesExact'
  BY DEF Mark, Inductive, StoreClosed, StoreBalanced, EntriesExact
<1>3. Descending' /\ HandingUp'
  BY DEF Mark, Inductive, Descending, HandingUp
<1>4. Marking'
  BY DEF Mark, Inductive, Marking
<1>. QED
  BY <1>1, <1>2, <1>3, <1>4 DEF Inductive

\* When nothing is left to mark, what is marked is all a live root reaches.
LEMMA MarkedSound ==
  ASSUME Inductive, pc = "mark", queue = {}
  PROVE  /\ Sound(marked)
         /\ store \cap marked = marked
         /\ call.live \cap store \subseteq marked
         /\ root \in NodesIn(marked) \cup {None}
<1>1. marked \subseteq store /\ Sound(store)
  BY InductiveSound DEF Inductive, TypeOK
<1>2. \A c \in marked : References(c) \subseteq marked
  BY <1>1, ReferencesOver DEF Inductive, Marking
<1>3. Sound(marked)
  BY <1>1, <1>2, SoundKeep
<1>4. call.live \cap store \subseteq marked
  BY DEF Inductive, Marking
<1>5. root \in NodesIn(marked) \cup {None}
  BY <1>4 DEF Inductive, TypeOK, Marking, NodesIn
<1>. QED
  BY <1>1, <1>3, <1>4, <1>5

\* The sweep preserves the invariant: nothing it keeps refers to what it deletes.
LEMMA SweepInductive ==
  ASSUME Inductive, Sweep
  PROVE  Inductive'
<1>1. /\ pc = "mark" /\ queue = {} /\ store' = store \cap marked
      /\ Return(call, "done") /\ marked' = {}
      /\ UNCHANGED <<treeVars, queue, versions>>
  BY DEF Sweep
<1>2. /\ Sound(store')
      /\ root' \in NodesIn(store') \cup {None}
  BY <1>1, MarkedSound DEF treeVars
<1>3. /\ config' \in Configs
      /\ marked' \subseteq store' /\ queue' \subseteq store'
      /\ {root', None} \subseteq versions'
      /\ \A v \in versions' \ {None} : IsNode(v)
  BY <1>1 DEF Inductive, TypeOK, treeVars
<1>. QED
  BY <1>1, <1>2, <1>3, ReturnInductive

\* A step that changes nothing preserves the invariant.
LEMMA StutterInductive ==
  ASSUME Inductive, UNCHANGED vars
  PROVE  Inductive'
  BY DEF Inductive, vars, treeVars, walkVars, gcVars, TypeOK, Frames, StoreClosed,
         StoreBalanced, EntriesExact, Descending, HandingUp, Marking
-----------------------------------------------------------------------------
(***************************************************************************)
(* The theorems.                                                           *)
(***************************************************************************)
LEMMA InitInductive ==
  ASSUME Init
  PROVE  Inductive
<1>. USE DEF Init
<1>1. TypeOK
  BY DEF TypeOK, Frames, NoCall
<1>2. StoreClosed /\ StoreBalanced /\ EntriesExact
  BY DEF StoreClosed, StoreBalanced, EntriesExact
<1>3. Descending /\ HandingUp /\ Marking
  BY DEF Descending, HandingUp, Marking, NoCall
<1>. QED
  BY <1>1, <1>2, <1>3 DEF Inductive

\* Every step preserves the invariant.
LEMMA NextInductive ==
  ASSUME Inductive, [Next]_vars
  PROVE  Inductive'
<1>1. CASE Call
  <2>1. ASSUME NEW k \in Keys, Get(k) \/ Delete(k)
        PROVE  Inductive'
    BY <2>1, GetInductive, DeleteInductive
  <2>2. ASSUME NEW k \in Keys, NEW v \in Values, Insert(k, v)
        PROVE  Inductive'
    BY <2>2, InsertInductive
  <2>3. ASSUME NEW h \in versions, Checkout(h) \/ CheckoutMissing(h)
        PROVE  Inductive'
    BY <2>3, CheckoutInductive, CheckoutMissingInductive
  <2>4. ASSUME NEW h \in versions, NEW c \in Configs, Load(h, c, {})
        PROVE  Inductive'
    BY <2>4, LoadInductive
  <2>5. ASSUME NEW keep, Collect(keep)
        PROVE  Inductive'
    BY <2>5, CollectInductive
  <2>. QED
    BY <1>1, <2>1, <2>2, <2>3, <2>4, <2>5 DEF Call
<1>2. CASE Step
  <2>1. CASE Descend \/ NodeMissing \/ GetAtLeaf
    BY <2>1, DescendInductive, NodeNeverMissing, GetAtLeafInductive
  <2>2. CASE InsertAtLeaf \/ InsertAscend \/ InsertAtTop
    BY <2>2, InsertAtLeafInductive, InsertAscendInductive, InsertAtTopInductive
  <2>3. CASE DeleteNotFound \/ DeleteAtLeaf \/ DeleteChildGone \/ DeleteAscend
    BY <2>3, DeleteNotFoundInductive, DeleteAtLeafInductive, DeleteChildGoneInductive,
       DeleteAscendInductive
  <2>4. CASE DeleteRebalance \/ SiblingMissing \/ NoSibling \/ DeleteAtTop
    BY <2>4, DeleteRebalanceInductive, SiblingNeverMissing, NoSiblingInductive,
       DeleteAtTopInductive
  <2>5. ASSUME NEW h \in queue, Mark(h)
        PROVE  Inductive'
    BY <2>5, MarkInductive
  <2>6. CASE Sweep
    BY <2>6, SweepInductive
  <2>. QED
    BY <1>2, <2>1, <2>2, <2>3, <2>4, <2>5, <2>6 DEF Step
<1>3. CASE UNCHANGED vars
  BY <1>3, StutterInductive
<1>. QED
  BY <1>1, <1>2, <1>3 DEF Next

(***************************************************************************)
(* What holds between the steps of any call, the invariant the others are  *)
(* parts of.                                                               *)
(***************************************************************************)
THEOREM InductiveHolds == Spec => []Inductive
<1>1. Init => Inductive
  BY InitInductive
<1>2. Inductive /\ [Next]_vars => Inductive'
  BY NextInductive
<1>. QED
  BY <1>1, <1>2, PTL DEF Spec

\* Every variable holds what the code's variables hold.
THEOREM TypeCorrect == Spec => []TypeOK
<1>1. Inductive => TypeOK
  BY DEF Inductive
<1>. QED
  BY <1>1, InductiveHolds, PTL

(***************************************************************************)
(* Whatever the store holds resolves completely, in the middle of every    *)
(* insert, delete and collection as between them.                          *)
(***************************************************************************)
THEOREM StoreStaysClosed == Spec => []StoreClosed
<1>1. Inductive => StoreClosed
  BY DEF Inductive
<1>. QED
  BY <1>1, InductiveHolds, PTL

(***************************************************************************)
(* All leaves of a stored tree are at one depth, so that siblings are      *)
(* always of one kind when delete borrows between them or merges them.     *)
(***************************************************************************)
THEOREM StoreStaysBalanced == Spec => []StoreBalanced
<1>1. Inductive => StoreBalanced
  BY DEF Inductive
<1>. QED
  BY <1>1, InductiveHolds, PTL

(***************************************************************************)
(* What a stored node says of a child, in any version, is what the child   *)
(* is: its largest key and the number of items below it.                   *)
(***************************************************************************)
THEOREM EntriesStayExact == Spec => []EntriesExact
<1>1. Inductive => EntriesExact
  BY DEF Inductive
<1>. QED
  BY <1>1, InductiveHolds, PTL

(***************************************************************************)
(* Replies: what a call returns with is an error only where it is said.    *)
(***************************************************************************)
LEMMA ReplyNotMissing ==
  ASSUME NEW request, NEW out, Return(request, out),
         out = "ChunkNotFound" => request.op = "checkout"
  PROVE  NothingMissing'
  BY DEF Return, NothingMissing

\* A step that does not return says nothing new.
LEMMA QuietNotMissing ==
  ASSUME NothingMissing, reply' = reply
  PROVE  NothingMissing'
  BY DEF NothingMissing

\* A get finds the data chunks of the value it returns.
LEMMA GetAtLeafFinds ==
  ASSUME Inductive, GetAtLeaf
  PROVE  \E out : Return(call, out) /\ out # "ChunkNotFound"
<1>. DEFINE entry == at.entries[KeyPosition(at.entries, call.key)]
<1>1. pc = "descend" /\ at.kind = "Leaf" /\ at \in BalancedOver(store) /\ call \in Requests
  BY AtNode DEF GetAtLeaf, AtLeaf
<1>2. at.entries \in Seq(LeafEntries(store))
  BY <1>1, NodeKinds
<1>3. call.key \in Keys
  BY <1>1 DEF Requests
<1>4. CASE HasKey(at.entries, call.key)
  <2>1. KeyPosition(at.entries, call.key) \in DOMAIN at.entries
    BY <1>2, <1>3, <1>4, KeyPositionRange, KeysAssumption, ElementsOfSeq
  <2>2. entry \in LeafEntries(store)
    BY <1>2, <2>1, ElementsOfSeq
  <2>3. PICK v \in Values : entry.value = ValueRepr(v)
    BY <2>2 DEF LeafEntries
  <2>4. ValueOf(entry.value) # "ChunkNotFound"
    BY <2>3, ValueRoundTrip, ErrorsAssumption
  <2>5. entry.value.repr = "Chunked" => ToSet(entry.value.chunk_hashes) \subseteq store
    BY <2>2 DEF LeafEntries, ReprChunks
  <2>6. Return(call, ValueOf(entry.value))
    BY <1>4, <2>5 DEF GetAtLeaf
  <2>. QED
    BY <2>4, <2>6
<1>5. CASE ~HasKey(at.entries, call.key)
  <2>1. Return(call, None) /\ None # "ChunkNotFound"
    BY <1>5, ErrorsAssumption DEF GetAtLeaf
  <2>. QED
    BY <2>1
<1>. QED
  BY <1>4, <1>5

\* No call begins with an error.
LEMMA CallNotMissing ==
  ASSUME NothingMissing, Call
  PROVE  NothingMissing'
<1>1. ASSUME NEW k \in Keys, Get(k)
      PROVE  NothingMissing'
  BY <1>1, ErrorsAssumption, ReplyNotMissing, QuietNotMissing DEF Get, StartDescent
<1>2. ASSUME NEW k \in Keys, Delete(k)
      PROVE  NothingMissing'
  BY <1>2, ReplyNotMissing, QuietNotMissing DEF Delete, StartDescent
<1>3. ASSUME NEW k \in Keys, NEW v \in Values, Insert(k, v)
      PROVE  NothingMissing'
  BY <1>3, ReplyNotMissing, QuietNotMissing DEF Insert, StartDescent
<1>4. ASSUME NEW h \in versions, Checkout(h) \/ CheckoutMissing(h)
      PROVE  NothingMissing'
  <2>1. \E out : Return([op |-> "checkout", hash |-> h], out)
    BY <1>4 DEF Checkout, CheckoutMissing
  <2>. QED
    BY <2>1, ReplyNotMissing
<1>5. ASSUME NEW h \in versions, NEW c \in Configs, Load(h, c, {})
      PROVE  NothingMissing'
  BY <1>5, ReplyNotMissing DEF Load
<1>6. ASSUME NEW keep, Collect(keep)
      PROVE  NothingMissing'
  BY <1>6, QuietNotMissing DEF Collect
<1>. QED
  BY <1>1, <1>2, <1>3, <1>4, <1>5, <1>6 DEF Call

\* No step of a call misses a chunk, because the store is closed.
LEMMA NextNotMissing ==
  ASSUME Inductive, NothingMissing, [Next]_vars
  PROVE  NothingMissing'
<1>1. CASE \/ Descend \/ InsertAtLeaf \/ InsertAscend \/ DeleteAtLeaf \/ DeleteChildGone
           \/ DeleteAscend \/ DeleteRebalance \/ (\E h \in queue : Mark(h)) \/ UNCHANGED vars
  BY <1>1, QuietNotMissing DEF Descend, InsertAtLeaf, InsertAscend, DeleteAtLeaf,
     DeleteChildGone, DeleteAscend, DeleteRebalance, Mark, vars
<1>2. CASE NodeMissing \/ SiblingMissing
  BY <1>2, NodeNeverMissing, SiblingNeverMissing
<1>3. CASE GetAtLeaf
  BY <1>3, GetAtLeafFinds, ReplyNotMissing
<1>4. CASE InsertAtTop
  <2>1. \E out \in {"changed", "unchanged"} : Return(call, out)
    BY <1>4 DEF InsertAtTop
  <2>. QED
    BY <2>1, ReplyNotMissing
<1>5. CASE DeleteNotFound \/ DeleteAtTop \/ Sweep
  BY <1>5, ReplyNotMissing DEF DeleteNotFound, DeleteAtTop, Sweep
<1>6. CASE NoSibling
  BY <1>6, ReplyNotMissing DEF NoSibling, Fail
<1>. QED
  BY <1>1, <1>2, <1>3, <1>4, <1>5, <1>6, CallNotMissing DEF Next, Step

\* Only a checkout of a collected version can fail with ChunkNotFound.
THEOREM NothingGoesMissing == Spec => []NothingMissing
<1>1. Init => NothingMissing
  BY DEF Init, NothingMissing
<1>2. Inductive /\ NothingMissing /\ [Next]_vars => NothingMissing'
  BY NextNotMissing
<1>. QED
  BY <1>1, <1>2, InductiveHolds, PTL DEF Spec

(***************************************************************************)
(* A collection keeps all that its live roots reach and nothing else, the  *)
(* tree's own root being live whatever the application passes.             *)
(***************************************************************************)
THEOREM CollectionIsExact == Spec => GcExact
<1>1. ASSUME Inductive, [Next]_vars
      PROVE  [SweepIsExact]_vars
  <2>. SUFFICES ASSUME pc = "mark", pc' = "idle"
                PROVE  /\ call.live \cap store \subseteq store'
                       /\ \A c \in store' : \/ c \in call.live
                                           \/ \E p \in store' : c \in References(p)
    BY DEF SweepIsExact
  <2>1. Sweep
    <3>1. ~Call
      BY DEF Call, Get, Insert, Delete, Checkout, CheckoutMissing, Load, Collect
    <3>2. pc \notin {"descend", "ascend"} /\ pc' # pc
      OBVIOUS
    <3>3. \A h \in queue : ~Mark(h)
      BY <3>2 DEF Mark
    <3>4. ~(Descend \/ NodeMissing \/ GetAtLeaf \/ InsertAtLeaf \/ InsertAscend
              \/ InsertAtTop)
      BY <3>2 DEF Descend, NodeMissing, GetAtLeaf, InsertAtLeaf, AtLeaf, InsertAscend,
                 Ascending, InsertAtTop, AtTop
    <3>5. ~(DeleteNotFound \/ DeleteAtLeaf \/ DeleteChildGone \/ DeleteAscend
              \/ DeleteRebalance \/ SiblingMissing \/ NoSibling \/ DeleteAtTop)
      BY <3>2 DEF DeleteNotFound, DeleteAtLeaf, AtLeaf, DeleteChildGone, DeleteAscend,
                 DeleteRebalance, ChildUnderflows, SiblingMissing, NoSibling, Ascending,
                 DeleteAtTop, AtTop
    <3>. QED
      BY <1>1, <3>1, <3>2, <3>3, <3>4, <3>5 DEF Next, Step, vars
  <2>2. queue = {} /\ store' = marked
    BY <1>1, <2>1, MarkedSound DEF Sweep
  <2>. QED
    BY <1>1, <2>1, <2>2 DEF Sweep, Inductive, TypeOK, Marking
<1>2. Inductive /\ [Next]_vars => [SweepIsExact]_vars
  BY <1>1
<1>. QED
  BY <1>2, InductiveHolds, PTL DEF Spec, GcExact
-----------------------------------------------------------------------------
(***************************************************************************)
(* The keys of every stored tree are in order.  `KeepingOrder' is          *)
(* inductive relative to `Inductive', one lemma for each action that       *)
(* stores a node or moves on the stack.                                    *)
(***************************************************************************)
(***************************************************************************)
(* The nodes on the stack are those a search for the key goes by.          *)
(***************************************************************************)
LEMMA OrderedStore ==
  ASSUME Inductive, KeepingOrder
  PROVE  Sound(store) /\ Ordered(store)
BY InductiveSound DEF KeepingOrder, StoreOrdered, Ordered

\* The key of an insert or a delete.
LEMMA CallKey ==
  ASSUME Inductive, pc \in {"descend", "ascend"}
  PROVE  call.key \in Keys /\ call.key \in Int
BY KeysAssumption DEF Inductive, TypeOK, Requests

\* The parent of the node a descent is at has its entry where it went down.
LEMMA AboveNode ==
  ASSUME Inductive, KeepingOrder, pc = "descend", path # <<>>
  PROVE  Left(Last(path)) = EntryFor(at)
<1>1. Left(Last(path)) \in EntriesBelow(store, Last(path).node.level)
  BY TopFrame, ElementsOfSeq DEF Left
<1>2. at = Left(Last(path)).child_hash
  BY DEF KeepingOrder, Searching
<1>. QED
  BY <1>1, <1>2 DEF EntriesBelow

\* So has the parent of the node on top of the stack.
LEMMA AboveTop ==
  ASSUME Inductive, KeepingOrder, pc = "ascend", path # <<>>, Front(path) # <<>>
  PROVE  Left(Last(Front(path))) = EntryFor(Last(path).node)
<1>. DEFINE F == [node : NodesIn(store), idx : Nat]
<1>1. path \in Seq(F) \ {<<>>}
  BY InductiveSound DEF PathOver
<1>. HIDE DEF F
<1>2. /\ Front(path) \in Seq(F) /\ Len(Front(path)) = Len(path) - 1
      /\ \A i \in 1..(Len(path) - 1) : Front(path)[i] = path[i]
  BY <1>1, FrontSeq
<1>3. Len(path) \in 2..Len(path) /\ Len(path) - 1 \in 1..(Len(path) - 1)
      /\ Len(path) - 1 \in DOMAIN path
  BY <1>1, <1>2, ElementsOfSeq
<1>. DEFINE above == path[Len(path) - 1]
<1>4. Last(Front(path)) = above
  BY <1>2, <1>3 DEF Last
<1>5. Last(path).node = Left(above).child_hash
  BY <1>3 DEF KeepingOrder, Searching, Last
<1>6. /\ above.node \in BalancedOver(store) /\ above.node.kind = "Internal"
      /\ above.idx \in DOMAIN above.node.children
  <2>1. above \in F
    BY <1>1, <1>3, ElementsOfSeq
  <2>2. /\ above.node.kind = "Internal"
        /\ above.idx \in DOMAIN above.node.children
    BY <1>3, InductiveSound DEF PathOver
  <2>. QED
    BY <2>1, <2>2, InductiveSound, StoredNode DEF F, NodesIn
<1>. HIDE DEF above
<1>7. Left(above) \in EntriesBelow(store, above.node.level)
  BY <1>6, NodeKinds, ElementsOfSeq DEF Left
<1>. QED
  BY <1>4, <1>5, <1>7 DEF EntriesBelow

(***************************************************************************)
(* A step that replaces the node `old' and hands up entries for what it    *)
(* made of it: the one a descent is at, or the one on top of the stack.    *)
(***************************************************************************)
Replaces(old) ==
  \/ pc = "descend" /\ path' = path /\ old = at
  \/ pc = "ascend" /\ path # <<>> /\ path' = Front(path) /\ old = Last(path).node

\* The stack that is left is still that of a search for the key.
LEMMA SearchingUp ==
  ASSUME Inductive, KeepingOrder, NEW old, Replaces(old), pc' = "ascend", call' = call
  PROVE  Searching'
<1>1. CASE path' = path
  BY <1>1 DEF Replaces, KeepingOrder, Searching
<1>2. CASE path # <<>> /\ path' = Front(path)
  <2>. DEFINE F == [node : NodesIn(store), idx : Nat]
  <2>1. path \in Seq(F) \ {<<>>}
    BY <1>2, InductiveSound DEF PathOver
  <2>. HIDE DEF F
  <2>2. /\ Len(path') = Len(path) - 1
        /\ DOMAIN path' = 1..(Len(path) - 1)
        /\ \A i \in 1..(Len(path) - 1) : path'[i] = path[i]
    BY <1>2, <2>1, FrontSeq
  <2>3. Len(path) \in Nat /\ DOMAIN path = 1..Len(path)
    BY <2>1, ElementsOfSeq
  <2>4. pc \in {"descend", "ascend"}
    BY DEF Replaces
  <2>5. \A i \in DOMAIN path' : path'[i].idx = ChildIndex(path'[i].node.children, call'.key)
    BY <2>2, <2>3, <2>4 DEF KeepingOrder, Searching
  <2>6. ASSUME NEW i \in 2..Len(path')
        PROVE  path'[i].node = Left(path'[i - 1]).child_hash
    <3>1. i \in 2..Len(path) /\ path'[i] = path[i] /\ path'[i - 1] = path[i - 1]
      BY <2>2, <2>3
    <3>. QED
      BY <2>4, <3>1 DEF KeepingOrder, Searching
  <2>. QED
    BY <2>5, <2>6 DEF Searching, Left
<1>. QED
  BY <1>1, <1>2 DEF Replaces

\* What is handed up is compared with the slots of the node it replaces.
LEMMA HandUpInOrder ==
  ASSUME Inductive, KeepingOrder, NEW old \in BalancedOver(store), Replaces(old),
         pc' = "ascend", call' = call, StoreOrdered',
         InOrder(update'), GoesNoFurther(update', Slots(old), call.key)
  PROVE  KeepingOrder'
<1>1. Searching'
  BY SearchingUp
<1>2. GoesNoFurther(update', <<EntryFor(old)>>, call.key)
  BY InductiveSound, NoFurtherThanEntry
<1>3. path' # <<>> => Left(Last(path')) = EntryFor(old)
  BY AboveNode, AboveTop DEF Replaces
<1>4. path' # <<>> => Left(Last(path))' = EntryFor(old)
  BY <1>3 DEF Left, Last
<1>5. Replacing'
  BY <1>2, <1>4 DEF Replacing
<1>. QED
  BY <1>1, <1>5 DEF KeepingOrder

\* Storing nodes whose slots are in order.
LEMMA StoreMoreOrdered ==
  ASSUME StoreOrdered, NEW M, store' \subseteq store \cup M,
         \A n \in M : IsNode(n) => InOrder(Slots(n))
  PROVE  StoreOrdered'
BY DEF StoreOrdered, NodesIn

\* A step that makes a node of the slots of `old', and may split it.
LEMMA StoreAndAscendInOrder ==
  ASSUME Inductive, KeepingOrder, NEW old \in BalancedOver(store), Replaces(old),
         NEW nodes, StoreAndAscend(nodes), call' = call,
         \A i \in DOMAIN nodes : InOrder(Slots(nodes[i])),
         LET entries == [i \in DOMAIN nodes |-> EntryFor(nodes[i])]
         IN  InOrder(entries) /\ GoesNoFurther(entries, Slots(old), call.key)
  PROVE  KeepingOrder'
<1>1. /\ store' = store \cup ToSet(nodes) /\ pc' = "ascend"
      /\ InOrder(update') /\ GoesNoFurther(update', Slots(old), call.key)
  BY DEF StoreAndAscend
<1>2. \A n \in ToSet(nodes) : InOrder(Slots(n))
  BY DEF ToSet
<1>3. StoreOrdered'
  BY <1>1, <1>2, StoreMoreOrdered DEF KeepingOrder
<1>. QED
  BY <1>1, <1>3, HandUpInOrder

\* The same for a node that is not split, or vanishes with its last slot.
LEMMA RestInOrder ==
  ASSUME Inductive, KeepingOrder, NEW old \in BalancedOver(store), Replaces(old),
         NEW rest, InOrder(rest), GoesNoFurther(rest, Slots(old), call.key), NEW n,
         rest # <<>> => n \in BalancedOver(store) /\ Slots(n) = rest,
         StoreAndAscend(IF rest = <<>> THEN <<>> ELSE <<n>>), call' = call
  PROVE  KeepingOrder'
<1>1. CASE rest = <<>>
  <2>1. PICK nodes : nodes = <<>> /\ StoreAndAscend(nodes)
    BY <1>1
  <2>. DEFINE entries == [i \in DOMAIN nodes |-> EntryFor(nodes[i])]
  <2>2. entries = <<>> /\ \A i \in DOMAIN nodes : InOrder(Slots(nodes[i]))
    BY <2>1
  <2>3. InOrder(entries) /\ GoesNoFurther(entries, Slots(old), call.key)
    BY <2>2, OrderNothing
  <2>. QED
    BY <2>1, <2>2, <2>3, StoreAndAscendInOrder
<1>2. CASE rest # <<>>
  <2>1. StoreAndAscend(<<n>>)
    BY <1>2
  <2>2. InOrder(<<EntryFor(n)>>) /\ GoesNoFurther(<<EntryFor(n)>>, Slots(old), call.key)
    BY <1>2, InductiveSound, OneEntryInOrder
  <2>3. [i \in DOMAIN <<n>> |-> EntryFor(<<n>>[i])] = <<EntryFor(n)>>
    OBVIOUS
  <2>4. \A i \in DOMAIN <<n>> : InOrder(Slots(<<n>>[i]))
    BY <1>2
  <2>. QED
    BY <2>1, <2>2, <2>3, <2>4, StoreAndAscendInOrder
<1>. QED
  BY <1>1, <1>2
-----------------------------------------------------------------------------
(***************************************************************************)
(* Steps that end a call, or begin one.                                    *)
(***************************************************************************)
LEMMA QuietInOrder ==
  ASSUME KeepingOrder, NEW M, store' \subseteq store \cup M,
         \A n \in M : IsNode(n) => InOrder(Slots(n)), pc' \in {"idle", "mark"}
  PROVE  KeepingOrder'
<1>1. StoreOrdered'
  BY StoreMoreOrdered DEF KeepingOrder
<1>. QED
  BY <1>1 DEF KeepingOrder, Searching, Replacing

\* A call that begins at the root has nothing on its stack.
LEMMA StartInOrder ==
  ASSUME Inductive, KeepingOrder, pc = "idle", NEW request, StartDescent(request),
         StoreOrdered'
  PROVE  KeepingOrder'
<1>1. path' = <<>> /\ pc' = "descend"
  BY DEF Inductive, TypeOK, StartDescent
<1>2. Searching'
  BY <1>1 DEF Searching
<1>3. Replacing'
  BY <1>1 DEF Replacing
<1>. QED
  BY <1>2, <1>3 DEF KeepingOrder
\* Descending goes on to the child that the key belongs to.
LEMMA DescendInOrder ==
  ASSUME Inductive, KeepingOrder, Descend
  PROVE  KeepingOrder'
<1>. DEFINE idx == ChildIndex(at.children, call.key)
            frame == [node |-> at, idx |-> idx]
            F == [node : NodesIn(store), idx : Nat]
<1>1. /\ pc = "descend" /\ pc' = pc /\ call' = call /\ store' = store
      /\ path' = Append(path, frame) /\ at' = Left(frame).child_hash
  BY DEF Descend, Left
<1>2. path \in Seq(F) /\ Len(path) \in Nat /\ DOMAIN path = 1..Len(path)
  BY InductiveSound, ElementsOfSeq DEF PathOver
<1>3. frame.node = at /\ frame.idx = idx
  OBVIOUS
<1>. HIDE DEF F, frame, idx
<1>4. /\ Len(path') = Len(path) + 1 /\ DOMAIN path' = 1..(Len(path) + 1)
      /\ \A i \in 1..Len(path) : path'[i] = path[i]
      /\ path'[Len(path) + 1] = frame
  BY <1>1, <1>2
<1>5. \A i \in DOMAIN path : path[i].idx = ChildIndex(path[i].node.children, call.key)
  BY <1>1 DEF KeepingOrder, Searching
<1>6. \A i \in DOMAIN path' : path'[i].idx = ChildIndex(path'[i].node.children, call.key)
  BY <1>2, <1>3, <1>4, <1>5 DEF idx
<1>7. ASSUME NEW i \in 2..Len(path')
      PROVE  path'[i].node = Left(path'[i - 1]).child_hash
  <2>1. CASE i \in 2..Len(path)
    <3>1. path'[i] = path[i] /\ path'[i - 1] = path[i - 1]
      BY <1>2, <1>4, <2>1
    <3>. QED
      BY <1>1, <2>1, <3>1 DEF KeepingOrder, Searching
  <2>2. CASE i = Len(path) + 1
    <3>1. path'[i] = frame /\ path'[i - 1] = path[Len(path)] /\ path # <<>>
      BY <1>2, <1>4, <2>2
    <3>. QED
      BY <1>1, <1>3, <3>1 DEF KeepingOrder, Searching, Last
  <2>. QED
    BY <1>2, <1>4, <2>1, <2>2
<1>8. Last(path') = frame
  BY <1>2, <1>4 DEF Last
<1>9. at' = Left(Last(path')).child_hash
  BY <1>1, <1>8
<1>10. Searching'
  BY <1>1, <1>6, <1>7, <1>9 DEF Searching, Left, Last
<1>11. StoreOrdered' /\ Replacing'
  BY <1>1 DEF KeepingOrder, StoreOrdered, Replacing
<1>. QED
  BY <1>10, <1>11 DEF KeepingOrder

\* A get leaves the store alone.
LEMMA GetInOrder ==
  ASSUME Inductive, KeepingOrder, GetAtLeaf \/ \E k \in Keys : Get(k)
  PROVE  KeepingOrder'
<1>1. store' = store
  BY DEF Get, GetAtLeaf
<1>2. StoreOrdered'
  BY <1>1 DEF KeepingOrder, StoreOrdered
<1>3. CASE pc' = "idle"
  BY <1>2, <1>3 DEF KeepingOrder, Searching, Replacing
<1>4. CASE pc' # "idle"
  <2>1. PICK k \in Keys : Get(k)
    BY <1>4 DEF GetAtLeaf, Return
  <2>2. pc = "idle" /\ StartDescent([op |-> "get", key |-> k])
    BY <1>4, <2>1 DEF Get, Return
  <2>. QED
    BY <1>2, <2>2, StartInOrder
<1>. QED
  BY <1>3, <1>4
-----------------------------------------------------------------------------
(***************************************************************************)
(* Insert.                                                                 *)
(***************************************************************************)
LEMMA InsertInOrder ==
  ASSUME Inductive, KeepingOrder, NEW k \in Keys, NEW v \in Values, Insert(k, v)
  PROVE  KeepingOrder'
<1>1. \A n \in ValueChunks(v) : ~IsNode(n)
  BY DEF ValueChunks, Data, IsNode
<1>2. CASE root = None
  <2>. DEFINE e == [key |-> k, value |-> ValueRepr(v)]
              leaf == Leaf(<<e>>)
  <2>1. store' = store \cup ValueChunks(v) \cup {leaf} /\ pc' = "idle"
    BY <1>2 DEF Insert, Return
  <2>2. LowestKey(e) = k /\ HighestKey(e) = k
    BY DEF LowestKey, HighestKey
  <2>3. k <= k
    BY KeysAssumption
  <2>. HIDE DEF e
  <2>4. InOrder(<<e>>)
    BY <2>2, <2>3, OrderSingleton
  <2>5. InOrder(Slots(leaf))
    BY <2>4 DEF Leaf, Slots
  <2>. DEFINE M == ValueChunks(v) \cup {leaf}
  <2>. HIDE DEF leaf
  <2>6. store' \subseteq store \cup M /\ \A n \in M : IsNode(n) => InOrder(Slots(n))
    BY <1>1, <2>1, <2>5
  <2>. HIDE DEF M
  <2>. QED
    BY <2>1, <2>6, QuietInOrder
<1>3. CASE root # None
  <2>1. /\ store' = store \cup ValueChunks(v) /\ pc = "idle"
        /\ StartDescent([op |-> "insert", key |-> k, value |-> v])
    BY <1>3 DEF Insert
  <2>2. StoreOrdered'
    BY <1>1, <2>1, StoreMoreOrdered DEF KeepingOrder
  <2>. QED
    BY <2>1, <2>2, StartInOrder
<1>. QED
  BY <1>2, <1>3

\* The entry goes where the keys around it leave room, then the leaf may be cut.
LEMMA InsertAtLeafInOrder ==
  ASSUME Inductive, KeepingOrder, InsertAtLeaf
  PROVE  KeepingOrder'
<1>. DEFINE entries == Upsert(at.entries, call.key, ValueRepr(call.value))
            node == Leaf(entries)
            nodes == Split(node, config)
<1>1. /\ pc = "descend" /\ call.op = "insert" /\ at.kind = "Leaf"
      /\ StoreAndAscend(nodes) /\ path' = path /\ call' = call
  BY DEF InsertAtLeaf, AtLeaf
<1>2. /\ at \in BalancedOver(store) /\ at \in NodesIn(store)
      /\ at.entries \in Seq(LeafEntries(store)) \ {<<>>}
      /\ Slots(at) = at.entries
  BY <1>1, AtNode, NodeKinds DEF Slots
<1>3. call.key \in Keys /\ call.value \in Values
  BY <1>1, AtNode DEF Requests
<1>4. [key |-> call.key, value |-> ValueRepr(call.value)] \in LeafEntries(store)
  BY <1>1, <1>3, ValueReprOver DEF Inductive, Descending
<1>5. InOrder(at.entries)
  BY <1>2, OrderedStore DEF Ordered
<1>6. InOrder(entries) /\ GoesNoFurther(entries, Slots(at), call.key)
  BY <1>2, <1>3, <1>4, <1>5, OrderedStore, UpsertInOrder
<1>7. entries \in Seq(LeafEntries(store)) \ {<<>>}
  <2>1. at.entries \in Seq(LeafEntries(store))
    BY <1>2
  <2>. QED
    BY <1>3, <1>4, <2>1, UpsertOver
<1>. HIDE DEF entries
<1>8. node \in BalancedOver(store) /\ Slots(node) = entries
  BY <1>7, LeafOver DEF Leaf, Slots
<1>9. config \in Configs
  BY DEF Inductive, TypeOK
<1>. HIDE DEF node
<1>10. InOrder(Slots(node)) /\ GoesNoFurther(Slots(node), Slots(at), call.key)
  BY <1>6, <1>8
<1>. DEFINE handed == [i \in DOMAIN nodes |-> EntryFor(nodes[i])]
<1>11. /\ \A i \in DOMAIN nodes : InOrder(Slots(nodes[i]))
       /\ InOrder(handed) /\ GoesNoFurther(handed, Slots(at), call.key)
  BY <1>8, <1>9, <1>10, InductiveSound, SplitEntriesInOrder
<1>. HIDE DEF nodes
<1>. QED
  BY <1>1, <1>2, <1>11, StoreAndAscendInOrder DEF Replaces

\* The node on top of the stack, and the child the key belongs to.
LEMMA TopInOrder ==
  ASSUME Inductive, KeepingOrder, pc = "ascend", path # <<>>
  PROVE  LET node == Last(path).node
         IN  /\ node \in BalancedOver(store) /\ node.kind = "Internal"
             /\ node.children \in Seq(EntriesBelow(store, node.level)) \ {<<>>}
             /\ Slots(node) = node.children
             /\ InOrder(node.children)
             /\ Last(path).idx \in DOMAIN node.children
             /\ Meant(node.children, Last(path).idx, call.key)
             /\ Left(Last(path)) = node.children[Last(path).idx]
<1>. DEFINE node == Last(path).node
            idx == Last(path).idx
<1>1. /\ node \in BalancedOver(store) /\ node.kind = "Internal"
      /\ node.children \in Seq(EntriesBelow(store, node.level)) \ {<<>>}
      /\ idx \in DOMAIN node.children
      /\ Slots(node) = node.children
  BY TopFrame DEF Slots
<1>2. Len(path) \in DOMAIN path /\ node \in NodesIn(store)
  <2>. DEFINE F == [node : NodesIn(store), idx : Nat]
  <2>1. path \in Seq(F) \ {<<>>}
    BY InductiveSound DEF PathOver
  <2>2. Last(path) \in F /\ Len(path) \in DOMAIN path
    <3>. HIDE DEF F
    <3>. QED
      BY <2>1, LastOfSeq, ElementsOfSeq
  <2>. QED
    BY <2>2
<1>3. InOrder(node.children)
  BY <1>1, <1>2, OrderedStore DEF Ordered
<1>4. idx = ChildIndex(node.children, call.key)
  BY <1>2 DEF KeepingOrder, Searching, Last
<1>5. Meant(node.children, idx, call.key)
  <2>1. node.children \in Seq(InternalEntries(store)) \ {<<>>}
    BY <1>1, SeqMonotonic DEF EntriesBelow
  <2>2. call.key \in Int
    BY CallKey
  <2>. HIDE DEF node, idx
  <2>. QED
    BY <1>4, <2>1, <2>2, ChildIndexMeant
<1>. QED
  BY <1>1, <1>3, <1>5 DEF Left

\* The rewritten child and its new sibling stay between the neighbours.
LEMMA InsertAscendInOrder ==
  ASSUME Inductive, KeepingOrder, InsertAscend
  PROVE  KeepingOrder'
<1>. DEFINE old == Last(path).node
            idx == Last(path).idx
            children == AfterInsert(old.children, idx, update)
            node == WithSlots(old, children)
            nodes == IF Len(update) = 1 THEN <<node>> ELSE Split(node, config)
<1>1. /\ pc = "ascend" /\ call.op = "insert" /\ path # <<>>
      /\ StoreAndAscend(nodes) /\ path' = Front(path) /\ call' = call
  BY DEF InsertAscend, Ascending
<1>2. /\ old \in BalancedOver(store) /\ old.kind = "Internal"
      /\ old.children \in Seq(EntriesBelow(store, old.level))
      /\ Slots(old) = old.children
      /\ InOrder(old.children)
      /\ idx \in DOMAIN old.children
      /\ Meant(old.children, idx, call.key)
      /\ Left(Last(path)) = old.children[idx]
  BY <1>1, TopInOrder
<1>3. update \in Seq(EntriesBelow(store, old.level)) /\ Len(update) \in 1..2
  BY <1>1, UpdateBelow DEF Inductive, TypeOK
<1>4. InOrder(update) /\ GoesNoFurther(update, <<old.children[idx]>>, call.key)
  BY <1>1, <1>2 DEF KeepingOrder, Replacing
<1>5. call.key \in Int /\ config \in Configs
  BY <1>1, CallKey DEF Inductive, TypeOK
<1>6. Replaces(old)
  BY <1>1 DEF Replaces
<1>. HIDE DEF old, idx
<1>7. InOrder(children) /\ GoesNoFurther(children, Slots(old), call.key)
  BY <1>2, <1>3, <1>4, <1>5, InductiveSound, AfterInsertInOrder
<1>8. children \in Seq(SlotsOver(old, store)) \ {<<>>}
  BY <1>2, <1>3, AfterInsertOver DEF SlotsOver
<1>. HIDE DEF children
<1>9. node \in BalancedOver(store) /\ Slots(node) = children
  BY <1>2, <1>8, WithSlotsOver
<1>. HIDE DEF node
<1>10. InOrder(Slots(node)) /\ GoesNoFurther(Slots(node), Slots(old), call.key)
  BY <1>7, <1>9
<1>11. CASE Len(update) = 1
  <2>1. StoreAndAscend(IF children = <<>> THEN <<>> ELSE <<node>>)
    BY <1>1, <1>8, <1>11
  <2>. QED
    BY <1>1, <1>2, <1>6, <1>7, <1>9, <2>1, RestInOrder
<1>12. CASE Len(update) # 1
  <2>. DEFINE halves == Split(node, config)
              handed == [i \in DOMAIN halves |-> EntryFor(halves[i])]
  <2>1. StoreAndAscend(halves)
    BY <1>1, <1>12
  <2>2. /\ \A i \in DOMAIN halves : InOrder(Slots(halves[i]))
        /\ InOrder(handed) /\ GoesNoFurther(handed, Slots(old), call.key)
    BY <1>5, <1>9, <1>10, InductiveSound, SplitEntriesInOrder
  <2>. HIDE DEF halves
  <2>. QED
    BY <1>1, <1>2, <1>6, <2>1, <2>2, StoreAndAscendInOrder
<1>. QED
  BY <1>11, <1>12

\* A root that was split gets the two halves as its children.
LEMMA InsertAtTopInOrder ==
  ASSUME Inductive, KeepingOrder, InsertAtTop
  PROVE  KeepingOrder'
<1>. DEFINE newRoot == IF Len(update) = 1 THEN update[1].child_hash
                       ELSE Internal(Level(update[1].child_hash) + 1, update)
<1>1. pc = "ascend" /\ pc' = "idle" /\ store' = store \cup {newRoot}
  BY DEF InsertAtTop, AtTop, Return
<1>2. InOrder(Slots(newRoot))
  <2>1. CASE Len(update) = 1
    <3>1. update \in Seq(InternalEntries(store))
      BY DEF Inductive, TypeOK
    <3>2. update[1] \in InternalEntries(store)
      BY <2>1, <3>1, ElementsOfSeq
    <3>3. update[1].child_hash \in NodesIn(store)
      BY <3>2 DEF InternalEntries
    <3>. QED
      BY <2>1, <3>3, OrderedStore DEF Ordered
  <2>2. CASE Len(update) # 1
    BY <1>1, <2>2 DEF KeepingOrder, Replacing, Internal, Slots
  <2>. QED
    BY <2>1, <2>2
<1>. HIDE DEF newRoot
<1>. DEFINE M == {newRoot}
<1>3. store' \subseteq store \cup M /\ \A n \in M : IsNode(n) => InOrder(Slots(n))
  BY <1>1, <1>2
<1>. HIDE DEF M
<1>. QED
  BY <1>1, <1>3, QuietInOrder
-----------------------------------------------------------------------------
(***************************************************************************)
(* Delete.                                                                 *)
(***************************************************************************)
LEMMA DeleteInOrder ==
  ASSUME Inductive, KeepingOrder, NEW k \in Keys, Delete(k)
  PROVE  KeepingOrder'
<1>1. store' = store
  BY DEF Delete
<1>2. StoreOrdered'
  BY <1>1 DEF KeepingOrder, StoreOrdered
<1>3. CASE root = None
  BY <1>2, <1>3 DEF Delete, Return, KeepingOrder, Searching, Replacing
<1>4. CASE root # None
  <2>1. pc = "idle" /\ StartDescent([op |-> "delete", key |-> k])
    BY <1>4 DEF Delete
  <2>. QED
    BY <1>2, <2>1, StartInOrder
<1>. QED
  BY <1>3, <1>4

\* The entry is taken out of its leaf.
LEMMA DeleteAtLeafInOrder ==
  ASSUME Inductive, KeepingOrder, DeleteAtLeaf
  PROVE  KeepingOrder'
<1>. DEFINE rest == RemoveKey(at.entries, call.key)
            node == Leaf(rest)
<1>1. /\ pc = "descend" /\ call.op = "delete" /\ at.kind = "Leaf"
      /\ HasKey(at.entries, call.key)
      /\ StoreAndAscend(IF rest = <<>> THEN <<>> ELSE <<node>>)
      /\ path' = path /\ call' = call
  BY DEF DeleteAtLeaf, AtLeaf
<1>2. /\ at \in BalancedOver(store) /\ at \in NodesIn(store)
      /\ at.entries \in Seq(LeafEntries(store))
      /\ Slots(at) = at.entries
  BY <1>1, AtNode, NodeKinds DEF Slots
<1>3. call.key \in Keys
  BY <1>1, AtNode DEF Requests
<1>4. InOrder(at.entries)
  BY <1>2, OrderedStore DEF Ordered
<1>5. InOrder(rest) /\ GoesNoFurther(rest, Slots(at), call.key)
  BY <1>1, <1>2, <1>3, <1>4, InductiveSound, RemoveKeyInOrder
<1>6. rest \in Seq(LeafEntries(store))
  BY <1>1, <1>2, <1>3, RemoveKeyOver
<1>. HIDE DEF rest
<1>7. rest # <<>> => node \in BalancedOver(store) /\ Slots(node) = rest
  BY <1>6, LeafOver DEF Leaf, Slots
<1>. HIDE DEF node
<1>. QED
  BY <1>1, <1>2, <1>5, <1>7, RestInOrder DEF Replaces

\* The entry of a vanished child is taken out of its parent.
LEMMA DeleteChildGoneInOrder ==
  ASSUME Inductive, KeepingOrder, DeleteChildGone
  PROVE  KeepingOrder'
<1>. DEFINE old == Last(path).node
            idx == Last(path).idx
            rest == RemoveAt(old.children, idx)
            node == WithSlots(old, rest)
<1>1. /\ pc = "ascend" /\ path # <<>>
      /\ StoreAndAscend(IF rest = <<>> THEN <<>> ELSE <<node>>)
      /\ path' = Front(path) /\ call' = call
  BY DEF DeleteChildGone, Ascending
<1>2. /\ old \in BalancedOver(store) /\ old.kind = "Internal"
      /\ old.children \in Seq(EntriesBelow(store, old.level))
      /\ Slots(old) = old.children
      /\ InOrder(old.children)
      /\ idx \in DOMAIN old.children
  BY <1>1, TopInOrder
<1>3. Replaces(old)
  BY <1>1 DEF Replaces
<1>. HIDE DEF old, idx
<1>4. Ranged(EntriesBelow(store, old.level))
  BY InductiveSound, SlotsRanged
<1>5. InOrder(rest) /\ GoesNoFurther(rest, Slots(old), call.key)
  BY <1>2, <1>4, OrderRemove
<1>6. rest \in Seq(EntriesBelow(store, old.level))
  BY <1>2, ElementsOfSeq, RemoveAtSeq
<1>. HIDE DEF rest
<1>7. rest # <<>> => node \in BalancedOver(store) /\ Slots(node) = rest
  <2>1. SlotsOver(old, store) = EntriesBelow(store, old.level)
    BY <1>2 DEF SlotsOver
  <2>. QED
    BY <1>2, <1>6, <2>1, WithSlotsOver
<1>. HIDE DEF node
<1>. QED
  BY <1>1, <1>2, <1>3, <1>5, <1>7, RestInOrder

\* The children with the entry of the rewritten one.
LEMMA RewrittenInOrder ==
  ASSUME Inductive, KeepingOrder, pc = "ascend", call.op = "delete", path # <<>>, update # <<>>
  PROVE  InOrder(Rewritten) /\ GoesNoFurther(Rewritten, Slots(Last(path).node), call.key)
<1>. DEFINE old == Last(path).node
            idx == Last(path).idx
            u == update[1]
            E == EntriesBelow(store, old.level)
<1>1. /\ old.children \in Seq(E)
      /\ Slots(old) = old.children
      /\ InOrder(old.children)
      /\ idx \in DOMAIN old.children
      /\ Meant(old.children, idx, call.key)
      /\ Left(Last(path)) = old.children[idx]
  BY TopInOrder
<1>2. update \in Seq(E) /\ Len(update) \in 0..1
  BY UpdateBelow DEF Inductive, TypeOK
<1>3. Ranged(E) /\ call.key \in Int
  BY InductiveSound, SlotsRanged, CallKey
<1>4. Rewritten = [old.children EXCEPT ![idx] = u]
  BY DEF Rewritten
<1>5. InOrder(update) /\ GoesNoFurther(update, <<old.children[idx]>>, call.key)
  BY <1>1 DEF KeepingOrder, Replacing
<1>. HIDE DEF old, idx, E
<1>6. update = <<u>> /\ u \in E /\ 1 \in DOMAIN update
  BY <1>2, ElementsOfSeq
<1>7. LowestKey(u) <= HighestKey(u)
  BY <1>5, <1>6 DEF InOrder
<1>8. GoesNoFurther(<<u>>, <<old.children[idx]>>, call.key)
  BY <1>5, <1>6
<1>. HIDE DEF u
<1>. QED
  BY <1>1, <1>3, <1>4, <1>6, <1>7, <1>8, OrderUpdate DEF old

\* A parent whose rewritten child is large enough.
LEMMA DeleteAscendInOrder ==
  ASSUME Inductive, KeepingOrder, DeleteAscend
  PROVE  KeepingOrder'
<1>. DEFINE old == Last(path).node
            node == WithSlots(old, Rewritten)
<1>1. /\ pc = "ascend" /\ call.op = "delete" /\ path # <<>> /\ update # <<>>
      /\ StoreAndAscend(<<node>>) /\ path' = Front(path) /\ call' = call
  BY DEF DeleteAscend, Ascending
<1>2. old \in BalancedOver(store) /\ old.kind = "Internal" /\ Replaces(old)
  BY <1>1, TopInOrder DEF Replaces
<1>3. InOrder(Rewritten) /\ GoesNoFurther(Rewritten, Slots(old), call.key)
  BY <1>1, RewrittenInOrder
<1>4. Rewritten \in Seq(SlotsOver(old, store)) \ {<<>>}
  BY <1>1, <1>2, RewrittenOver DEF SlotsOver
<1>. HIDE DEF old
<1>5. node \in BalancedOver(store) /\ Slots(node) = Rewritten
  BY <1>2, <1>4, WithSlotsOver
<1>. HIDE DEF node
<1>6. StoreAndAscend(IF Rewritten = <<>> THEN <<>> ELSE <<node>>)
  BY <1>1, <1>4
<1>. QED
  BY <1>1, <1>2, <1>3, <1>5, <1>6, RestInOrder

\* Borrowing and merging keep the children of a node in order, and its range.
LEMMA DeleteRebalanceInOrder ==
  ASSUME Inductive, KeepingOrder, DeleteRebalance
  PROVE  KeepingOrder'
<1>. DEFINE old == Last(path).node
            idx == Last(path).idx
            l == old.level
            children == HandleUnderflow(Rewritten, idx, config)
            node == WithSlots(old, children)
            remade == {c.child_hash : c \in ToSet(children)}
                        \ {c.child_hash : c \in ToSet(Rewritten)}
            T == store \cup remade
<1>1. /\ pc = "ascend" /\ pc' = pc /\ call.op = "delete" /\ path # <<>> /\ update # <<>>
      /\ HasSibling(Rewritten)
      /\ store' = T \cup {node} /\ update' = <<EntryFor(node)>>
      /\ path' = Front(path) /\ call' = call
  BY DEF DeleteRebalance, ChildUnderflows, Ascending
<1>2. /\ old \in BalancedOver(store) /\ old.kind = "Internal" /\ Replaces(old)
      /\ Slots(old) = old.children /\ old.children \in Seq(EntriesBelow(store, l)) \ {<<>>}
  BY <1>1, TopInOrder DEF Replaces
<1>3. InOrder(Rewritten) /\ GoesNoFurther(Rewritten, Slots(old), call.key)
  BY <1>1, RewrittenInOrder
<1>4. Rewritten \in Seq(EntriesBelow(store, l)) \ {<<>>} /\ idx \in DOMAIN Rewritten
  BY <1>1, RewrittenOver
<1>5. Sound(store) /\ Ordered(store) /\ config \in Configs /\ call.key \in Int
  BY <1>1, OrderedStore, CallKey DEF Inductive, TypeOK
<1>6. Sound(T) /\ children \in Seq(EntriesBelow(T, l)) \ {<<>>}
  BY RebalancedOver
<1>7. node \in BalancedOver(T) /\ Slots(node) = children
  <2>1. children \in Seq(SlotsOver(old, T)) \ {<<>>}
    BY <1>2, <1>6 DEF SlotsOver
  <2>. HIDE DEF old, children, T
  <2>. QED
    BY <1>2, <2>1, WithSlotsOver
<1>. HIDE DEF old, idx, node
<1>8. /\ InOrder(children)
      /\ GoesNoFurther(children, Rewritten, call.key)
      /\ \A a \in DOMAIN children : InOrder(Slots(children[a].child_hash))
  <2>1. Rewritten \in Seq(EntriesBelow(store, l))
    BY <1>4
  <2>. HIDE DEF l
  <2>. QED
    BY <1>1, <1>3, <1>4, <1>5, <2>1, HandleUnderflowInOrder
<1>9. \A n \in remade : InOrder(Slots(n))
  BY <1>8 DEF ToSet
<1>. HIDE DEF children, remade
<1>10. GoesNoFurther(children, Slots(old), call.key)
  <2>1. Ranged(EntriesBelow(store, l)) /\ Ranged(EntriesBelow(T, l))
    BY <1>5, <1>6, SlotsRanged
  <2>. HIDE DEF l, T
  <2>2. /\ LowestKey(children[1]) \in Int /\ HighestKey(Last(children)) \in Int
        /\ LowestKey(Rewritten[1]) \in Int /\ HighestKey(Last(Rewritten)) \in Int
        /\ LowestKey(Slots(old)[1]) \in Int /\ HighestKey(Last(Slots(old))) \in Int
    <3>1. \A E, s : Ranged(E) /\ s \in Seq(E) \ {<<>>} =>
                      LowestKey(s[1]) \in Int /\ HighestKey(Last(s)) \in Int
      BY LastOfSeq, ElementsOfSeq DEF Ranged
    <3>. QED
      BY <1>2, <1>4, <1>6, <2>1, <3>1
  <2>3. Rewritten # <<>>
    BY <1>4
  <2>. QED
    BY <1>3, <1>5, <1>8, <2>2, <2>3, NoFurtherThan
<1>11. InOrder(update') /\ GoesNoFurther(update', Slots(old), call.key)
  BY <1>1, <1>6, <1>7, <1>8, <1>10, OneEntryInOrder
<1>12. StoreOrdered'
  <2>. DEFINE M == remade \cup {node}
  <2>1. store' \subseteq store \cup M /\ \A n \in M : IsNode(n) => InOrder(Slots(n))
    BY <1>1, <1>7, <1>8, <1>9
  <2>. HIDE DEF M
  <2>. QED
    BY <2>1, StoreMoreOrdered DEF KeepingOrder
<1>. QED
  BY <1>1, <1>2, <1>11, <1>12, HandUpInOrder
-----------------------------------------------------------------------------
(***************************************************************************)
(* The other steps store nothing and have nothing on the stack afterwards. *)
(***************************************************************************)
LEMMA StoreLessInOrder ==
  ASSUME KeepingOrder, store' \subseteq store, pc' \in {"idle", "mark"}
  PROVE  KeepingOrder'
<1>1. StoreOrdered'
  BY DEF KeepingOrder, StoreOrdered, NodesIn
<1>. QED
  BY <1>1 DEF KeepingOrder, Searching, Replacing

\* Calls that fail, deletes that end, versions that are checked out or loaded.
LEMMA ReturnInOrder ==
  ASSUME KeepingOrder,
         \/ DeleteNotFound \/ NoSibling \/ DeleteAtTop
         \/ \E h \in versions : Checkout(h) \/ CheckoutMissing(h)
         \/ \E h \in versions, c \in Configs : Load(h, c, {})
  PROVE  KeepingOrder'
<1>1. store' \subseteq store /\ pc' = "idle"
  BY DEF DeleteNotFound, NoSibling, Fail, DeleteAtTop, Checkout, CheckoutMissing, Load, Return
<1>. QED
  BY <1>1, StoreLessInOrder

\* A collection only takes chunks away.
LEMMA GcInOrder ==
  ASSUME KeepingOrder, Sweep \/ (\E keep : Collect(keep)) \/ (\E h : Mark(h))
  PROVE  KeepingOrder'
<1>1. store' \subseteq store /\ pc' \in {"idle", "mark"}
  BY DEF Sweep, Collect, Mark, Return
<1>. QED
  BY <1>1, StoreLessInOrder

\* A step that changes nothing.
LEMMA StutterInOrder ==
  ASSUME KeepingOrder, UNCHANGED vars
  PROVE  KeepingOrder'
BY DEF vars, walkVars, KeepingOrder, StoreOrdered, Searching, Replacing, Left, Last
-----------------------------------------------------------------------------
(***************************************************************************)
(* The theorems.                                                           *)
(***************************************************************************)
LEMMA InitInOrder ==
  ASSUME Init
  PROVE  KeepingOrder
BY DEF Init, KeepingOrder, StoreOrdered, NodesIn, Searching, Replacing

\* Every step keeps what is stored, and what is handed upwards, in order.
LEMMA NextInOrder ==
  ASSUME Inductive, KeepingOrder, [Next]_vars
  PROVE  KeepingOrder'
<1>1. CASE Call
  <2>1. ASSUME NEW k \in Keys, Get(k) \/ Delete(k)
        PROVE  KeepingOrder'
    BY <2>1, GetInOrder, DeleteInOrder
  <2>2. ASSUME NEW k \in Keys, NEW v \in Values, Insert(k, v)
        PROVE  KeepingOrder'
    BY <2>2, InsertInOrder
  <2>3. ASSUME NEW h \in versions, Checkout(h) \/ CheckoutMissing(h)
        PROVE  KeepingOrder'
    BY <2>3, ReturnInOrder
  <2>4. ASSUME NEW h \in versions, NEW c \in Configs, Load(h, c, {})
        PROVE  KeepingOrder'
    BY <2>4, ReturnInOrder
  <2>5. ASSUME NEW keep, Collect(keep)
        PROVE  KeepingOrder'
    BY <2>5, GcInOrder
  <2>. QED
    BY <1>1, <2>1, <2>2, <2>3, <2>4, <2>5 DEF Call
<1>2. CASE Step
  <2>1. CASE Descend \/ NodeMissing \/ GetAtLeaf
    BY <2>1, DescendInOrder, NodeNeverMissing, GetInOrder
  <2>2. CASE InsertAtLeaf \/ InsertAscend \/ InsertAtTop
    BY <2>2, InsertAtLeafInOrder, InsertAscendInOrder, InsertAtTopInOrder
  <2>3. CASE DeleteNotFound \/ DeleteAtLeaf \/ DeleteChildGone \/ DeleteAscend
    BY <2>3, ReturnInOrder, DeleteAtLeafInOrder, DeleteChildGoneInOrder, DeleteAscendInOrder
  <2>4. CASE DeleteRebalance \/ SiblingMissing \/ NoSibling \/ DeleteAtTop
    BY <2>4, DeleteRebalanceInOrder, SiblingNeverMissing, ReturnInOrder
  <2>5. ASSUME NEW h \in queue, Mark(h)
        PROVE  KeepingOrder'
    BY <2>5, GcInOrder
  <2>6. CASE Sweep
    BY <2>6, GcInOrder
  <2>. QED
    BY <1>2, <2>1, <2>2, <2>3, <2>4, <2>5, <2>6 DEF Step
<1>3. CASE UNCHANGED vars
  BY <1>3, StutterInOrder
<1>. QED
  BY <1>1, <1>2, <1>3 DEF Next

(***************************************************************************)
(* Between any two steps of any call the slots of every stored node are in *)
(* order, the call is where a search for its key would be, and what it     *)
(* hands to the node above fits there.                                     *)
(***************************************************************************)
THEOREM OrderIsKept == Spec => []KeepingOrder
<1>1. Init => KeepingOrder
  BY InitInOrder
<1>2. Inductive /\ KeepingOrder /\ [Next]_vars => KeepingOrder'
  BY NextInOrder
<1>. QED
  BY <1>1, <1>2, InductiveHolds, PTL DEF Spec

(***************************************************************************)
(* In every version that was ever built, the slots of each node are in     *)
(* order and each is above all the keys below the one before it: a search  *)
(* by boundaries looks where the key is, if it is there.                   *)
(***************************************************************************)
THEOREM StoreStaysOrdered == Spec => []StoreOrdered
<1>1. KeepingOrder => StoreOrdered
  BY DEF KeepingOrder
<1>. QED
  BY <1>1, OrderIsKept, PTL
-----------------------------------------------------------------------------
(***************************************************************************)
(* Nodes keep to their fanout: under one configuration no stored node is   *)
(* too large and no node below another too small, so a delete never runs   *)
(* out of siblings.                                                        *)
(***************************************************************************)
(***************************************************************************)
(* Node by node, whatever the kind of its slots.                           *)
(***************************************************************************)
\* The nodes the slots are entries for hold the minimum.
Full(slots, c) ==
  \A e \in ToSet(slots) : "key" \in DOMAIN e \/ ~IsUnderflow(e.child_hash, c)

Fits(n, c) == NumEntries(n) <= c.target_fanout /\ Full(Slots(n), c)

\* A node fits if it is not too large and the nodes below it hold the minimum.
LEMMA FitsIs ==
  ASSUME NEW S, NEW n \in BalancedOver(S), NEW c
  PROVE  Fits(n, c) <=>
           /\ NumEntries(n) <= c.target_fanout
           /\ n.kind = "Internal" =>
                \A i \in DOMAIN n.children : ~IsUnderflow(n.children[i].child_hash, c)
<1>1. CASE n.kind = "Leaf"
  <2>1. Slots(n) = n.entries /\ n.entries \in Seq(LeafEntries(S)) /\ n.kind # "Internal"
    BY <1>1, NodeKinds DEF Slots
  <2>2. ToSet(Slots(n)) \subseteq LeafEntries(S)
    BY <2>1, ToSetIs
  <2>3. Full(Slots(n), c)
    BY <2>2, SlotKinds DEF Full
  <2>. QED
    BY <2>1, <2>3 DEF Fits
<1>2. CASE n.kind = "Internal"
  <2>1. Slots(n) = n.children /\ n.children \in Seq(EntriesBelow(S, n.level))
    BY <1>2, NodeKinds DEF Slots
  <2>2. ToSet(Slots(n)) \subseteq EntriesBelow(S, n.level)
    BY <2>1, ToSetIs
  <2>3. \A e \in ToSet(Slots(n)) : "key" \notin DOMAIN e
    BY <2>2, SlotKinds
  <2>4. Full(Slots(n), c) <=>
          \A i \in DOMAIN n.children : ~IsUnderflow(n.children[i].child_hash, c)
    BY <2>1, <2>3 DEF Full, ToSet
  <2>. QED
    BY <1>2, <2>4 DEF Fits
<1>. QED
  BY <1>1, <1>2, NodeKinds DEF IsNode

\* How many slots a node has.
LEMMA NumEntriesNat ==
  ASSUME NEW S, NEW n \in BalancedOver(S)
  PROVE  NumEntries(n) \in Nat \ {0} /\ NumEntries(n) = Len(Slots(n))
<1>1. Slots(n) \in Seq(SlotsOver(n, S)) \ {<<>>}
  BY NodeKinds
<1>. QED
  BY <1>1, ElementsOfSeq DEF NumEntries

\* Both halves of a node one slot too large hold the minimum.
LEMMA SplitFits ==
  ASSUME NEW S, NEW n \in BalancedOver(S), NEW c \in Configs,
         NumEntries(n) <= c.target_fanout + 1, Full(Slots(n), c)
  PROVE  /\ \A i \in DOMAIN Split(n, c) : Fits(Split(n, c)[i], c)
         /\ IF NumEntries(n) <= c.target_fanout
            THEN Split(n, c) = <<n>>
            ELSE /\ Len(Split(n, c)) = 2
                 /\ \A i \in DOMAIN Split(n, c) : ~IsUnderflow(Split(n, c)[i], c)
<1>. DEFINE slots == Slots(n)
            mid   == Len(slots) \div 2
            left  == SubSeq(slots, 1, mid)
            right == SubSeq(slots, mid + 1, Len(slots))
<1>1. slots \in Seq(SlotsOver(n, S)) /\ Len(slots) \in Nat /\ NumEntries(n) = Len(slots)
  BY NodeKinds, ElementsOfSeq DEF NumEntries
<1>2. c.target_fanout \in Nat /\ c.min_fanout \in Nat /\ c.min_fanout > 0
      /\ c.target_fanout >= 2 * c.min_fanout
  BY ConfigsAssumption
<1>3. CASE NumEntries(n) <= c.target_fanout
  <2>1. ~(Len(slots) > c.target_fanout)
    BY <1>1, <1>2, <1>3
  <2>2. Split(n, c) = <<n>>
    BY <2>1 DEF Split
  <2>. QED
    BY <1>3, <2>2 DEF Fits
<1>4. CASE ~(NumEntries(n) <= c.target_fanout)
  <2>1. Len(slots) = c.target_fanout + 1 /\ Len(slots) > c.target_fanout
    BY <1>1, <1>2, <1>4
  <2>2. Split(n, c) = <<WithSlots(n, left), WithSlots(n, right)>>
    BY <2>1 DEF Split
  <2>3. /\ mid \in Nat /\ mid >= c.min_fanout /\ mid <= c.target_fanout
        /\ Len(slots) - mid \in Nat /\ Len(slots) - mid >= c.min_fanout
        /\ Len(slots) - mid <= c.target_fanout
    <3>. DEFINE t == c.target_fanout
                m == c.min_fanout
                len == Len(slots)
    <3>1. t \in Nat /\ m \in Nat /\ m > 0 /\ t >= 2 * m /\ len = t + 1
      BY <1>2, <2>1
    <3>. HIDE DEF t, m, len
    <3>2. /\ (len \div 2) \in Nat /\ (len \div 2) >= m /\ (len \div 2) <= t
          /\ len - (len \div 2) \in Nat /\ len - (len \div 2) >= m
          /\ len - (len \div 2) <= t
      BY <3>1
    <3>. QED
      BY <3>2 DEF t, m, len
  <2>. HIDE DEF mid
  <2>4. mid \in 0..Len(slots) /\ mid \in 1..Len(slots) /\ mid + 1 \in 1..Len(slots)
    BY <1>1, <1>2, <2>3
  <2>5. left \in Seq(SlotsOver(n, S)) /\ Len(left) = mid
    BY <1>1, <2>4, SubSeqSeq
  <2>6. right \in Seq(SlotsOver(n, S)) /\ Len(right) = Len(slots) - mid
    BY <1>1, <2>4, SubSeqSeq
  <2>7. ToSet(left) \subseteq ToSet(slots) /\ ToSet(right) \subseteq ToSet(slots)
    BY <1>1, <2>4, ToSetHalves
  <2>8. Full(left, c) /\ Full(right, c)
    BY <2>7 DEF Full
  <2>9. left # <<>> /\ right # <<>>
    BY <1>2, <2>3, <2>5, <2>6, ElementsOfSeq
  <2>. HIDE DEF left, right
  <2>10. Slots(WithSlots(n, left)) = left /\ Slots(WithSlots(n, right)) = right
    BY <2>5, <2>6, <2>9, WithSlotsOver
  <2>. DEFINE x == WithSlots(n, left)
              y == WithSlots(n, right)
  <2>. HIDE DEF x, y
  <2>11. NumEntries(x) = mid /\ NumEntries(y) = Len(slots) - mid
    BY <2>5, <2>6, <2>10 DEF NumEntries, x, y
  <2>12. Fits(x, c) /\ Fits(y, c)
    BY <2>3, <2>8, <2>10, <2>11 DEF Fits, x, y
  <2>13. ~IsUnderflow(x, c) /\ ~IsUnderflow(y, c)
    BY <1>2, <2>3, <2>11 DEF IsUnderflow
  <2>14. Split(n, c) = <<x, y>>
    BY <2>2 DEF x, y
  <2>. QED
    BY <1>4, <2>12, <2>13, <2>14
<1>. QED
  BY <1>3, <1>4

\* Repairing a child that lacks one slot leaves no child too small or too large.
LEMMA HandleUnderflowFits ==
  ASSUME NEW S, Sound(S), NEW l, NEW children \in Seq(EntriesBelow(S, l)), Distinct(children),
         HasSibling(children), NEW c \in Configs, NEW i \in DOMAIN children,
         \A j \in DOMAIN children : Fits(children[j].child_hash, c),
         \A j \in DOMAIN children : j # i => ~IsUnderflow(children[j].child_hash, c),
         NumEntries(children[i].child_hash) = c.min_fanout - 1
  PROVE  LET r == HandleUnderflow(children, i, c)
         IN  /\ Len(r) \in {Len(children), Len(children) - 1}
             /\ \A e \in ToSet(r) : Fits(e.child_hash, c) /\ ~IsUnderflow(e.child_hash, c)
<1>. DEFINE r == HandleUnderflow(children, i, c)
            size(j) == NumEntries(children[j].child_hash)
<1>1. PICK h \in DOMAIN children, j \in DOMAIN children :
        /\ j = h + 1 /\ i \in {h, j}
        /\ Repaired(S, l, children, i, h, r, c)
  BY HandleUnderflowIs
<1>. HIDE DEF r
<1>2. /\ c.target_fanout \in Nat /\ c.min_fanout \in Nat /\ c.min_fanout > 0
      /\ c.target_fanout >= 2 * c.min_fanout
  BY ConfigsAssumption
<1>3. DOMAIN children = 1..Len(children) /\ Len(children) \in Nat /\ h # j
  BY <1>1, ElementsOfSeq
<1>4. \A a \in DOMAIN children : /\ size(a) \in Nat
                                 /\ size(a) <= c.target_fanout
                                 /\ a # i => size(a) >= c.min_fanout
  <2>1. ASSUME NEW a \in DOMAIN children
        PROVE  size(a) \in Nat
    <3>1. children[a].child_hash \in BalancedOver(S)
      BY ChildSlots
    <3>. QED
      BY <3>1, NumEntriesNat
  <2>2. \A a \in DOMAIN children : size(a) <= c.target_fanout
    BY DEF Fits
  <2>3. \A a \in DOMAIN children : a # i => ~(size(a) < c.min_fanout)
    BY DEF IsUnderflow
  <2>. HIDE DEF size
  <2>. QED
    BY <1>2, <2>1, <2>2, <2>3
<1>5. size(i) = c.min_fanout - 1
  OBVIOUS
<1>6. Full(Slots(children[h].child_hash), c) /\ Full(Slots(children[j].child_hash), c)
  BY DEF Fits
<1>7. ASSUME NEW e \in ToSet(children) \ {children[h], children[j]}
      PROVE  Fits(e.child_hash, c) /\ ~IsUnderflow(e.child_hash, c)
  <2>1. PICK a \in DOMAIN children : e = children[a]
    BY DEF ToSet
  <2>2. a # i
    BY <1>1, <2>1
  <2>. QED
    BY <2>1, <2>2
<1>8. \A n : EntryFor(n).child_hash = n
  BY DEF EntryFor
<1>9. \A e \in SlotsOfTwo(children, h) : "key" \in DOMAIN e \/ ~IsUnderflow(e.child_hash, c)
  BY <1>1, <1>6 DEF SlotsOfTwo, Full
<1>10. CASE \E x, y : /\ Lent(S, l, children, i, h, x, y, c)
                     /\ r = WithNeighbours(children, h, h + 1, x, y)
  <2>1. PICK x, y : /\ Lent(S, l, children, i, h, x, y, c)
                    /\ r = WithNeighbours(children, h, h + 1, x, y)
    BY <1>10
  <2>2. /\ Len(r) = Len(children)
        /\ ToSet(r) = (ToSet(children) \ {children[h], children[j]}) \cup {EntryFor(x), EntryFor(y)}
    <3>1. r = WithNeighbours(children, h, j, x, y)
      BY <1>1, <2>1
    <3>. QED
      BY <1>3, <3>1, ToSetWithNeighbours
  <2>3. Full(Slots(x), c) /\ Full(Slots(y), c)
    BY <1>9, <2>1 DEF Lent, Full
  <2>4. IF i = h
        THEN NumEntries(x) = size(h) + 1 /\ NumEntries(y) = size(j) - 1 /\ size(j) > c.min_fanout
        ELSE NumEntries(x) = size(h) - 1 /\ NumEntries(y) = size(j) + 1 /\ size(h) > c.min_fanout
    BY <1>1, <2>1 DEF Lent
  <2>. HIDE DEF size
  <2>5. size(i) = c.min_fanout - 1 /\ size(h) \in Nat /\ size(j) \in Nat
        /\ size(h) <= c.target_fanout /\ size(j) <= c.target_fanout
    BY <1>4, <1>5
  <2>6. /\ NumEntries(x) <= c.target_fanout /\ NumEntries(y) <= c.target_fanout
        /\ ~(NumEntries(x) < c.min_fanout) /\ ~(NumEntries(y) < c.min_fanout)
    <3>1. CASE i = h
      BY <1>2, <2>4, <2>5, <3>1
    <3>2. CASE i # h
      <4>1. i = j
        BY <1>1, <3>2
      <4>. QED
        BY <1>2, <2>4, <2>5, <3>2, <4>1
    <3>. QED
      BY <3>1, <3>2
  <2>7. /\ Fits(x, c) /\ Fits(y, c) /\ ~IsUnderflow(x, c) /\ ~IsUnderflow(y, c)
    BY <2>3, <2>6 DEF Fits, IsUnderflow
  <2>. QED
    BY <1>7, <1>8, <2>2, <2>7 DEF r
<1>11. CASE \E m : Merged(S, l, children, i, h, m, c) /\ r = OneForTwo(children, h, EntryFor(m))
  <2>1. PICK m : Merged(S, l, children, i, h, m, c) /\ r = OneForTwo(children, h, EntryFor(m))
    BY <1>11
  <2>2. /\ Len(r) = Len(children) - 1
        /\ ToSet(r) = (ToSet(children) \ {children[h], children[j]}) \cup {EntryFor(m)}
    BY <1>1, <2>1, ToSetOneForTwo
  <2>3. Full(Slots(m), c)
    BY <1>9, <2>1 DEF Merged, Full
  <2>4. NumEntries(m) = size(h) + size(j) /\ IF i = h THEN size(j) <= c.min_fanout
                                                      ELSE size(h) <= c.min_fanout
    BY <1>1, <2>1 DEF Merged
  <2>. HIDE DEF size
  <2>5. size(i) = c.min_fanout - 1 /\ size(h) \in Nat /\ size(j) \in Nat
        /\ (i # h => size(h) >= c.min_fanout) /\ (i # j => size(j) >= c.min_fanout)
    BY <1>4, <1>5
  <2>6. NumEntries(m) <= c.target_fanout /\ ~(NumEntries(m) < c.min_fanout)
    <3>1. CASE i = h
      BY <1>2, <1>3, <2>4, <2>5, <3>1
    <3>2. CASE i # h
      <4>1. i = j
        BY <1>1, <3>2
      <4>. QED
        BY <1>2, <2>4, <2>5, <3>2, <4>1
    <3>. QED
      BY <3>1, <3>2
  <2>7. Fits(m, c) /\ ~IsUnderflow(m, c)
    BY <2>3, <2>6 DEF Fits, IsUnderflow
  <2>. QED
    BY <1>7, <1>8, <2>2, <2>7 DEF r
<1>. QED
  BY <1>1, <1>10, <1>11 DEF Repaired
\* How many entries a leaf has once a key is set.
LEMMA UpsertSize ==
  ASSUME NEW S, NEW entries \in Seq(LeafEntries(S)), NEW k \in Keys, NEW repr
  PROVE  Len(Upsert(entries, k, repr)) \in {Len(entries), Len(entries) + 1}
<1>. DEFINE e == [key |-> k, value |-> repr]
            E == LeafEntries(S) \cup {e}
<1>1. CASE HasKey(entries, k)
  <2>1. Upsert(entries, k, repr) = [entries EXCEPT ![KeyPosition(entries, k)].value = repr]
    BY <1>1 DEF Upsert
  <2>. QED
    BY <2>1, ElementsOfSeq
<1>2. CASE ~HasKey(entries, k)
  <2>1. Upsert(entries, k, repr) = InsertAt(entries, KeyPosition(entries, k), e)
    BY <1>2 DEF Upsert
  <2>2. KeyPosition(entries, k) \in 1..(Len(entries) + 1)
    BY KeyPositionRange, KeysAssumption
  <2>3. entries \in Seq(E) /\ e \in E
    BY SeqMonotonic
  <2>. HIDE DEF e, E
  <2>. QED
    BY <2>1, <2>2, <2>3, InsertAtSeq
<1>. QED
  BY <1>1, <1>2
-----------------------------------------------------------------------------
(***************************************************************************)
(* The nodes of the store and on the stack.                                *)
(***************************************************************************)
\* What the constructors demand of the configuration, in numbers.
LEMMA ConfigFits ==
  ASSUME Inductive
  PROVE  /\ config \in Configs
         /\ config.min_fanout \in Nat \ {0}
         /\ config.target_fanout \in Nat /\ config.target_fanout >= 2
<1>1. config \in Configs
  BY DEF Inductive, TypeOK
<1>2. /\ config.min_fanout \in Nat \ {0} /\ config.target_fanout \in Nat
      /\ config.target_fanout >= 2 * config.min_fanout
  BY <1>1, ConfigsAssumption
<1>3. \A m \in Nat \ {0}, t \in Nat : t >= 2 * m => t >= 2
  OBVIOUS
<1>. QED
  BY <1>1, <1>2, <1>3

\* A stored node is neither too large nor over nodes that are too small.
LEMMA StoredFits ==
  ASSUME Inductive, StoreSized, NEW n \in NodesIn(store)
  PROVE  n \in BalancedOver(store) /\ Fits(n, config)
<1>1. n \in BalancedOver(store)
  BY InductiveSound, StoredNode DEF NodesIn
<1>. QED
  BY <1>1, FitsIs DEF StoreSized

\* Storing nodes that fit, and naming versions that branch.
LEMMA StoreMoreSized ==
  ASSUME Inductive, Inductive', StoreSized, NEW M, store' \subseteq store \cup M,
         \A n \in M : IsNode(n) => Fits(n, config),
         NEW V, versions' \subseteq versions \cup V, \A v \in V \ {None} : Branches(v),
         config' = config
  PROVE  StoreSized'
<1>1. Sound(store')
  BY SoundIs DEF Inductive, StoreClosed, StoreBalanced, EntriesExact
<1>2. ASSUME NEW n \in NodesIn(store')
      PROVE  /\ NumEntries(n) <= config.target_fanout
             /\ n.kind = "Internal" =>
                  \A i \in DOMAIN n.children : ~IsUnderflow(n.children[i].child_hash, config)
  <2>1. n \in BalancedOver(store')
    BY <1>1, StoredNode DEF NodesIn
  <2>2. Fits(n, config)
    BY StoredFits DEF NodesIn
  <2>. QED
    BY <2>1, <2>2, FitsIs
<1>. QED
  BY <1>2 DEF StoreSized, Branches

\* The child a stored node was left by holds the minimum.
LEMMA LeftSized ==
  ASSUME StoreSized, NEW p, PathOver(p, store), p # <<>>
  PROVE  ~IsUnderflow(Left(Last(p)).child_hash, config)
<1>. DEFINE F == [node : NodesIn(store), idx : Nat]
<1>1. p \in Seq(F) \ {<<>>}
  BY DEF PathOver
<1>2. Len(p) \in DOMAIN p /\ Last(p) \in F
  <2>. HIDE DEF F
  <2>. QED
    BY <1>1, ElementsOfSeq, LastOfSeq
<1>3. /\ Last(p).node \in NodesIn(store)
      /\ Last(p).node.kind = "Internal"
      /\ Last(p).idx \in DOMAIN Last(p).node.children
  BY <1>2 DEF PathOver, Last
<1>. QED
  BY <1>3 DEF StoreSized, Left

\* A node that is replaced below the root holds the minimum; the root branches.
LEMMA ReplacedSized ==
  ASSUME Inductive, KeepingOrder, KeepingSize, NEW old, Replaces(old)
  PROVE  IF path' = <<>> THEN Branches(old) ELSE ~IsUnderflow(old, config)
<1>. DEFINE F == [node : NodesIn(store), idx : Nat]
<1>1. PathOver(path, store) /\ path \in Seq(F)
  BY InductiveSound DEF PathOver
<1>2. Branches(root)
  <2>1. root # None /\ root \in versions
    BY DEF KeepingSize, Rooted, Replaces, Inductive, TypeOK
  <2>. QED
    BY <2>1 DEF KeepingSize, StoreSized
<1>3. \A n : EntryFor(n).child_hash = n
  BY DEF EntryFor
<1>. HIDE DEF F
<1>4. CASE pc = "descend" /\ path' = path /\ old = at
  <2>1. CASE path = <<>>
    BY <1>2, <1>4, <2>1 DEF KeepingSize, Rooted
  <2>2. CASE path # <<>>
    <3>1. Left(Last(path)).child_hash = at
      BY <1>3, <1>4, <2>2, AboveNode
    <3>. QED
      BY <1>1, <1>4, <2>2, <3>1, LeftSized DEF KeepingSize
  <2>. QED
    BY <2>1, <2>2
<1>5. CASE pc = "ascend" /\ path # <<>> /\ path' = Front(path) /\ old = Last(path).node
  <2>1. CASE Front(path) = <<>>
    <3>1. Len(Front(path)) = Len(path) - 1 /\ Len(path) \in Nat
      BY <1>1, <1>5, FrontSeq, ElementsOfSeq
    <3>2. Len(path) = 1
      BY <2>1, <3>1
    <3>3. Last(path) = path[1]
      BY <3>2 DEF Last
    <3>. QED
      BY <1>2, <1>5, <2>1, <3>3 DEF KeepingSize, Rooted
  <2>2. CASE Front(path) # <<>>
    <3>1. Left(Last(Front(path))).child_hash = old
      BY <1>3, <1>5, <2>2, AboveTop
    <3>2. PathOver(Front(path), store)
      BY <1>1, <1>5, PathFront
    <3>. QED
      BY <1>5, <2>2, <3>1, <3>2, LeftSized DEF KeepingSize
  <2>. QED
    BY <1>5, <2>1, <2>2
<1>. QED
  BY <1>4, <1>5 DEF Replaces

\* The stack that is left begins at the root as before.
LEMMA RootedUp ==
  ASSUME Inductive, Rooted, NEW old, Replaces(old), pc' = "ascend", root' = root
  PROVE  Rooted'
<1>1. root # None
  BY DEF Rooted, Replaces
<1>2. path' # <<>> => path # <<>> /\ path'[1] = path[1]
  <2>1. CASE path # <<>> /\ path' = Front(path) /\ path' # <<>>
    <3>. DEFINE F == [node : NodesIn(store), idx : Nat]
    <3>1. path \in Seq(F) \ {<<>>}
      BY <2>1, InductiveSound DEF PathOver
    <3>. HIDE DEF F
    <3>2. /\ Front(path) \in Seq(F) /\ Len(Front(path)) = Len(path) - 1
          /\ \A i \in 1..(Len(path) - 1) : Front(path)[i] = path[i]
      BY <3>1, FrontSeq
    <3>3. Len(Front(path)) \in Nat /\ Len(Front(path)) > 0
      BY <2>1, <3>2, ElementsOfSeq
    <3>4. 1 \in 1..(Len(path) - 1)
      BY <3>1, <3>2, <3>3
    <3>. QED
      BY <2>1, <3>2, <3>4
  <2>. QED
    BY <2>1 DEF Replaces
<1>. QED
  BY <1>1, <1>2 DEF Rooted
-----------------------------------------------------------------------------
(***************************************************************************)
(* Steps that hand entries to the node above.                              *)
(***************************************************************************)
\* An insert makes one node that is no smaller, or two that hold the minimum.
LEMMA InsertUpSized ==
  ASSUME Inductive, Inductive', KeepingOrder, KeepingSize,
         NEW old \in BalancedOver(store), Replaces(old), call.op = "insert",
         NEW nodes \in Seq(BalancedOver(store)), StoreAndAscend(nodes),
         UNCHANGED <<treeVars, call, versions>>,
         \A i \in DOMAIN nodes : Fits(nodes[i], config),
         \/ /\ Len(nodes) = 1
            /\ nodes[1].kind = old.kind
            /\ NumEntries(nodes[1]) >= NumEntries(old)
         \/ /\ Len(nodes) = 2
            /\ \A i \in DOMAIN nodes : ~IsUnderflow(nodes[i], config)
  PROVE  KeepingSize'
<1>1. /\ store' = store \cup ToSet(nodes) /\ pc' = "ascend" /\ call' = call
      /\ update' = [i \in DOMAIN nodes |-> EntryFor(nodes[i])]
      /\ root' = root /\ config' = config /\ versions' = versions
  BY DEF StoreAndAscend, treeVars
<1>2. DOMAIN nodes = 1..Len(nodes) /\ DOMAIN update' = 1..Len(nodes) /\ Len(update') = Len(nodes)
  BY <1>1, ElementsOfSeq
<1>3. \A i \in DOMAIN nodes : update'[i].child_hash = nodes[i]
  BY <1>1 DEF EntryFor
<1>4. StoreSized'
  <2>1. \A n \in ToSet(nodes) : Fits(n, config)
    BY DEF ToSet
  <2>2. \A v \in {} \ {None} : Branches(v)
    OBVIOUS
  <2>. DEFINE M == ToSet(nodes)
              V == {}
  <2>3. store' \subseteq store \cup M /\ versions' \subseteq versions \cup V
    BY <1>1
  <2>. HIDE DEF M, V
  <2>. QED
    BY <1>1, <2>1, <2>2, <2>3, StoreMoreSized DEF M, V, KeepingSize
<1>5. Rooted'
  BY <1>1, RootedUp DEF KeepingSize
<1>6. IF path' = <<>> THEN Branches(old) ELSE ~IsUnderflow(old, config)
  BY ReplacedSized
<1>7. config.min_fanout \in Nat /\ NumEntries(old) \in Nat \ {0}
  BY NumEntriesNat, ConfigFits
<1>8. ASSUME Len(nodes) = 1
      PROVE  IF path' = <<>> THEN Branches(nodes[1]) ELSE ~IsUnderflow(nodes[1], config)
  <2>1. nodes[1] \in BalancedOver(store) /\ nodes[1].kind = old.kind
        /\ NumEntries(nodes[1]) >= NumEntries(old)
    BY <1>2, <1>8, ElementsOfSeq
  <2>2. NumEntries(nodes[1]) \in Nat \ {0}
    BY <2>1, NumEntriesNat
  <2>. QED
    BY <1>6, <1>7, <2>1, <2>2 DEF Branches, IsUnderflow
<1>9. Resizing'
  <2>1. CASE Len(nodes) = 1
    <3>1. 1 \in DOMAIN nodes /\ \A i \in DOMAIN update' : i = 1
      BY <1>2, <2>1
    <3>. QED
      BY <1>1, <1>2, <1>3, <1>8, <2>1, <3>1 DEF Resizing, Branches
  <2>2. CASE Len(nodes) = 2 /\ \A i \in DOMAIN nodes : ~IsUnderflow(nodes[i], config)
    BY <1>1, <1>2, <1>3, <2>2 DEF Resizing
  <2>. QED
    BY <2>1, <2>2
<1>. QED
  BY <1>4, <1>5, <1>9 DEF KeepingSize

\* A delete makes a node that lacks at most one slot, or none of a node with one.
LEMMA DeleteUpSized ==
  ASSUME Inductive, KeepingOrder, KeepingSize, StoreSized',
         NEW old \in BalancedOver(store), Replaces(old), call.op = "delete",
         pc' = "ascend", UNCHANGED <<treeVars, call>>,
         IF update' = <<>> THEN NumEntries(old) = 1
         ELSE /\ NumEntries(update'[1].child_hash) \in Nat
              /\ NumEntries(update'[1].child_hash) >= NumEntries(old) - 1
  PROVE  KeepingSize'
<1>1. root' = root /\ config' = config /\ call'.op = "delete" /\ call'.op # "insert"
  BY DEF treeVars
<1>2. Rooted'
  BY <1>1, RootedUp DEF KeepingSize
<1>3. IF path' = <<>> THEN Branches(old) ELSE ~IsUnderflow(old, config)
  BY ReplacedSized
<1>4. config.min_fanout \in Nat \ {0} /\ NumEntries(old) \in Nat \ {0}
  BY NumEntriesNat, ConfigFits
<1>5. path' # <<>> =>
        IF update' = <<>> THEN config.min_fanout = 1
        ELSE NumEntries(update'[1].child_hash) >= config.min_fanout - 1
  <2>. DEFINE n == update'[1].child_hash
  <2>. HIDE DEF n
  <2>1. IF update' = <<>> THEN NumEntries(old) = 1
        ELSE NumEntries(n) \in Nat /\ NumEntries(n) >= NumEntries(old) - 1
    BY DEF n
  <2>2. path' # <<>> => NumEntries(old) >= config.min_fanout
    BY <1>3, <1>4 DEF IsUnderflow
  <2>3. path' # <<>> =>
          IF update' = <<>> THEN config.min_fanout = 1 ELSE NumEntries(n) >= config.min_fanout - 1
    BY <1>4, <2>1, <2>2
  <2>. QED
    BY <2>3 DEF n
<1>6. Resizing'
  BY <1>1, <1>5 DEF Resizing
<1>. QED
  BY <1>2, <1>6 DEF KeepingSize

\* The same for a node that vanishes with its last slot.
LEMMA RestSized ==
  ASSUME Inductive, Inductive', KeepingOrder, KeepingSize,
         NEW old \in BalancedOver(store), Replaces(old), call.op = "delete",
         NEW rest, rest = <<>> => NumEntries(old) = 1,
         NEW n, rest # <<>> => /\ n \in BalancedOver(store) /\ Fits(n, config)
                               /\ NumEntries(n) >= NumEntries(old) - 1,
         StoreAndAscend(IF rest = <<>> THEN <<>> ELSE <<n>>),
         UNCHANGED <<treeVars, call, versions>>
  PROVE  KeepingSize'
<1>1. UNCHANGED <<treeVars, call>> /\ config' = config /\ versions' = versions
  BY DEF treeVars
<1>2. /\ store' = store \cup (IF rest = <<>> THEN {} ELSE {n}) /\ pc' = "ascend"
      /\ update' = IF rest = <<>> THEN <<>> ELSE <<EntryFor(n)>>
  <2>1. ToSet(<<>>) = {} /\ ToSet(<<n>>) = {n}
    BY DEF ToSet
  <2>2. /\ [i \in DOMAIN <<>> |-> EntryFor(<<>>[i])] = <<>>
        /\ [i \in DOMAIN <<n>> |-> EntryFor(<<n>>[i])] = <<EntryFor(n)>>
    OBVIOUS
  <2>3. CASE rest = <<>>
    <3>1. StoreAndAscend(<<>>)
      BY <2>3
    <3>. QED
      BY <2>1, <2>2, <2>3, <3>1 DEF StoreAndAscend
  <2>4. CASE rest # <<>>
    <3>1. StoreAndAscend(<<n>>)
      BY <2>4
    <3>. QED
      BY <2>1, <2>2, <2>4, <3>1 DEF StoreAndAscend
  <2>. QED
    BY <2>3, <2>4
<1>3. StoreSized'
  <2>. DEFINE M == IF rest = <<>> THEN {} ELSE {n}
              V == {}
  <2>1. store' \subseteq store \cup M /\ versions' \subseteq versions \cup V
    BY <1>1, <1>2
  <2>2. (\A m \in M : IsNode(m) => Fits(m, config)) /\ \A v \in V \ {None} : Branches(v)
    OBVIOUS
  <2>. HIDE DEF M, V
  <2>. QED
    BY <1>1, <2>1, <2>2, StoreMoreSized DEF KeepingSize
<1>4. IF update' = <<>> THEN NumEntries(old) = 1
      ELSE /\ NumEntries(update'[1].child_hash) \in Nat
           /\ NumEntries(update'[1].child_hash) >= NumEntries(old) - 1
  <2>1. CASE rest = <<>>
    BY <1>2, <2>1
  <2>2. CASE rest # <<>>
    <3>1. update' # <<>> /\ update'[1].child_hash = n
      BY <1>2, <2>2 DEF EntryFor
    <3>. QED
      BY <2>2, <3>1, NumEntriesNat
  <2>. QED
    BY <2>1, <2>2
<1>. QED
  BY <1>1, <1>2, <1>3, <1>4, DeleteUpSized
-----------------------------------------------------------------------------
(***************************************************************************)
(* Steps that end a call, or begin one.                                    *)
(***************************************************************************)
LEMMA QuietSized ==
  ASSUME StoreSized', pc' \in {"idle", "mark"}, path' = <<>>
  PROVE  KeepingSize'
BY DEF KeepingSize, Rooted, Resizing

\* A call that begins at the root of a tree that is not empty.
LEMMA StartSized ==
  ASSUME Inductive, pc = "idle", root # None, NEW request, StartDescent(request), StoreSized'
  PROVE  KeepingSize'
<1>1. path' = <<>> /\ pc' = "descend" /\ at' = root /\ root' = root
  BY DEF Inductive, TypeOK, StartDescent, treeVars
<1>. QED
  BY <1>1 DEF KeepingSize, Rooted, Resizing

\* Storing less, under a configuration that is the same and versions there were.
LEMMA StoreLessSized ==
  ASSUME StoreSized, store' \subseteq store, versions' \subseteq versions, config' = config
  PROVE  StoreSized'
BY DEF StoreSized, NodesIn, Branches

\* Descending pushes the root first.
LEMMA DescendSized ==
  ASSUME Inductive, KeepingSize, Descend
  PROVE  KeepingSize'
<1>. DEFINE frame == [node |-> at, idx |-> ChildIndex(at.children, call.key)]
            F == [node : NodesIn(store), idx : Nat]
<1>1. /\ pc = "descend" /\ pc' = pc /\ store' = store /\ root' = root /\ config' = config
      /\ versions' = versions /\ path' = Append(path, frame)
  BY DEF Descend, treeVars
<1>2. StoreSized'
  BY <1>1, StoreLessSized DEF KeepingSize
<1>3. path \in Seq(F) /\ frame.node = at
  BY InductiveSound DEF PathOver
<1>. HIDE DEF frame, F
<1>4. path' # <<>> /\ path'[1] = IF path = <<>> THEN frame ELSE path[1]
  BY <1>1, <1>3, ElementsOfSeq
<1>5. Rooted'
  BY <1>1, <1>3, <1>4 DEF KeepingSize, Rooted
<1>. QED
  BY <1>1, <1>2, <1>5 DEF KeepingSize, Resizing

\* A get leaves the store alone.
LEMMA GetSized ==
  ASSUME Inductive, KeepingSize, GetAtLeaf \/ \E k \in Keys : Get(k)
  PROVE  KeepingSize'
<1>1. store' = store /\ config' = config /\ versions' = versions
  BY DEF Get, GetAtLeaf, StartDescent, treeVars
<1>2. StoreSized'
  BY <1>1, StoreLessSized DEF KeepingSize
<1>3. CASE \E out : Return(call, out)
  BY <1>2, <1>3, QuietSized DEF Return
<1>4. CASE \E k \in Keys : Get(k)
  <2>1. PICK k \in Keys : Get(k)
    BY <1>4
  <2>2. CASE root = None
    <3>1. pc' = "idle" /\ path' = <<>>
      BY <2>1, <2>2 DEF Get, Return
    <3>. QED
      BY <1>2, <3>1, QuietSized
  <2>3. CASE root # None
    <3>1. pc = "idle" /\ StartDescent([op |-> "get", key |-> k])
      BY <2>1, <2>3 DEF Get
    <3>. QED
      BY <1>2, <2>3, <3>1, StartSized
  <2>. QED
    BY <2>2, <2>3
<1>5. GetAtLeaf => \E out : Return(call, out)
  BY DEF GetAtLeaf
<1>. QED
  BY <1>3, <1>4, <1>5
-----------------------------------------------------------------------------
(***************************************************************************)
(* Insert.                                                                 *)
(***************************************************************************)
LEMMA InsertSized ==
  ASSUME Inductive, Inductive', KeepingSize, NEW k \in Keys, NEW v \in Values, Insert(k, v)
  PROVE  KeepingSize'
<1>1. \A n \in ValueChunks(v) : ~IsNode(n)
  BY DEF ValueChunks, Data, IsNode
<1>2. CASE root = None
  <2>. DEFINE e == [key |-> k, value |-> ValueRepr(v)]
              leaf == Leaf(<<e>>)
  <2>1. /\ store' = store \cup ValueChunks(v) \cup {leaf} /\ pc' = "idle" /\ path' = <<>>
        /\ versions' = versions \cup {leaf} /\ config' = config
    BY <1>2 DEF Insert, Return, SetRoot
  <2>2. Fits(leaf, config)
    <3>1. config.target_fanout \in Nat /\ config.target_fanout >= 2
      BY ConfigFits
    <3>2. Slots(leaf) = <<e>>
      BY DEF Leaf, Slots
    <3>3. ToSet(<<e>>) = {e}
      BY DEF ToSet
    <3>4. NumEntries(leaf) = 1
      BY <3>2 DEF NumEntries
    <3>. QED
      BY <3>1, <3>2, <3>3, <3>4 DEF Fits, Full
  <2>3. Branches(leaf)
    BY DEF Branches, Leaf
  <2>. HIDE DEF leaf
  <2>. DEFINE M == ValueChunks(v) \cup {leaf}
              V == {leaf}
  <2>4. /\ store' \subseteq store \cup M /\ \A n \in M : IsNode(n) => Fits(n, config)
        /\ versions' \subseteq versions \cup V /\ \A n \in V \ {None} : Branches(n)
    BY <1>1, <2>1, <2>2, <2>3
  <2>. HIDE DEF M, V
  <2>5. StoreSized'
    BY <2>1, <2>4, StoreMoreSized DEF KeepingSize
  <2>. QED
    BY <2>1, <2>5, QuietSized
<1>3. CASE root # None
  <2>1. /\ store' = store \cup ValueChunks(v) /\ pc = "idle"
        /\ StartDescent([op |-> "insert", key |-> k, value |-> v])
    BY <1>3 DEF Insert
  <2>2. config' = config /\ versions' = versions
    BY <2>1 DEF StartDescent, treeVars
  <2>. DEFINE M == ValueChunks(v)
              V == {}
  <2>3. /\ store' \subseteq store \cup M /\ \A n \in M : IsNode(n) => Fits(n, config)
        /\ versions' \subseteq versions \cup V /\ \A n \in V \ {None} : Branches(n)
    BY <1>1, <2>1, <2>2
  <2>. HIDE DEF M, V
  <2>4. StoreSized'
    BY <2>2, <2>3, StoreMoreSized DEF KeepingSize
  <2>. QED
    BY <1>3, <2>1, <2>4, StartSized
<1>. QED
  BY <1>2, <1>3

\* A leaf grows by at most one entry before it is cut.
LEMMA InsertAtLeafSized ==
  ASSUME Inductive, Inductive', KeepingOrder, KeepingSize, InsertAtLeaf
  PROVE  KeepingSize'
<1>. DEFINE entries == Upsert(at.entries, call.key, ValueRepr(call.value))
            node == Leaf(entries)
            nodes == Split(node, config)
<1>1. /\ pc = "descend" /\ call.op = "insert" /\ at.kind = "Leaf"
      /\ StoreAndAscend(nodes) /\ path' = path /\ UNCHANGED <<treeVars, call, versions>>
  BY DEF InsertAtLeaf, AtLeaf
<1>2. /\ at \in BalancedOver(store) /\ at \in NodesIn(store)
      /\ at.entries \in Seq(LeafEntries(store))
      /\ Slots(at) = at.entries /\ NumEntries(at) = Len(at.entries) /\ Len(at.entries) \in Nat
  BY <1>1, AtNode, NodeKinds, ElementsOfSeq DEF Slots, NumEntries
<1>3. call.key \in Keys /\ call.value \in Values
  BY <1>1, AtNode DEF Requests
<1>4. [key |-> call.key, value |-> ValueRepr(call.value)] \in LeafEntries(store)
  BY <1>1, <1>3, ValueReprOver DEF Inductive, Descending
<1>5. entries \in Seq(LeafEntries(store)) \ {<<>>}
  BY <1>2, <1>3, <1>4, UpsertOver
<1>6. Len(entries) \in {Len(at.entries), Len(at.entries) + 1}
  BY <1>2, <1>3, UpsertSize
<1>7. config \in Configs /\ config.target_fanout \in Nat
  BY ConfigFits
<1>. HIDE DEF entries
<1>8. node \in BalancedOver(store) /\ Slots(node) = entries /\ node.kind = "Leaf"
      /\ NumEntries(node) = Len(entries)
  BY <1>5, LeafOver DEF Leaf, Slots, NumEntries
<1>9. Full(Slots(node), config)
  <2>1. ToSet(entries) \subseteq LeafEntries(store)
    BY <1>5, ToSetIs
  <2>. QED
    BY <1>8, <2>1, SlotKinds DEF Full
<1>. HIDE DEF node
<1>10. NumEntries(node) <= config.target_fanout + 1 /\ NumEntries(node) >= NumEntries(at)
  <2>1. NumEntries(at) <= config.target_fanout
    BY <1>2, StoredFits DEF Fits, KeepingSize
  <2>. QED
    BY <1>2, <1>6, <1>7, <1>8, <2>1
<1>11. /\ \A i \in DOMAIN nodes : Fits(nodes[i], config)
       /\ IF NumEntries(node) <= config.target_fanout THEN nodes = <<node>>
          ELSE Len(nodes) = 2 /\ \A i \in DOMAIN nodes : ~IsUnderflow(nodes[i], config)
  BY <1>7, <1>8, <1>9, <1>10, SplitFits
<1>12. nodes \in Seq(BalancedOver(store))
  BY <1>7, <1>8, SplitOver
<1>. HIDE DEF nodes
<1>13. nodes = <<node>> => Len(nodes) = 1 /\ nodes[1] = node
  OBVIOUS
<1>14. \/ /\ Len(nodes) = 1
          /\ nodes[1].kind = at.kind
          /\ NumEntries(nodes[1]) >= NumEntries(at)
       \/ /\ Len(nodes) = 2
          /\ \A i \in DOMAIN nodes : ~IsUnderflow(nodes[i], config)
  BY <1>1, <1>8, <1>10, <1>11, <1>13
<1>15. Replaces(at)
  BY <1>1 DEF Replaces
<1>. QED
  BY <1>1, <1>2, <1>11, <1>12, <1>14, <1>15, InsertUpSized

\* The node on top of the stack.
LEMMA TopFits ==
  ASSUME Inductive, KeepingSize, path # <<>>
  PROVE  LET old == Last(path).node
         IN  /\ old \in BalancedOver(store) /\ old.kind = "Internal"
             /\ old.children \in Seq(EntriesBelow(store, old.level)) \ {<<>>}
             /\ Last(path).idx \in DOMAIN old.children
             /\ Slots(old) = old.children
             /\ NumEntries(old) = Len(old.children) /\ Len(old.children) \in Nat
             /\ Len(old.children) <= config.target_fanout
             /\ Full(old.children, config)
<1>. DEFINE F == [node : NodesIn(store), idx : Nat]
            old == Last(path).node
<1>1. path \in Seq(F) \ {<<>>}
  BY InductiveSound DEF PathOver
<1>2. old \in NodesIn(store)
  <2>1. Last(path) \in F
    <3>. HIDE DEF F
    <3>. QED
      BY <1>1, LastOfSeq
  <2>. QED
    BY <2>1
<1>3. /\ old \in BalancedOver(store) /\ old.kind = "Internal"
      /\ old.children \in Seq(EntriesBelow(store, old.level)) \ {<<>>}
      /\ Last(path).idx \in DOMAIN old.children
      /\ Slots(old) = old.children
  BY TopFrame DEF Slots
<1>4. Fits(old, config)
  BY <1>2, StoredFits DEF KeepingSize
<1>. HIDE DEF old
<1>5. NumEntries(old) = Len(old.children) /\ Len(old.children) \in Nat
  BY <1>3, NumEntriesNat
<1>. QED
  BY <1>3, <1>4, <1>5 DEF Fits, old

\* A parent grows by at most one child before it is cut.
LEMMA InsertAscendSized ==
  ASSUME Inductive, Inductive', KeepingOrder, KeepingSize, InsertAscend
  PROVE  KeepingSize'
<1>. DEFINE old == Last(path).node
            idx == Last(path).idx
            children == AfterInsert(old.children, idx, update)
            node == WithSlots(old, children)
            nodes == IF Len(update) = 1 THEN <<node>> ELSE Split(node, config)
<1>1. /\ pc = "ascend" /\ call.op = "insert" /\ path # <<>>
      /\ StoreAndAscend(nodes) /\ path' = Front(path) /\ UNCHANGED <<treeVars, call, versions>>
  BY DEF InsertAscend, Ascending
<1>2. /\ old \in BalancedOver(store) /\ old.kind = "Internal"
      /\ old.children \in Seq(EntriesBelow(store, old.level))
      /\ idx \in DOMAIN old.children
      /\ NumEntries(old) = Len(old.children) /\ Len(old.children) \in Nat
      /\ Len(old.children) <= config.target_fanout
      /\ Full(old.children, config)
  BY <1>1, TopFits
<1>3. update \in Seq(EntriesBelow(store, old.level)) /\ Len(update) \in 1..2
  BY <1>1, UpdateBelow DEF Inductive, TypeOK
<1>4. Full(update, config)
  BY <1>1 DEF KeepingSize, Resizing, Full, ToSet
<1>5. Replaces(old)
  BY <1>1 DEF Replaces
<1>6. config \in Configs /\ config.target_fanout \in Nat
  BY ConfigFits
<1>. HIDE DEF old, idx
<1>7. children \in Seq(SlotsOver(old, store)) \ {<<>>}
  BY <1>2, <1>3, AfterInsertOver DEF SlotsOver
<1>8. Len(children) = Len(old.children) + Len(update) - 1
      /\ ToSet(children) \subseteq ToSet(old.children) \cup ToSet(update)
  <2>. DEFINE l == old.level
              olds == old.children
  <2>1. olds \in Seq(EntriesBelow(store, l)) /\ idx \in DOMAIN olds
        /\ update \in Seq(EntriesBelow(store, l))
    BY <1>2, <1>3
  <2>. HIDE DEF l, olds
  <2>2. Len(AfterInsert(olds, idx, update)) = Len(olds) + Len(update) - 1
    BY <2>1, <1>3, AfterInsertIs
  <2>3. ToSet(AfterInsert(olds, idx, update)) \subseteq ToSet(olds) \cup ToSet(update)
    BY <2>1, <1>3, AfterInsertIs
  <2>. QED
    BY <2>2, <2>3 DEF olds
<1>. HIDE DEF children
<1>9. node \in BalancedOver(store) /\ Slots(node) = children /\ node.kind = old.kind
  <2>1. node \in BalancedOver(store) /\ Slots(node) = children
    BY <1>2, <1>7, WithSlotsOver
  <2>2. node.kind = old.kind
    BY <1>2 DEF WithSlots, Internal
  <2>. QED
    BY <2>1, <2>2
<1>. HIDE DEF node
<1>10. NumEntries(node) = Len(old.children) + Len(update) - 1 /\ Full(Slots(node), config)
  BY <1>2, <1>4, <1>8, <1>9 DEF NumEntries, Full
<1>11. NumEntries(node) <= config.target_fanout + 1 /\ NumEntries(node) >= NumEntries(old)
  <2>. DEFINE a == NumEntries(node)
              b == NumEntries(old)
              u == Len(update)
              t == config.target_fanout
  <2>1. a = b + u - 1 /\ b \in Nat /\ t \in Nat /\ u \in 1..2 /\ b <= t
    BY <1>2, <1>3, <1>6, <1>10
  <2>. HIDE DEF a, b, u, t
  <2>2. a <= t + 1 /\ a >= b
    BY <2>1
  <2>. QED
    BY <2>2 DEF a, b, t
<1>12. CASE Len(update) = 1
  <2>1. Fits(node, config)
    BY <1>2, <1>6, <1>10, <1>12 DEF Fits
  <2>2. nodes = <<node>> /\ Len(nodes) = 1 /\ nodes[1] = node
    BY <1>12
  <2>3. nodes \in Seq(BalancedOver(store))
    BY <1>9, <2>2, SingletonSeq
  <2>4. \A i \in DOMAIN nodes : Fits(nodes[i], config)
    BY <2>1, <2>2
  <2>. HIDE DEF nodes
  <2>. QED
    BY <1>1, <1>2, <1>5, <1>9, <1>11, <2>2, <2>3, <2>4, InsertUpSized
<1>13. CASE Len(update) # 1
  <2>1. nodes = Split(node, config)
    BY <1>13
  <2>2. /\ \A i \in DOMAIN nodes : Fits(nodes[i], config)
        /\ IF NumEntries(node) <= config.target_fanout THEN nodes = <<node>>
           ELSE Len(nodes) = 2 /\ \A i \in DOMAIN nodes : ~IsUnderflow(nodes[i], config)
    BY <1>6, <1>9, <1>10, <1>11, <2>1, SplitFits
  <2>3. nodes \in Seq(BalancedOver(store))
    BY <1>6, <1>9, <2>1, SplitOver
  <2>. HIDE DEF nodes
  <2>4. nodes = <<node>> => Len(nodes) = 1 /\ nodes[1] = node
    OBVIOUS
  <2>5. \/ /\ Len(nodes) = 1
           /\ nodes[1].kind = old.kind
           /\ NumEntries(nodes[1]) >= NumEntries(old)
        \/ /\ Len(nodes) = 2
           /\ \A i \in DOMAIN nodes : ~IsUnderflow(nodes[i], config)
    BY <1>9, <1>11, <2>2, <2>4
  <2>. QED
    BY <1>1, <1>2, <1>5, <2>2, <2>3, <2>5, InsertUpSized
<1>. QED
  BY <1>12, <1>13

\* The root grows no further than its nodes do, or gets the two halves as children.
LEMMA InsertAtTopSized ==
  ASSUME Inductive, Inductive', KeepingSize, InsertAtTop
  PROVE  KeepingSize'
<1>. DEFINE newRoot == IF Len(update) = 1 THEN update[1].child_hash
                       ELSE Internal(Level(update[1].child_hash) + 1, update)
<1>1. /\ pc = "ascend" /\ call.op = "insert" /\ path = <<>>
      /\ pc' = "idle" /\ path' = <<>> /\ store' = store \cup {newRoot}
      /\ versions' = versions \cup {newRoot} /\ config' = config
  BY DEF InsertAtTop, AtTop, Return, SetRoot
<1>2. update \in Seq(InternalEntries(store)) /\ Len(update) \in 1..2
  BY <1>1 DEF Inductive, TypeOK
<1>3. config.target_fanout \in Nat /\ config.target_fanout >= 2
  BY ConfigFits
<1>4. Fits(newRoot, config) /\ Branches(newRoot)
  <2>1. CASE Len(update) = 1
    <3>1. update[1] \in InternalEntries(store)
      BY <1>2, <2>1, ElementsOfSeq
    <3>2. newRoot \in NodesIn(store)
      BY <2>1, <3>1 DEF InternalEntries
    <3>. QED
      BY <1>1, <2>1, <3>2, StoredFits DEF KeepingSize, Resizing
  <2>2. CASE Len(update) # 1
    <3>1. Slots(newRoot) = update /\ NumEntries(newRoot) = 2
      BY <1>2, <2>2 DEF Internal, Slots, NumEntries
    <3>2. Full(update, config)
      BY <1>1, <2>2 DEF KeepingSize, Resizing, Full, ToSet
    <3>. QED
      BY <1>3, <3>1, <3>2 DEF Fits, Branches
  <2>. QED
    BY <2>1, <2>2
<1>. HIDE DEF newRoot
<1>. DEFINE M == {newRoot}
<1>5. /\ store' \subseteq store \cup M /\ \A n \in M : IsNode(n) => Fits(n, config)
      /\ versions' \subseteq versions \cup M /\ \A n \in M \ {None} : Branches(n)
  BY <1>1, <1>4
<1>. HIDE DEF M
<1>6. StoreSized'
  BY <1>1, <1>5, StoreMoreSized DEF KeepingSize
<1>. QED
  BY <1>1, <1>6, QuietSized
-----------------------------------------------------------------------------
(***************************************************************************)
(* Delete.                                                                 *)
(***************************************************************************)
LEMMA DeleteSized ==
  ASSUME Inductive, KeepingSize, NEW k \in Keys, Delete(k)
  PROVE  KeepingSize'
<1>1. store' = store /\ config' = config /\ versions' = versions
  BY DEF Delete, StartDescent, treeVars
<1>2. StoreSized'
  BY <1>1, StoreLessSized DEF KeepingSize
<1>3. CASE root = None
  <2>1. pc' = "idle" /\ path' = <<>>
    BY <1>3 DEF Delete, Return
  <2>. QED
    BY <1>2, <2>1, QuietSized
<1>4. CASE root # None
  <2>1. pc = "idle" /\ StartDescent([op |-> "delete", key |-> k])
    BY <1>4 DEF Delete
  <2>. QED
    BY <1>2, <1>4, <2>1, StartSized
<1>. QED
  BY <1>3, <1>4

\* A leaf shrinks by one entry.
LEMMA DeleteAtLeafSized ==
  ASSUME Inductive, Inductive', KeepingOrder, KeepingSize, DeleteAtLeaf
  PROVE  KeepingSize'
<1>. DEFINE rest == RemoveKey(at.entries, call.key)
            node == Leaf(rest)
<1>1. /\ pc = "descend" /\ call.op = "delete" /\ at.kind = "Leaf"
      /\ HasKey(at.entries, call.key)
      /\ StoreAndAscend(IF rest = <<>> THEN <<>> ELSE <<node>>)
      /\ path' = path /\ UNCHANGED <<treeVars, call, versions>>
  BY DEF DeleteAtLeaf, AtLeaf
<1>2. /\ at \in BalancedOver(store) /\ at \in NodesIn(store)
      /\ at.entries \in Seq(LeafEntries(store))
      /\ Slots(at) = at.entries /\ NumEntries(at) = Len(at.entries) /\ Len(at.entries) \in Nat
  BY <1>1, AtNode, NodeKinds, ElementsOfSeq DEF Slots, NumEntries
<1>3. call.key \in Keys
  BY <1>1, AtNode DEF Requests
<1>4. rest \in Seq(LeafEntries(store))
  BY <1>1, <1>2, <1>3, RemoveKeyOver
<1>5. Len(rest) = Len(at.entries) - 1
  <2>1. KeyPosition(at.entries, call.key) \in 1..Len(at.entries)
    BY <1>1, <1>2, <1>3, KeyPositionRange, KeysAssumption
  <2>2. rest = RemoveAt(at.entries, KeyPosition(at.entries, call.key))
    BY DEF RemoveKey
  <2>. HIDE DEF rest
  <2>. QED
    BY <1>2, <2>1, <2>2, RemoveAtSeq
<1>6. NumEntries(at) <= config.target_fanout /\ config.target_fanout \in Nat
  BY <1>2, StoredFits, ConfigFits DEF Fits, KeepingSize
<1>. HIDE DEF rest
<1>7. rest = <<>> => NumEntries(at) = 1
  BY <1>2, <1>5
<1>8. rest # <<>> => /\ node \in BalancedOver(store) /\ Fits(node, config)
                     /\ NumEntries(node) >= NumEntries(at) - 1
  <2>. SUFFICES ASSUME rest # <<>>
                PROVE  /\ node \in BalancedOver(store) /\ Fits(node, config)
                       /\ NumEntries(node) >= NumEntries(at) - 1
    OBVIOUS
  <2>1. node \in BalancedOver(store) /\ Slots(node) = rest
    BY <1>4, LeafOver DEF Leaf, Slots
  <2>2. NumEntries(node) = Len(at.entries) - 1
    BY <1>5, <2>1 DEF NumEntries
  <2>3. ToSet(rest) \subseteq LeafEntries(store)
    BY <1>4, ToSetIs
  <2>4. Full(rest, config)
    BY <2>3, SlotKinds DEF Full
  <2>. QED
    BY <1>2, <1>6, <2>1, <2>2, <2>4 DEF Fits
<1>9. Replaces(at)
  BY <1>1 DEF Replaces
<1>. HIDE DEF node
<1>. QED
  BY <1>1, <1>2, <1>7, <1>8, <1>9, RestSized

\* A parent loses the entry of a vanished child.
LEMMA DeleteChildGoneSized ==
  ASSUME Inductive, Inductive', KeepingOrder, KeepingSize, DeleteChildGone
  PROVE  KeepingSize'
<1>. DEFINE old == Last(path).node
            idx == Last(path).idx
            rest == RemoveAt(old.children, idx)
            node == WithSlots(old, rest)
<1>1. /\ pc = "ascend" /\ call.op = "delete" /\ path # <<>>
      /\ StoreAndAscend(IF rest = <<>> THEN <<>> ELSE <<node>>)
      /\ path' = Front(path) /\ UNCHANGED <<treeVars, call, versions>>
  BY DEF DeleteChildGone, Ascending
<1>2. /\ old \in BalancedOver(store) /\ old.kind = "Internal"
      /\ old.children \in Seq(EntriesBelow(store, old.level))
      /\ idx \in DOMAIN old.children /\ idx \in 1..Len(old.children)
      /\ NumEntries(old) = Len(old.children) /\ Len(old.children) \in Nat
      /\ Len(old.children) <= config.target_fanout
      /\ Full(old.children, config)
  BY <1>1, TopFits, ElementsOfSeq
<1>3. config.target_fanout \in Nat
  BY ConfigFits
<1>4. Replaces(old)
  BY <1>1 DEF Replaces
<1>. HIDE DEF old, idx
<1>5. rest \in Seq(EntriesBelow(store, old.level)) /\ Len(rest) = Len(old.children) - 1
  BY <1>2, RemoveAtSeq
<1>6. ToSet(rest) \subseteq ToSet(old.children)
  BY <1>2, ToSetRemoveAt
<1>. HIDE DEF rest
<1>7. rest = <<>> => NumEntries(old) = 1
  BY <1>2, <1>5
<1>8. rest # <<>> => /\ node \in BalancedOver(store) /\ Fits(node, config)
                     /\ NumEntries(node) >= NumEntries(old) - 1
  <2>. SUFFICES ASSUME rest # <<>>
                PROVE  /\ node \in BalancedOver(store) /\ Fits(node, config)
                       /\ NumEntries(node) >= NumEntries(old) - 1
    OBVIOUS
  <2>1. SlotsOver(old, store) = EntriesBelow(store, old.level)
    BY <1>2 DEF SlotsOver
  <2>2. node \in BalancedOver(store) /\ Slots(node) = rest
    BY <1>2, <1>5, <2>1, WithSlotsOver
  <2>3. NumEntries(node) = Len(old.children) - 1
    BY <1>5, <2>2 DEF NumEntries
  <2>4. Full(rest, config)
    BY <1>2, <1>6 DEF Full
  <2>. QED
    BY <1>2, <1>3, <2>2, <2>3, <2>4 DEF Fits
<1>. HIDE DEF node
<1>. QED
  BY <1>1, <1>2, <1>4, <1>7, <1>8, RestSized

\* The children with the entry of the rewritten one.
LEMMA RewrittenSized ==
  ASSUME Inductive, KeepingSize, pc = "ascend", path # <<>>, update # <<>>
  PROVE  LET old == Last(path).node
             idx == Last(path).idx
         IN  /\ Rewritten \in Seq(EntriesBelow(store, old.level)) \ {<<>>}
             /\ idx \in DOMAIN Rewritten
             /\ Len(Rewritten) = Len(old.children)
             /\ Rewritten[idx] = update[1]
             /\ \A j \in DOMAIN Rewritten :
                  j # idx => ~IsUnderflow(Rewritten[j].child_hash, config)
<1>. DEFINE E == EntriesBelow(store, Last(path).node.level)
            children == Last(path).node.children
            idx == Last(path).idx
            u == update[1]
<1>1. Rewritten \in Seq(E) \ {<<>>} /\ idx \in DOMAIN Rewritten
  BY RewrittenOver
<1>2. children \in Seq(E) /\ idx \in DOMAIN children /\ Full(children, config)
  BY TopFits
<1>3. Rewritten = [children EXCEPT ![idx] = u]
  BY DEF Rewritten
<1>4. \A e \in E : "key" \notin DOMAIN e
  BY SlotKinds
<1>5. \A j \in DOMAIN children : ~IsUnderflow(children[j].child_hash, config)
  <2>1. \A j \in DOMAIN children : children[j] \in ToSet(children) /\ children[j] \in E
    BY <1>2, ElementsOfSeq DEF ToSet
  <2>. QED
    BY <1>2, <1>4, <2>1 DEF Full
<1>. HIDE DEF E, children, idx, u
<1>6. DOMAIN Rewritten = DOMAIN children /\ Len(Rewritten) = Len(children)
  BY <1>1, <1>2, <1>3, ElementsOfSeq
<1>7. \A j \in DOMAIN children : Rewritten[j] = IF j = idx THEN u ELSE children[j]
  BY <1>3
<1>8. \A j \in DOMAIN Rewritten : j # idx => ~IsUnderflow(Rewritten[j].child_hash, config)
  BY <1>5, <1>6, <1>7
<1>9. Rewritten[idx] = u
  BY <1>2, <1>7
<1>. QED
  BY <1>1, <1>6, <1>8, <1>9 DEF E, children, idx, u

\* A parent whose rewritten child is large enough.
LEMMA DeleteAscendSized ==
  ASSUME Inductive, Inductive', KeepingOrder, KeepingSize, DeleteAscend
  PROVE  KeepingSize'
<1>. DEFINE old == Last(path).node
            idx == Last(path).idx
            node == WithSlots(old, Rewritten)
<1>1. /\ pc = "ascend" /\ call.op = "delete" /\ path # <<>> /\ update # <<>>
      /\ StoreAndAscend(<<node>>) /\ path' = Front(path)
      /\ ~IsUnderflow(update[1].child_hash, config)
      /\ UNCHANGED <<treeVars, call, versions>>
  BY DEF DeleteAscend, Ascending
<1>2. /\ old \in BalancedOver(store) /\ old.kind = "Internal"
      /\ NumEntries(old) = Len(old.children) /\ Len(old.children) \in Nat
      /\ Len(old.children) <= config.target_fanout
  BY <1>1, TopFits
<1>3. /\ Rewritten \in Seq(EntriesBelow(store, old.level)) \ {<<>>}
      /\ Len(Rewritten) = Len(old.children)
      /\ \A j \in DOMAIN Rewritten : ~IsUnderflow(Rewritten[j].child_hash, config)
  BY <1>1, RewrittenSized
<1>4. Replaces(old)
  BY <1>1 DEF Replaces
<1>. HIDE DEF old
<1>5. SlotsOver(old, store) = EntriesBelow(store, old.level)
  BY <1>2 DEF SlotsOver
<1>6. node \in BalancedOver(store) /\ Slots(node) = Rewritten
  BY <1>2, <1>3, <1>5, WithSlotsOver
<1>7. NumEntries(node) = NumEntries(old) /\ NumEntries(node) <= config.target_fanout
  BY <1>2, <1>3, <1>6 DEF NumEntries
<1>8. Fits(node, config)
  BY <1>3, <1>6, <1>7 DEF Fits, Full, ToSet
<1>9. NumEntries(node) >= NumEntries(old) - 1
  BY <1>2, <1>7
<1>. HIDE DEF node
<1>10. StoreAndAscend(IF Rewritten = <<>> THEN <<>> ELSE <<node>>)
  BY <1>1, <1>3
<1>11. Rewritten # <<>>
  BY <1>3
<1>. QED
  BY <1>1, <1>2, <1>4, <1>6, <1>8, <1>9, <1>10, <1>11, RestSized

\* A child that is too small after a delete lacks exactly one slot.
LEMMA LacksOne ==
  ASSUME Inductive, KeepingSize, ChildUnderflows
  PROVE  /\ NumEntries(update[1].child_hash) = config.min_fanout - 1
         /\ config.min_fanout > 1
         /\ update[1] \in InternalEntries(store)
<1>1. pc = "ascend" /\ call.op = "delete" /\ path # <<>> /\ update # <<>>
      /\ IsUnderflow(update[1].child_hash, config)
  BY DEF ChildUnderflows, Ascending
<1>2. update[1] \in InternalEntries(store)
  BY <1>1, ElementsOfSeq DEF Inductive, TypeOK
<1>3. NumEntries(update[1].child_hash) \in Nat \ {0}
  BY <1>2, StoredFits, NumEntriesNat DEF InternalEntries, KeepingSize
<1>4. NumEntries(update[1].child_hash) >= config.min_fanout - 1
  BY <1>1 DEF KeepingSize, Resizing
<1>5. config.min_fanout \in Nat
  BY ConfigFits
<1>. QED
  BY <1>1, <1>2, <1>3, <1>4, <1>5 DEF IsUnderflow

\* Such a child has a sibling: only a root may have a single child, and only
\* with a minimum at which no child can be too small.
LEMMA NeverWithoutSibling ==
  ASSUME Inductive, KeepingOrder, KeepingSize
  PROVE  ~NoSibling
<1>. SUFFICES ASSUME NoSibling
              PROVE  FALSE
  OBVIOUS
<1>. DEFINE old == Last(path).node
<1>1. /\ pc = "ascend" /\ path # <<>> /\ update # <<>> /\ ChildUnderflows
      /\ ~HasSibling(Rewritten)
  BY DEF NoSibling, ChildUnderflows, Ascending
<1>2. /\ NumEntries(old) = Len(old.children) /\ old.kind = "Internal"
      /\ Len(old.children) \in Nat
  BY <1>1, TopFits
<1>3. Len(Rewritten) = Len(old.children)
  BY <1>1, RewrittenSized
<1>4. ~(NumEntries(old) > 1)
  BY <1>1, <1>2, <1>3 DEF HasSibling
<1>5. config.min_fanout > 1 /\ config.min_fanout \in Nat
  BY <1>1, LacksOne, ConfigFits
<1>6. IF Front(path) = <<>> THEN Branches(old) ELSE ~IsUnderflow(old, config)
  <2>1. CASE Front(path) = <<>>
    <3>. DEFINE F == [node : NodesIn(store), idx : Nat]
    <3>1. path \in Seq(F) \ {<<>>}
      BY <1>1, InductiveSound DEF PathOver
    <3>. HIDE DEF F
    <3>2. Len(Front(path)) = Len(path) - 1 /\ Len(path) \in Nat
      BY <3>1, FrontSeq, ElementsOfSeq
    <3>3. Len(path) = 1
      BY <2>1, <3>2
    <3>4. Last(path) = path[1]
      BY <3>3 DEF Last
    <3>5. root # None /\ root \in versions /\ old = root
      BY <1>1, <3>4 DEF KeepingSize, Rooted, Inductive, TypeOK
    <3>. QED
      BY <2>1, <3>5 DEF KeepingSize, StoreSized
  <2>2. CASE Front(path) # <<>>
    <3>1. Left(Last(Front(path))).child_hash = old
      BY <1>1, <2>2, AboveTop DEF EntryFor
    <3>2. PathOver(Front(path), store)
      BY <1>1, InductiveSound, PathFront
    <3>. QED
      BY <2>2, <3>1, <3>2, LeftSized DEF KeepingSize
  <2>. QED
    BY <2>1, <2>2
<1>. HIDE DEF old
<1>. QED
  BY <1>2, <1>4, <1>5, <1>6 DEF Branches, IsUnderflow

\* Borrowing and merging leave no child too small or too large.
LEMMA DeleteRebalanceSized ==
  ASSUME Inductive, Inductive', KeepingOrder, KeepingSize, DeleteRebalance
  PROVE  KeepingSize'
<1>. DEFINE old == Last(path).node
            idx == Last(path).idx
            l == old.level
            children == HandleUnderflow(Rewritten, idx, config)
            node == WithSlots(old, children)
            remade == {c.child_hash : c \in ToSet(children)}
                        \ {c.child_hash : c \in ToSet(Rewritten)}
            T == store \cup remade
<1>1. /\ pc = "ascend" /\ pc' = pc /\ call.op = "delete" /\ path # <<>> /\ update # <<>>
      /\ ChildUnderflows /\ HasSibling(Rewritten)
      /\ store' = T \cup {node} /\ update' = <<EntryFor(node)>>
      /\ path' = Front(path) /\ UNCHANGED <<treeVars, call, versions>>
  BY DEF DeleteRebalance, ChildUnderflows, Ascending
<1>2. /\ old \in BalancedOver(store) /\ old.kind = "Internal"
      /\ NumEntries(old) = Len(old.children) /\ Len(old.children) \in Nat
      /\ Len(old.children) <= config.target_fanout
  BY <1>1, TopFits
<1>3. /\ Rewritten \in Seq(EntriesBelow(store, l))
      /\ idx \in DOMAIN Rewritten
      /\ Len(Rewritten) = Len(old.children)
      /\ Rewritten[idx] = update[1]
      /\ \A j \in DOMAIN Rewritten : j # idx => ~IsUnderflow(Rewritten[j].child_hash, config)
  BY <1>1, RewrittenSized
<1>4. Sound(store) /\ config \in Configs /\ config.target_fanout \in Nat
  BY InductiveSound, ConfigFits
<1>5. Distinct(Rewritten)
  <2>1. InOrder(Rewritten)
    BY <1>1, RewrittenInOrder
  <2>2. Ranged(EntriesBelow(store, l))
    BY <1>4, SlotsRanged
  <2>. HIDE DEF l
  <2>. QED
    BY <1>3, <2>1, <2>2, OrderDistinct
<1>6. NumEntries(Rewritten[idx].child_hash) = config.min_fanout - 1
  BY <1>1, <1>3, LacksOne
<1>7. \A j \in DOMAIN Rewritten : Fits(Rewritten[j].child_hash, config)
  <2>1. \A j \in DOMAIN Rewritten : Rewritten[j].child_hash \in NodesIn(store)
    BY <1>3, ElementsOfSeq DEF EntriesBelow, InternalEntries
  <2>. QED
    BY <2>1, StoredFits DEF KeepingSize
<1>8. Sound(T) /\ children \in Seq(EntriesBelow(T, l)) \ {<<>>}
  BY RebalancedOver
<1>9. node \in BalancedOver(T) /\ Slots(node) = children
  <2>1. children \in Seq(SlotsOver(old, T)) \ {<<>>}
    BY <1>2, <1>8 DEF SlotsOver
  <2>. HIDE DEF old, children, T
  <2>. QED
    BY <1>2, <2>1, WithSlotsOver
<1>10. Replaces(old)
  BY <1>1 DEF Replaces
<1>. HIDE DEF old, idx, node
<1>11. /\ Len(children) \in {Len(Rewritten), Len(Rewritten) - 1}
       /\ \A e \in ToSet(children) : /\ Fits(e.child_hash, config)
                                     /\ ~IsUnderflow(e.child_hash, config)
  <2>. HIDE DEF l
  <2>. QED
    BY <1>1, <1>3, <1>4, <1>5, <1>6, <1>7, HandleUnderflowFits
<1>12. \A n \in remade : Fits(n, config)
  BY <1>11
<1>. HIDE DEF children, remade, l
<1>13. /\ NumEntries(node) \in Nat /\ NumEntries(node) >= NumEntries(old) - 1
       /\ NumEntries(node) <= config.target_fanout
  <2>1. NumEntries(node) = Len(children)
    BY <1>9 DEF NumEntries
  <2>2. Len(children) \in Nat
    BY <1>8, ElementsOfSeq
  <2>. HIDE DEF T
  <2>. QED
    BY <1>2, <1>3, <1>4, <1>11, <2>1, <2>2
<1>14. Fits(node, config)
  BY <1>9, <1>11, <1>13 DEF Fits, Full
<1>. DEFINE M == remade \cup {node}
            V == {}
<1>15. /\ store' \subseteq store \cup M /\ \A n \in M : IsNode(n) => Fits(n, config)
       /\ versions' \subseteq versions \cup V /\ \A n \in V \ {None} : Branches(n)
  BY <1>1, <1>12, <1>14
<1>. HIDE DEF M, V
<1>16. StoreSized'
  BY <1>1, <1>15, StoreMoreSized DEF KeepingSize, treeVars
<1>17. update' # <<>> /\ update'[1].child_hash = node
  BY <1>1 DEF EntryFor
<1>. QED
  BY <1>1, <1>2, <1>10, <1>13, <1>16, <1>17, DeleteUpSized

\* A root with a single child gives way to that child, which holds the minimum.
LEMMA DeleteAtTopSized ==
  ASSUME Inductive, KeepingSize, DeleteAtTop
  PROVE  KeepingSize'
<1>. DEFINE hash == IF update = <<>> THEN None ELSE Collapse(update[1].child_hash)
<1>1. /\ pc = "ascend" /\ call.op = "delete" /\ path = <<>>
      /\ pc' = "idle" /\ path' = <<>> /\ store' = store
      /\ versions' = versions \cup {hash} /\ config' = config
  BY DEF DeleteAtTop, AtTop, Return, SetRoot
<1>2. hash # None => Branches(hash)
  <2>. SUFFICES ASSUME update # <<>>
                PROVE  Branches(hash)
    OBVIOUS
  <2>. DEFINE n == update[1].child_hash
  <2>1. n \in NodesIn(store)
    <3>1. update[1] \in InternalEntries(store)
      BY ElementsOfSeq DEF Inductive, TypeOK
    <3>. QED
      BY <3>1 DEF InternalEntries
  <2>. HIDE DEF n
  <2>2. hash = Collapse(n)
    BY DEF n
  <2>. HIDE DEF hash
  <2>3. n \in BalancedOver(store) /\ Fits(n, config)
    BY <2>1, StoredFits DEF KeepingSize
  <2>4. CASE n.kind = "Internal" /\ Len(n.children) = 1
    <3>. DEFINE m == n.children[1].child_hash
    <3>1. hash = m
      BY <2>2, <2>4 DEF Collapse
    <3>2. n.children[1] \in EntriesBelow(store, n.level)
      BY <2>3, <2>4, NodeKinds, ElementsOfSeq
    <3>3. m \in NodesIn(store)
      BY <3>2 DEF EntriesBelow, InternalEntries
    <3>4. ~IsUnderflow(m, config)
      <4>1. 1 \in DOMAIN n.children
        BY <2>3, <2>4, NodeKinds, ElementsOfSeq
      <4>. QED
        BY <2>1, <2>4, <4>1 DEF KeepingSize, StoreSized
    <3>. HIDE DEF m
    <3>5. NumEntries(m) \in Nat /\ config.min_fanout \in Nat
      BY <3>3, StoredFits, NumEntriesNat, ConfigFits DEF KeepingSize
    <3>. QED
      BY <3>1, <3>4, <3>5 DEF Branches, IsUnderflow
  <2>5. CASE n.kind = "Internal" /\ Len(n.children) # 1
    <3>1. hash = n
      BY <2>2, <2>5 DEF Collapse
    <3>2. NumEntries(n) = Len(n.children)
      BY <2>3, <2>5, NumEntriesNat DEF Slots
    <3>3. NumEntries(n) \in Nat /\ NumEntries(n) # 0
      BY <2>3, NumEntriesNat
    <3>4. NumEntries(n) # 1
      BY <2>5, <3>2
    <3>5. NumEntries(n) > 1
      BY <3>3, <3>4
    <3>. QED
      BY <3>1, <3>5 DEF Branches
  <2>6. CASE n.kind # "Internal"
    BY <2>2, <2>6 DEF Collapse, Branches
  <2>. QED
    BY <2>4, <2>5, <2>6
<1>. HIDE DEF hash
<1>3. StoreSized'
  BY <1>1, <1>2 DEF KeepingSize, StoreSized, Branches
<1>. QED
  BY <1>1, <1>3, QuietSized
-----------------------------------------------------------------------------
(***************************************************************************)
(* The other steps store nothing and have nothing on the stack afterwards. *)
(***************************************************************************)
\* Calls that fail, deletes that end, versions that are checked out or loaded.
LEMMA ReturnSized ==
  ASSUME Inductive, KeepingSize, \A c, d \in Configs : c = d,
         \/ DeleteNotFound
         \/ \E h \in versions : Checkout(h) \/ CheckoutMissing(h)
         \/ \E h \in versions, c \in Configs : Load(h, c, {})
  PROVE  KeepingSize'
<1>1. store' \subseteq store /\ pc' = "idle" /\ path' = <<>> /\ versions' \subseteq versions
  BY DEF DeleteNotFound, Checkout, CheckoutMissing, Load, Return, SetRoot
<1>2. config' = config
  BY DEF DeleteNotFound, Checkout, CheckoutMissing, Load, treeVars, Inductive, TypeOK
<1>. QED
  BY <1>1, <1>2, StoreLessSized, QuietSized DEF KeepingSize

\* A collection only takes chunks away.
LEMMA GcSized ==
  ASSUME Inductive, KeepingSize, Sweep \/ (\E keep : Collect(keep)) \/ (\E h : Mark(h))
  PROVE  KeepingSize'
<1>1. /\ store' \subseteq store /\ pc' \in {"idle", "mark"} /\ versions' = versions
      /\ config' = config /\ root' = root
  BY DEF Sweep, Collect, Mark, Return, treeVars
<1>2. StoreSized'
  BY <1>1, StoreLessSized DEF KeepingSize
<1>3. CASE path' = <<>>
  BY <1>1, <1>2, <1>3, QuietSized
<1>4. CASE path' = path
  BY <1>1, <1>2, <1>4 DEF KeepingSize, Rooted, Resizing
<1>5. path' = <<>> \/ path' = path
  BY DEF Sweep, Collect, Mark, Return, walkVars
<1>. QED
  BY <1>3, <1>4, <1>5

\* A step that changes nothing.
LEMMA StutterSized ==
  ASSUME KeepingSize, UNCHANGED vars
  PROVE  KeepingSize'
BY DEF vars, treeVars, walkVars, KeepingSize, StoreSized, Branches, Rooted, Resizing
-----------------------------------------------------------------------------
(***************************************************************************)
(* The theorems.                                                           *)
(***************************************************************************)
LEMMA InitSized ==
  ASSUME Init
  PROVE  KeepingSize
BY DEF Init, KeepingSize, StoreSized, NodesIn, Rooted, Resizing

\* Every step keeps what is stored, and what is handed upwards, to its size.
LEMMA NextSized ==
  ASSUME Inductive, Inductive', KeepingOrder, KeepingSize, \A c, d \in Configs : c = d,
         [Next]_vars
  PROVE  KeepingSize'
<1>1. CASE Call
  <2>1. ASSUME NEW k \in Keys, Get(k) \/ Delete(k)
        PROVE  KeepingSize'
    BY <2>1, GetSized, DeleteSized
  <2>2. ASSUME NEW k \in Keys, NEW v \in Values, Insert(k, v)
        PROVE  KeepingSize'
    BY <2>2, InsertSized
  <2>3. ASSUME NEW h \in versions, Checkout(h) \/ CheckoutMissing(h)
        PROVE  KeepingSize'
    BY <2>3, ReturnSized
  <2>4. ASSUME NEW h \in versions, NEW c \in Configs, Load(h, c, {})
        PROVE  KeepingSize'
    BY <2>4, ReturnSized
  <2>5. ASSUME NEW keep, Collect(keep)
        PROVE  KeepingSize'
    BY <2>5, GcSized
  <2>. QED
    BY <1>1, <2>1, <2>2, <2>3, <2>4, <2>5 DEF Call
<1>2. CASE Step
  <2>1. CASE Descend \/ NodeMissing \/ GetAtLeaf
    BY <2>1, DescendSized, NodeNeverMissing, GetSized
  <2>2. CASE InsertAtLeaf \/ InsertAscend \/ InsertAtTop
    BY <2>2, InsertAtLeafSized, InsertAscendSized, InsertAtTopSized
  <2>3. CASE DeleteNotFound \/ DeleteAtLeaf \/ DeleteChildGone \/ DeleteAscend
    BY <2>3, ReturnSized, DeleteAtLeafSized, DeleteChildGoneSized, DeleteAscendSized
  <2>4. CASE DeleteRebalance \/ SiblingMissing \/ NoSibling \/ DeleteAtTop
    BY <2>4, DeleteRebalanceSized, SiblingNeverMissing, NeverWithoutSibling, DeleteAtTopSized
  <2>5. ASSUME NEW h \in queue, Mark(h)
        PROVE  KeepingSize'
    BY <2>5, GcSized
  <2>6. CASE Sweep
    BY <2>6, GcSized
  <2>. QED
    BY <1>2, <2>1, <2>2, <2>3, <2>4, <2>5, <2>6 DEF Step
<1>3. CASE UNCHANGED vars
  BY <1>3, StutterSized
<1>. QED
  BY <1>1, <1>2, <1>3 DEF Next

(***************************************************************************)
(* As long as a tree is only loaded with the configuration it was built    *)
(* with, every stored node keeps to its fanout, and so does what a call    *)
(* hands upwards; a call under way began at the root.                      *)
(***************************************************************************)
THEOREM SizeIsKept ==
  ASSUME \A c, d \in Configs : c = d
  PROVE  Spec => []KeepingSize
<1>1. Init => KeepingSize
  BY InitSized
<1>2. Inductive /\ Inductive' /\ KeepingOrder /\ KeepingSize /\ [Next]_vars => KeepingSize'
  BY NextSized
<1>. QED
  BY <1>1, <1>2, InductiveHolds, OrderIsKept, PTL DEF Spec

(***************************************************************************)
(* No node is larger than the target fanout, none below another smaller    *)
(* than the minimum, however many splits, borrows and merges there were.   *)
(***************************************************************************)
THEOREM StoreStaysSized ==
  ASSUME \A c, d \in Configs : c = d
  PROVE  Spec => []StoreSized
<1>1. KeepingSize => StoreSized
  BY DEF KeepingSize
<1>. QED
  BY <1>1, SizeIsKept, PTL

(***************************************************************************)
(* A delete never finds a child that is too small and alone, the one case  *)
(* its repair gives up on with an error.                                   *)
(***************************************************************************)
THEOREM SiblingAlwaysThere ==
  ASSUME \A c, d \in Configs : c = d
  PROVE  Spec => [][~NoSibling]_vars
<1>1. Inductive /\ KeepingOrder /\ KeepingSize => ~NoSibling
  BY NeverWithoutSibling
<1>. QED
  BY <1>1, InductiveHolds, OrderIsKept, SizeIsKept, PTL
=============================================================================
