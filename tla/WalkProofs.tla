------------------------------ MODULE WalkProofs ------------------------------
(***************************************************************************)
(* How a cursor gets about in one version of a tree, of any size and       *)
(* height: descents, moves to the neighbouring leaf, and where it stands   *)
(* then.  CursorProofs and ReadsProofs are about what this comes to.       *)
(***************************************************************************)
EXTENDS Cursor, NodeProofs

(***************************************************************************)
(* Well formed trees, one node and its child at a time.                    *)
(***************************************************************************)
Fit(S) == Sound(S) /\ Ordered(S)

\* The child is a node of the tree, and its keys are in its slot's range and the parent's.
LEMMA ChildFacts ==
  ASSUME NEW S, Fit(S), NEW n \in NodesIn(S), n.kind = "Internal", NEW i \in DOMAIN n.children
  PROVE  LET c == n.children[i].child_hash
         IN  /\ c \in NodesIn(S) /\ Level(c) + 1 = Level(n)
             /\ LowestKey(n.children[i]) = LowKey(c) /\ HighestKey(n.children[i]) = BoundaryKey(c)
             /\ LowKey(c) \in Int /\ BoundaryKey(c) \in Int /\ LowKey(c) <= BoundaryKey(c)
             /\ LowKey(n) \in Int /\ LowKey(n) <= LowKey(c)
             /\ BoundaryKey(n) \in Int /\ BoundaryKey(c) <= BoundaryKey(n)
             /\ i = 1 => LowKey(n) = LowKey(c)
             /\ i = Len(n.children) => BoundaryKey(n) = BoundaryKey(c)
<1>. DEFINE s == n.children
            c == s[i].child_hash
            E == EntriesBelow(S, n.level)
<1>1. n \in BalancedOver(S) /\ Sound(S) /\ Ordered(S)
  BY StoredNode DEF Fit, NodesIn
<1>2. s \in Seq(E) \ {<<>>} /\ Slots(n) = s /\ Level(n) = n.level /\ InOrder(s)
  <2>1. s \in Seq(E) \ {<<>>} /\ Slots(n) = s /\ Level(n) = n.level
    BY <1>1, NodeKinds DEF Slots, Level
  <2>. QED
    BY <2>1, <1>1 DEF Ordered
<1>3. s[i] \in E
  BY <1>2, ElementsOfSeq
<1>4. /\ s[i] \in InternalEntries(S) /\ Level(c) + 1 = n.level /\ s[i] = EntryFor(c)
      /\ c \in NodesIn(S)
  BY <1>3 DEF EntriesBelow, InternalEntries
<1>5. LowestKey(s[i]) = LowKey(c) /\ HighestKey(s[i]) = s[i].boundary_key
  BY <1>4, InternalSlot
<1>6. s[i].boundary_key = BoundaryKey(c)
  BY <1>4 DEF EntryFor
<1>7. Ranged(E)
  BY <1>1, SlotsRanged
<1>8. /\ 1 \in DOMAIN s /\ Len(s) \in DOMAIN s
      /\ LowestKey(s[i]) \in Int /\ HighestKey(s[i]) \in Int
      /\ LowestKey(s[1]) \in Int /\ LowestKey(s[1]) <= LowestKey(s[i])
      /\ LowestKey(s[i]) <= HighestKey(s[i])
      /\ HighestKey(s[i]) <= HighestKey(Last(s)) /\ HighestKey(s[Len(s)]) \in Int
  BY <1>2, <1>7, OrderEnds
<1>9. LowKey(n) = LowestKey(s[1])
  BY <1>1, <1>2, LowKeyOfNode
<1>10. BoundaryKey(n) = HighestKey(Last(s))
  <2>1. BoundaryKey(n) = Last(s).boundary_key
    BY DEF BoundaryKey
  <2>2. Last(s) \in InternalEntries(S)
    BY <1>2, LastOfSeq DEF EntriesBelow
  <2>. QED
    BY <2>1, <2>2, InternalSlot
<1>11. Last(s) = s[Len(s)]
  BY DEF Last
<1>. HIDE DEF s, c, E
<1>. QED
  BY <1>2, <1>4, <1>5, <1>6, <1>8, <1>9, <1>10, <1>11 DEF s, c

\* A key that belongs to a child is stored below that child or nowhere in the node.
LEMMA ChildHas ==
  ASSUME NEW S, Fit(S), NEW n \in NodesIn(S), n.kind = "Internal", NEW i \in DOMAIN n.children,
         NEW k \in Int, Meant(n.children, i, k)
  PROVE  {x \in StoredIn(n) : x.key = k} = {x \in StoredIn(n.children[i].child_hash) : x.key = k}
<1>. DEFINE s == n.children
            E == EntriesBelow(S, n.level)
<1>1. n \in BalancedOver(S) /\ Sound(S) /\ Ordered(S)
  BY StoredNode DEF Fit, NodesIn
<1>2. s \in Seq(E) /\ Slots(n) = s /\ InOrder(s)
  <2>1. s \in Seq(E) /\ Slots(n) = s
    BY <1>1, NodeKinds DEF Slots
  <2>. QED
    BY <2>1, <1>1 DEF Ordered
<1>3. Ranged(E) /\ AllKeep(S, E)
  BY <1>1, SlotsRanged, EntryKeeps DEF AllKeep
<1>4. {x \in StoredBy(s) : x.key = k} = {x \in StoredAt(s[i]) : x.key = k}
  BY <1>2, <1>3, MeantHas
<1>5. StoredIn(n) = StoredBy(s)
  BY <1>1, <1>2, StoredInSlots
<1>6. StoredAt(s[i]) = StoredIn(s[i].child_hash)
  <2>1. s[i] \in E
    BY <1>2, ElementsOfSeq
  <2>. QED
    BY <2>1, SlotKinds DEF StoredAt
<1>. QED
  BY <1>4, <1>5, <1>6

\* The keys below a node lie between its lowest key and its boundary.
LEMMA NodeRange ==
  ASSUME NEW S, Fit(S), NEW n \in NodesIn(S)
  PROVE  /\ LowKey(n) \in Int /\ BoundaryKey(n) \in Int
         /\ \A x \in StoredIn(n) :
              x.key \in Keys /\ x.key \in Int /\ LowKey(n) <= x.key /\ x.key <= BoundaryKey(n)
<1>. DEFINE s == Slots(n)
            E == SlotsOver(n, S)
<1>1. n \in BalancedOver(S) /\ Sound(S) /\ Ordered(S)
  BY StoredNode DEF Fit, NodesIn
<1>2. s \in Seq(E) \ {<<>>} /\ InOrder(s) /\ Ranged(E)
  BY <1>1, NodeKinds, SlotsRanged DEF Ordered
<1>3. \A e \in E : Keeps(S, e)
  BY <1>1, LeafKeeps, EntryKeeps DEF SlotsOver
<1>4. StoredIn(n) = StoredBy(s)
  BY <1>1, StoredInSlots
<1>5. LowKey(n) = LowestKey(s[1])
  BY <1>1, LowKeyOfNode
<1>6. BoundaryKey(n) = HighestKey(Last(s))
  <2>1. HighestKey(EntryFor(n)) = HighestKey(Last(s))
    BY <1>1, EntryRange
  <2>2. HighestKey(EntryFor(n)) = BoundaryKey(n)
    BY DEF HighestKey, EntryFor
  <2>. QED
    BY <2>1, <2>2
<1>7. /\ StoredBy(s) \subseteq LeafEntries(S)
      /\ \A x \in StoredBy(s) : LowestKey(s[1]) <= x.key /\ x.key <= HighestKey(Last(s))
  BY <1>2, <1>3, SequenceKeeps
<1>8. LowestKey(s[1]) \in Int /\ HighestKey(Last(s)) \in Int
  <2>1. 1 \in DOMAIN s /\ Last(s) \in E
    BY <1>2, LastOfSeq, ElementsOfSeq
  <2>2. s[1] \in E
    BY <2>1, <1>2, ElementsOfSeq
  <2>. QED
    BY <1>2, <2>1, <2>2 DEF Ranged
<1>9. \A x \in LeafEntries(S) : x.key \in Keys /\ x.key \in Int
  BY KeysAssumption DEF LeafEntries
<1>. QED
  BY <1>4, <1>5, <1>6, <1>7, <1>8, <1>9

(***************************************************************************)
(* The parts of one tree: the nodes under a root, each with exactly the    *)
(* entries of the tree whose keys are in its range.                        *)
(***************************************************************************)
Part(r, S) ==
  {n \in NodesIn(S) \cap NodesUnder(r) :
     StoredIn(n) = {x \in StoredIn(r) : LowKey(n) <= x.key /\ x.key <= BoundaryKey(n)}}

\* The root is a part of its tree.
LEMMA RootIsPart ==
  ASSUME NEW S, Fit(S), NEW r \in NodesIn(S)
  PROVE  r \in Part(r, S)
<1>1. Level(r) \in Nat
  BY StoredNode, NodeKinds DEF NodesIn, Fit
<1>2. r \in NodesUnder(r)
  <2>1. r \in Descendants(r)[0]
    BY BelowStep
  <2>2. 0 \in 0..Level(r)
    BY <1>1
  <2>. QED
    BY <2>1, <2>2 DEF NodesUnder
<1>3. \A x \in StoredIn(r) : LowKey(r) <= x.key /\ x.key <= BoundaryKey(r)
  BY NodeRange
<1>. QED
  BY <1>2, <1>3 DEF Part

\* The nodes under a root are the root's and those of its nodes' children.
LEMMA ChildUnder ==
  ASSUME NEW S, Fit(S), NEW r \in NodesIn(S), NEW n \in NodesIn(S), n \in NodesUnder(r),
         n.kind = "Internal", NEW i \in DOMAIN n.children
  PROVE  n.children[i].child_hash \in NodesUnder(r)
<1>. DEFINE c == n.children[i].child_hash
<1>1. PICK l \in 0..Level(r) : n \in Descendants(r)[l]
  BY DEF NodesUnder
<1>2. Level(n) + l = Level(r)
  BY <1>1, DescendantsStored DEF Fit
<1>3. c \in NodesIn(S) /\ Level(c) + 1 = Level(n)
  BY ChildFacts
<1>4. Level(r) \in Nat /\ Level(n) \in Nat /\ Level(c) \in Nat
  BY <1>3, StoredNode, NodeKinds DEF NodesIn, Fit
<1>5. l \in Nat /\ l + 1 \in 0..Level(r)
  BY <1>2, <1>3, <1>4
<1>6. n.children[i] \in ToSet(n.children)
  BY DEF ToSet
<1>7. c \in ChildrenOf(Descendants(r)[l])
  BY <1>1, <1>6 DEF ChildrenOf
<1>8. Descendants(r)[l + 1] = ChildrenOf(Descendants(r)[l])
  BY <1>5, BelowStep
<1>. QED
  BY <1>5, <1>7, <1>8 DEF NodesUnder

\* Whose key is in a child's range is below that child, if it is below the node.
LEMMA ChildCovers ==
  ASSUME NEW S, Fit(S), NEW n \in NodesIn(S), n.kind = "Internal", NEW i \in DOMAIN n.children
  PROVE  LET c == n.children[i].child_hash
         IN  StoredIn(c) = {x \in StoredIn(n) : LowKey(c) <= x.key /\ x.key <= BoundaryKey(c)}
<1>. DEFINE s == n.children
            c == s[i].child_hash
<1>1. /\ c \in NodesIn(S) /\ LowestKey(s[i]) = LowKey(c) /\ HighestKey(s[i]) = BoundaryKey(c)
      /\ LowKey(c) \in Int /\ BoundaryKey(c) \in Int
  BY ChildFacts
<1>2. /\ \A x \in StoredIn(n) : x.key \in Int
      /\ \A x \in StoredIn(c) : x.key \in Int /\ LowKey(c) <= x.key /\ x.key <= BoundaryKey(c)
  BY <1>1, NodeRange
<1>3. /\ InOrder(s) /\ DOMAIN s = 1..Len(s) /\ Len(s) \in Nat
      /\ \A j \in DOMAIN s : HighestKey(s[j]) \in Int
  <2>1. n \in BalancedOver(S) /\ Sound(S) /\ Ordered(S)
    BY StoredNode DEF Fit, NodesIn
  <2>2. s \in Seq(EntriesBelow(S, n.level)) /\ Slots(n) = s
    BY <2>1, NodeKinds DEF Slots
  <2>3. InOrder(s)
    BY <2>1, <2>2 DEF Ordered
  <2>4. \A j \in DOMAIN s : s[j] \in EntriesBelow(S, n.level)
    BY <2>2, ElementsOfSeq
  <2>5. Ranged(EntriesBelow(S, n.level))
    BY <2>1, SlotsRanged
  <2>. QED
    BY <2>2, <2>3, <2>4, <2>5, ElementsOfSeq DEF Ranged
<1>4. ASSUME NEW k \in Int, LowKey(c) <= k, k <= BoundaryKey(c)
      PROVE  {x \in StoredIn(n) : x.key = k} = {x \in StoredIn(c) : x.key = k}
  <2>1. \A j \in 1..(i - 1) : HighestKey(s[j]) < k
    <3>. SUFFICES ASSUME NEW j \in 1..(i - 1)
                  PROVE  HighestKey(s[j]) < k
      OBVIOUS
    <3>1. j \in DOMAIN s /\ j < i
      BY <1>3
    <3>2. HighestKey(s[j]) < LowestKey(s[i])
      BY <1>3, <3>1 DEF InOrder
    <3>. QED
      BY <1>1, <1>3, <1>4, <3>1, <3>2
  <2>2. Meant(s, i, k)
    BY <1>1, <1>4, <2>1 DEF Meant
  <2>. QED
    BY <2>2, ChildHas
<1>. HIDE DEF s, c
<1>5. ASSUME NEW x \in StoredIn(c)
      PROVE  x \in StoredIn(n) /\ LowKey(c) <= x.key /\ x.key <= BoundaryKey(c)
  BY <1>2, <1>4
<1>6. ASSUME NEW x \in StoredIn(n), LowKey(c) <= x.key, x.key <= BoundaryKey(c)
      PROVE  x \in StoredIn(c)
  BY <1>2, <1>4, <1>6
<1>7. StoredIn(c) = {x \in StoredIn(n) : LowKey(c) <= x.key /\ x.key <= BoundaryKey(c)}
  BY <1>5, <1>6
<1>. QED
  BY <1>7 DEF c, s

\* So every child of a part is one.
LEMMA ChildIsPart ==
  ASSUME NEW S, Fit(S), NEW r \in NodesIn(S), NEW n \in Part(r, S),
         n.kind = "Internal", NEW i \in DOMAIN n.children
  PROVE  n.children[i].child_hash \in Part(r, S)
<1>. DEFINE c == n.children[i].child_hash
            In(m, x) == LowKey(m) <= x.key /\ x.key <= BoundaryKey(m)
<1>1. n \in NodesIn(S) /\ n \in NodesUnder(r) /\ StoredIn(n) = {x \in StoredIn(r) : In(n, x)}
  BY DEF Part
<1>2. /\ c \in NodesIn(S)
      /\ LowKey(c) \in Int /\ BoundaryKey(c) \in Int /\ LowKey(n) \in Int /\ BoundaryKey(n) \in Int
      /\ LowKey(n) <= LowKey(c) /\ BoundaryKey(c) <= BoundaryKey(n)
  BY <1>1, ChildFacts
<1>3. c \in NodesUnder(r)
  BY <1>1, ChildUnder
<1>4. StoredIn(c) = {x \in StoredIn(n) : In(c, x)}
  BY <1>1, ChildCovers
<1>5. \A x \in StoredIn(r) : x.key \in Int
  BY NodeRange
<1>6. \A x \in StoredIn(r) : In(c, x) => In(n, x)
  <2>. HIDE DEF c
  <2>. QED
    BY <1>2, <1>5
<1>. HIDE DEF c, In
<1>7. StoredIn(c) = {x \in StoredIn(r) : In(c, x)}
  BY <1>1, <1>4, <1>6
<1>8. c \in Part(r, S)
  BY <1>2, <1>3, <1>7 DEF Part, In
<1>. QED
  BY <1>8 DEF c
-----------------------------------------------------------------------------
(***************************************************************************)
(* Going down.                                                             *)
(***************************************************************************)
\* Of the keys from k on, those up to the end of node n are below it, and none
\* is between its end and k: a cursor that is to go on at k does so in n.
Near(n, r, k) ==
  \A x \in StoredIn(r) : /\ k <= x.key /\ x.key <= BoundaryKey(n) => x \in StoredIn(n)
                         /\ ~(BoundaryKey(n) < x.key /\ x.key < k)

\* A descent to where k is, or would be; to the first key, if k is none above it;
\* to the last one, k.
Seeks(goal, n, k, r) ==
  \/ goal = Toward(k) /\ (k <= BoundaryKey(n) \/ BoundaryKey(n) = BoundaryKey(r))
  \/ goal = Leftmost /\ k <= LowKey(n)
  \/ goal = Rightmost /\ k = BoundaryKey(n)

Frames(r, S) == [node : Part(r, S), idx : Nat]

Linked(f, g) ==
  /\ f.node.kind = "Internal"
  /\ g.idx \in DOMAIN f.node.children
  /\ g.node = f.node.children[g.idx].child_hash

\* A cursor that is to go on in a node does so in the child the key belongs to.
LEMMA NearChild ==
  ASSUME NEW S, Fit(S), NEW r \in NodesIn(S), NEW n \in NodesIn(S), n.kind = "Internal",
         NEW i \in DOMAIN n.children, NEW k \in Int, Meant(n.children, i, k), Near(n, r, k)
  PROVE  Near(n.children[i].child_hash, r, k)
<1>. DEFINE s == n.children
            c == s[i].child_hash
<1>1. /\ HighestKey(s[i]) = BoundaryKey(c) /\ BoundaryKey(c) \in Int
      /\ BoundaryKey(n) \in Int /\ BoundaryKey(c) <= BoundaryKey(n)
      /\ i = Len(s) => BoundaryKey(n) = BoundaryKey(c)
  BY ChildFacts
<1>2. /\ DOMAIN s = 1..Len(s) /\ Len(s) \in Nat
      /\ \A j \in DOMAIN s : HighestKey(s[j]) \in Int
  <2>1. n \in BalancedOver(S) /\ Sound(S)
    BY StoredNode DEF Fit, NodesIn
  <2>2. s \in Seq(EntriesBelow(S, n.level))
    BY <2>1, NodeKinds
  <2>3. \A j \in DOMAIN s : s[j] \in EntriesBelow(S, n.level)
    BY <2>2, ElementsOfSeq
  <2>4. Ranged(EntriesBelow(S, n.level))
    BY <2>1, SlotsRanged
  <2>. QED
    BY <2>2, <2>3, <2>4, ElementsOfSeq DEF Ranged
<1>. SUFFICES ASSUME NEW x \in StoredIn(r)
              PROVE  /\ k <= x.key /\ x.key <= BoundaryKey(c) => x \in StoredIn(c)
                     /\ ~(BoundaryKey(c) < x.key /\ x.key < k)
  BY DEF Near
<1>3. x.key \in Int
  BY NodeRange
<1>4. ASSUME k <= x.key, x.key <= BoundaryKey(c)
      PROVE  x \in StoredIn(c)
  <2>1. x \in StoredIn(n)
    BY <1>1, <1>3, <1>4 DEF Near
  <2>2. \A j \in 1..(i - 1) : HighestKey(s[j]) < x.key
    <3>. SUFFICES ASSUME NEW j \in 1..(i - 1)
                  PROVE  HighestKey(s[j]) < x.key
      OBVIOUS
    <3>1. j \in DOMAIN s /\ HighestKey(s[j]) < k
      BY <1>2 DEF Meant
    <3>. QED
      BY <1>2, <1>3, <1>4, <3>1
  <2>3. Meant(s, i, x.key)
    BY <1>1, <1>4, <2>2 DEF Meant
  <2>4. {y \in StoredIn(n) : y.key = x.key} = {y \in StoredIn(c) : y.key = x.key}
    BY <1>3, <2>3, ChildHas
  <2>. QED
    BY <2>1, <2>4
<1>5. ASSUME BoundaryKey(c) < x.key, x.key < k
      PROVE  FALSE
  <2>1. ~(i < Len(s))
    BY <1>1, <1>3, <1>5 DEF Meant
  <2>2. i = Len(s)
    BY <1>2, <2>1
  <2>. QED
    BY <1>1, <1>5, <2>2 DEF Near
<1>. QED
  BY <1>4, <1>5

\* One level of a descent.
LEMMA OneDown ==
  ASSUME NEW S, Fit(S), NEW r \in NodesIn(S), NEW f \in Frames(r, S), f.node.kind = "Internal",
         NEW k \in Int, NEW goal, Seeks(goal, f.node, k, r), Near(f.node, r, k)
  PROVE  LET g == Under(f, goal)
         IN  /\ g \in Frames(r, S) /\ Linked(f, g) /\ Level(g.node) + 1 = Level(f.node)
             /\ Seeks(goal, g.node, k, r) /\ Near(g.node, r, k)
<1>. DEFINE n == f.node
            s == n.children
            i == Pick(s, goal)
            g == Under(f, goal)
<1>1. n \in Part(r, S) /\ n \in NodesIn(S)
  BY DEF Frames, Part
<1>2. s \in Seq(InternalEntries(S)) \ {<<>>}
  <2>1. s \in Seq(EntriesBelow(S, n.level)) \ {<<>>}
    BY <1>1, StoredNode, NodeKinds DEF Fit, NodesIn
  <2>. QED
    BY <2>1, SeqWithin, ElementsOfSeq DEF EntriesBelow
<1>3. 1 \in DOMAIN s /\ DOMAIN s \subseteq Nat
  BY <1>2, ElementsOfSeq
<1>4. i \in DOMAIN s /\ Meant(s, i, k)
  <2>1. CASE goal = Toward(k)
    <3>1. i = ChildIndex(s, k)
      BY <2>1 DEF Toward, Pick
    <3>. QED
      BY <1>2, <3>1, ChildIndexRange, ChildIndexMeant
  <2>2. CASE goal = Leftmost /\ k <= LowKey(n)
    <3>1. i = 1
      BY <2>2 DEF Leftmost, Pick
    <3>. DEFINE c == s[1].child_hash
    <3>2. /\ HighestKey(s[1]) = BoundaryKey(c) /\ LowKey(n) = LowKey(c)
          /\ LowKey(c) \in Int /\ BoundaryKey(c) \in Int /\ LowKey(c) <= BoundaryKey(c)
      BY <1>1, <1>3, ChildFacts
    <3>3. k <= HighestKey(s[1])
      BY <2>2, <3>2
    <3>. QED
      BY <1>3, <3>1, <3>3 DEF Meant
  <2>3. CASE goal = Rightmost /\ k = BoundaryKey(n)
    <3>1. i = Len(s)
      BY <2>3 DEF Rightmost, Pick
    <3>2. DOMAIN s = 1..Len(s) /\ Len(s) \in Nat \ {0} /\ InOrder(s)
          /\ \A j \in DOMAIN s : LowestKey(s[j]) \in Int /\ HighestKey(s[j]) \in Int
      <4>1. n \in BalancedOver(S) /\ Sound(S) /\ Ordered(S)
        BY <1>1, StoredNode DEF Fit, NodesIn
      <4>2. s \in Seq(EntriesBelow(S, n.level)) \ {<<>>} /\ Slots(n) = s
        BY <4>1, NodeKinds DEF Slots
      <4>3. InOrder(s)
        BY <1>1, <4>1, <4>2 DEF Ordered
      <4>4. \A j \in DOMAIN s : s[j] \in EntriesBelow(S, n.level)
        BY <4>2, ElementsOfSeq
      <4>5. Ranged(EntriesBelow(S, n.level))
        BY <4>1, SlotsRanged
      <4>. QED
        BY <4>2, <4>3, <4>4, <4>5, ElementsOfSeq DEF Ranged
    <3>3. i \in DOMAIN s
      BY <3>1, <3>2
    <3>4. HighestKey(s[i]) = k /\ LowestKey(s[i]) <= k
      <4>1. /\ HighestKey(s[i]) = BoundaryKey(s[i].child_hash)
            /\ LowestKey(s[i]) <= BoundaryKey(s[i].child_hash)
        BY <1>1, <3>3, ChildFacts
      <4>2. BoundaryKey(n) = BoundaryKey(s[i].child_hash)
        BY <1>1, <3>1, <3>3, ChildFacts
      <4>. QED
        BY <2>3, <4>1, <4>2
    <3>. HIDE DEF s, i
    <3>5. \A j \in 1..(i - 1) : j \in DOMAIN s /\ j < i
      BY <3>2, <3>3
    <3>6. \A j \in 1..(i - 1) : HighestKey(s[j]) < LowestKey(s[i])
      BY <3>3, <3>5, <3>2 DEF InOrder
    <3>7. \A j \in 1..(i - 1) : HighestKey(s[j]) < k
      BY <3>2, <3>3, <3>4, <3>5, <3>6
    <3>. QED
      BY <3>2, <3>3, <3>4, <3>7 DEF Meant
  <2>. QED
    BY <2>1, <2>2, <2>3 DEF Seeks
<1>5. g = [node |-> s[i].child_hash, idx |-> i]
  BY DEF Under, Frame
<1>6. s[i].child_hash \in Part(r, S)
  BY <1>1, <1>4, ChildIsPart
<1>7. g \in Frames(r, S) /\ Linked(f, g)
  BY <1>3, <1>4, <1>5, <1>6 DEF Frames, Linked
<1>8. Level(g.node) + 1 = Level(n)
  BY <1>1, <1>4, <1>5, ChildFacts
<1>9. Near(g.node, r, k)
  BY <1>1, <1>4, <1>5, NearChild
<1>10. Seeks(goal, g.node, k, r)
  <2>1. CASE goal = Toward(k) /\ (k <= BoundaryKey(n) \/ BoundaryKey(n) = BoundaryKey(r))
    <3>1. HighestKey(s[i]) = BoundaryKey(g.node) /\ (i = Len(s) => BoundaryKey(n) = BoundaryKey(g.node))
      BY <1>1, <1>4, <1>5, ChildFacts
    <3>2. i = Len(s) \/ k <= HighestKey(s[i])
      BY <1>4 DEF Meant
    <3>3. k <= BoundaryKey(g.node) \/ BoundaryKey(g.node) = BoundaryKey(r)
      BY <2>1, <3>1, <3>2
    <3>. QED
      BY <2>1, <3>3 DEF Seeks
  <2>2. CASE goal = Leftmost /\ k <= LowKey(n)
    <3>1. i = 1
      BY <2>2 DEF Leftmost, Pick
    <3>2. LowKey(n) = LowKey(g.node)
      BY <1>1, <1>3, <1>5, <3>1, ChildFacts
    <3>. QED
      BY <2>2, <3>2 DEF Seeks
  <2>3. CASE goal = Rightmost /\ k = BoundaryKey(n)
    <3>1. i = Len(s)
      BY <2>3 DEF Rightmost, Pick
    <3>2. BoundaryKey(n) = BoundaryKey(g.node)
      BY <1>1, <1>4, <1>5, <3>1, ChildFacts
    <3>. QED
      BY <2>3, <3>2 DEF Seeks
  <2>. QED
    BY <2>1, <2>2, <2>3 DEF Seeks
<1>. QED
  BY <1>7, <1>8, <1>9, <1>10

\* The frames of a descent exist: there is a function that goes on as the goal says.
LEMMA WayExists ==
  ASSUME NEW frame, NEW goal
  PROVE  Way(frame, goal) = [l \in Nat |-> IF l = 0 THEN frame ELSE Under(Way(frame, goal)[l - 1], goal)]
<1>. DEFINE Begins(g, m) ==
              g = [l \in 0..m |-> IF l = 0 THEN frame ELSE Under(g[l - 1], goal)]
            Edge(g) ==
              g = [l \in Nat |-> IF l = 0 THEN frame ELSE Under(g[l - 1], goal)]
<1>1. ASSUME NEW g, NEW m \in Nat, Begins(g, m), NEW l \in 0..m
      PROVE  g[l] = IF l = 0 THEN frame ELSE Under(g[l - 1], goal)
  BY <1>1
<1>. HIDE DEF Begins
<1>2. \A m \in Nat : \E g : Begins(g, m)
  <2>. DEFINE T == {m \in Nat : ~\E g : Begins(g, m)}
  <2>. SUFFICES ASSUME T # {}
                PROVE  FALSE
    OBVIOUS
  <2>1. PICK m \in T : \A u \in T : m =< u
    <3>. HIDE DEF T
    <3>1. T \subseteq Nat
      BY DEF T
    <3>. QED
      BY <3>1, LeastNatural
  <2>2. m # 0
    <3>. DEFINE g == [l \in 0..0 |-> frame]
    <3>1. Begins(g, 0)
      BY DEF Begins
    <3>. QED
      BY <3>1
  <2>3. m - 1 \in Nat /\ m - 1 \notin T
    BY <2>1, <2>2
  <2>4. PICK g : Begins(g, m - 1)
    BY <2>3
  <2>. DEFINE h == [l \in 0..m |-> IF l = m THEN Under(g[m - 1], goal) ELSE g[l]]
  <2>5. Begins(h, m)
    <3>1. ASSUME NEW l \in 0..m
          PROVE  h[l] = IF l = 0 THEN frame ELSE Under(h[l - 1], goal)
      <4>1. CASE l = m
        <5>1. h[m] = Under(g[m - 1], goal)
          BY <2>1
        <5>2. h[m - 1] = g[m - 1]
          BY <2>3
        <5>. HIDE DEF h
        <5>. QED
          BY <2>2, <4>1, <5>1, <5>2
      <4>2. CASE l # m
        <5>1. l \in 0..(m - 1)
          BY <2>1, <4>2
        <5>2. h[l] = g[l]
          BY <4>2
        <5>3. l # 0 => h[l - 1] = g[l - 1]
          BY <2>3, <5>1
        <5>4. g[l] = IF l = 0 THEN frame ELSE Under(g[l - 1], goal)
          BY <1>1, <2>3, <2>4, <5>1
        <5>. HIDE DEF h
        <5>. QED
          BY <5>2, <5>3, <5>4
      <4>. QED
        BY <4>1, <4>2
    <3>2. h = [l \in 0..m |-> h[l]]
      OBVIOUS
    <3>. HIDE DEF h
    <3>. QED
      BY <3>1, <3>2 DEF Begins
  <2>. QED
    BY <2>1, <2>5
<1>3. ASSUME NEW m \in Nat, NEW k \in Nat, NEW g, NEW h, Begins(g, m), Begins(h, k)
      PROVE  \A l \in Nat : l <= m /\ l <= k => g[l] = h[l]
  <2>. DEFINE T == {l \in Nat : l <= m /\ l <= k /\ g[l] # h[l]}
  <2>. SUFFICES ASSUME T # {}
                PROVE  FALSE
    OBVIOUS
  <2>1. PICK l \in T : \A u \in T : l =< u
    <3>. HIDE DEF T
    <3>1. T \subseteq Nat
      BY DEF T
    <3>. QED
      BY <3>1, LeastNatural
  <2>2. l \in 0..m /\ l \in 0..k
    BY <2>1
  <2>3. /\ g[l] = IF l = 0 THEN frame ELSE Under(g[l - 1], goal)
        /\ h[l] = IF l = 0 THEN frame ELSE Under(h[l - 1], goal)
    BY <1>1, <1>3, <2>2
  <2>4. l # 0 => g[l - 1] = h[l - 1]
    BY <2>1
  <2>5. g[l] # h[l]
    BY <2>1
  <2>. HIDE DEF T
  <2>. QED
    BY <2>3, <2>4, <2>5
<1>. DEFINE part(l) == CHOOSE g : Begins(g, l)
            f == [l \in Nat |-> part(l)[l]]
<1>4. \A l \in Nat : Begins(part(l), l)
  BY <1>2
<1>. HIDE DEF part
<1>5. Edge(f)
  <2>1. ASSUME NEW l \in Nat
        PROVE  f[l] = IF l = 0 THEN frame ELSE Under(f[l - 1], goal)
    <3>1. l \in 0..l /\ part(l)[l] = IF l = 0 THEN frame ELSE Under(part(l)[l - 1], goal)
      BY <1>1, <1>4
    <3>2. CASE l = 0
      BY <3>1, <3>2
    <3>3. CASE l # 0
      <4>1. l - 1 \in Nat /\ l - 1 <= l /\ l - 1 <= l - 1
        BY <3>3
      <4>2. part(l)[l - 1] = part(l - 1)[l - 1]
        BY <1>3, <1>4, <4>1
      <4>3. f[l] = part(l)[l] /\ f[l - 1] = part(l - 1)[l - 1]
        BY <4>1
      <4>. HIDE DEF f
      <4>. QED
        BY <3>1, <3>3, <4>2, <4>3
    <3>. QED
      BY <3>2, <3>3
  <2>2. f = [l \in Nat |-> f[l]]
    OBVIOUS
  <2>. HIDE DEF f
  <2>. QED
    BY <2>1, <2>2
<1>. HIDE DEF f
<1>6. Way(frame, goal) = CHOOSE g : Edge(g)
  BY Zenon DEF Way
<1>7. Edge(CHOOSE g : Edge(g))
  BY <1>5, Zenon
<1>. QED
  BY <1>6, <1>7, Zenon

\* A descent begins at the frame and goes on as the goal says.
LEMMA WayStep ==
  ASSUME NEW frame, NEW goal
  PROVE  /\ Way(frame, goal)[0] = frame
         /\ \A l \in Nat : Way(frame, goal)[l + 1] = Under(Way(frame, goal)[l], goal)
<1>1. Way(frame, goal)[0] = frame
  BY WayExists
<1>2. ASSUME NEW l \in Nat
      PROVE  Way(frame, goal)[l + 1] = Under(Way(frame, goal)[l], goal)
  <2>1. l + 1 \in Nat /\ l + 1 # 0 /\ (l + 1) - 1 = l
    OBVIOUS
  <2>. QED
    BY <2>1, WayExists
<1>. QED
  BY <1>1, <1>2

\* Every level of a descent, to the leaf, is a part of the tree, below the one
\* before it, and has what is sought.
Reached(f, g, l, goal, k, r, S) ==
  /\ g \in Frames(r, S) /\ Level(g.node) + l = Level(f.node)
  /\ Seeks(goal, g.node, k, r) /\ Near(g.node, r, k)

LEMMA WayGoes ==
  ASSUME NEW S, Fit(S), NEW r \in NodesIn(S), NEW f \in Frames(r, S),
         NEW k \in Int, NEW goal, Seeks(goal, f.node, k, r), Near(f.node, r, k)
  PROVE  LET way == Way(f, goal)
         IN  \A l \in 0..Level(f.node) :
               /\ Reached(f, way[l], l, goal, k, r, S)
               /\ l > 0 => Linked(way[l - 1], way[l])
<1>. DEFINE way == Way(f, goal)
            Good(l) == /\ Reached(f, way[l], l, goal, k, r, S)
                       /\ l > 0 => Linked(way[l - 1], way[l])
            T == {l \in Nat : l <= Level(f.node) /\ ~Good(l)}
<1>0. Level(f.node) \in Nat
  BY StoredNode, NodeKinds DEF NodesIn, Fit, Frames, Part
<1>. SUFFICES ASSUME T # {}
              PROVE  FALSE
  BY <1>0
<1>1. PICK l \in T : \A u \in T : l =< u
  <2>. HIDE DEF T
  <2>1. T \subseteq Nat
    BY DEF T
  <2>. QED
    BY <2>1, LeastNatural
<1>2. l # 0
  <2>1. way[0] = f
    BY WayStep
  <2>2. Good(0)
    BY <1>0, <2>1 DEF Reached
  <2>. HIDE DEF Good
  <2>. QED
    BY <1>1, <2>2
<1>3. l \in Nat /\ l - 1 \in Nat /\ l - 1 \notin T /\ (l - 1) + 1 = l /\ l <= Level(f.node)
  BY <1>1, <1>2
<1>4. Good(l - 1)
  <2>. HIDE DEF Good
  <2>. QED
    BY <1>0, <1>3
<1>. DEFINE g == way[l - 1]
<1>5. Reached(f, g, l - 1, goal, k, r, S)
  BY <1>4
<1>6. way[l] = Under(g, goal)
  <2>1. way[(l - 1) + 1] = Under(way[l - 1], goal)
    BY <1>3, WayStep
  <2>. QED
    BY <1>3, <2>1
<1>. HIDE DEF way, g
<1>7. g \in Frames(r, S) /\ Level(g.node) + (l - 1) = Level(f.node)
  BY <1>5 DEF Reached
<1>8. g.node \in BalancedOver(S) /\ Level(g.node) \in Nat
  BY <1>7, StoredNode, NodeKinds DEF NodesIn, Fit, Frames, Part
<1>9. g.node.kind = "Internal"
  <2>1. Level(g.node) # 0
    BY <1>0, <1>3, <1>7, <1>8
  <2>. QED
    BY <1>8, <2>1, NodeKinds DEF Level, IsNode
<1>10. LET h == way[l]
       IN  /\ h \in Frames(r, S) /\ Linked(g, h) /\ Level(h.node) + 1 = Level(g.node)
           /\ Seeks(goal, h.node, k, r) /\ Near(h.node, r, k)
  BY <1>5, <1>6, <1>9, OneDown DEF Reached
<1>11. Level(way[l].node) \in Nat
  BY <1>10, StoredNode, NodeKinds DEF NodesIn, Fit, Frames, Part
<1>12. Level(way[l].node) + l = Level(f.node)
  BY <1>0, <1>3, <1>7, <1>8, <1>10, <1>11
<1>13. Reached(f, way[l], l, goal, k, r, S)
  BY <1>10, <1>12 DEF Reached
<1>14. Good(l)
  BY <1>10, <1>13 DEF g
<1>. QED
  BY <1>1, <1>14

(***************************************************************************)
(* The stack of a cursor: frames from the root down, each below the last.  *)
(***************************************************************************)
Stacked(p, r, S) ==
  /\ p \in Seq(Frames(r, S))
  /\ p # <<>> => p[1].node = r
  /\ \A j \in 2..Len(p) : Linked(p[j - 1], p[j])

\* The upper part of a stack is one.
LEMMA StackCut ==
  ASSUME NEW r, NEW S, NEW p, Stacked(p, r, S), NEW m \in 1..Len(p)
  PROVE  LET q == SubSeq(p, 1, m)
         IN  Stacked(q, r, S) /\ q # <<>> /\ Last(q) = p[m]
<1>. DEFINE q == SubSeq(p, 1, m)
<1>1. p \in Seq(Frames(r, S)) /\ Len(p) \in Nat
  BY ElementsOfSeq DEF Stacked
<1>2. q \in Seq(Frames(r, S)) /\ Len(q) = m /\ \A j \in 1..m : q[j] = p[j]
  BY <1>1
<1>3. q # <<>> /\ p # <<>>
  BY <1>1, <1>2, ElementsOfSeq
<1>4. \A j \in 2..m : j - 1 \in 1..m /\ j \in 1..m /\ j \in 2..Len(p)
  BY <1>1
<1>. HIDE DEF q
<1>5. Stacked(q, r, S)
  BY <1>2, <1>3, <1>4 DEF Stacked
<1>6. Last(q) = p[m]
  BY <1>2 DEF Last
<1>. QED
  BY <1>3, <1>5, <1>6 DEF q

\* The first m frames of a descent, and that each is below the last.
Pushed(w, m) == [l \in 1..m |-> w[l - 1]]

Chained(w, m, r, S) ==
  \A l \in 0..(m - 1) : w[l] \in Frames(r, S) /\ (l > 0 => Linked(w[l - 1], w[l]))

\* A stack goes on with a chain of frames.
LEMMA StackChain ==
  ASSUME NEW r, NEW S, NEW p, Stacked(p, r, S), NEW m \in Nat, NEW w, Chained(w, m, r, S),
         p = <<>> => w[0].node = r, p # <<>> => Linked(Last(p), w[0])
  PROVE  LET q == p \o Pushed(w, m)
         IN  /\ Stacked(q, r, S)
             /\ m = 0 => q = p
             /\ m > 0 => q # <<>> /\ Last(q) = w[m - 1]
<1>. DEFINE F == Frames(r, S)
            t == Pushed(w, m)
            q == p \o t
            n == Len(p)
<1>1. p \in Seq(F) /\ n \in Nat /\ (p # <<>> <=> n > 0)
  BY ElementsOfSeq DEF Stacked
<1>2. \A l \in 1..m : l - 1 \in 0..(m - 1)
  OBVIOUS
<1>3. t \in Seq(F) /\ Len(t) = m
  <2>1. \A l \in 1..m : w[l - 1] \in F
    BY <1>2 DEF Chained
  <2>. HIDE DEF F
  <2>. QED
    BY <2>1 DEF Pushed
<1>. HIDE DEF F, t
<1>4. /\ q \in Seq(F) /\ Len(q) = n + m
      /\ \A j \in 1..n : q[j] = p[j]
      /\ \A j \in 1..m : q[n + j] = t[j]
  BY <1>1, <1>3
<1>5. \A j \in 1..m : q[n + j] = w[j - 1]
  BY <1>4 DEF t, Pushed
<1>6. q # <<>> => q[1].node = r
  <2>1. CASE n > 0
    <3>1. q[1] = p[1] /\ p # <<>>
      BY <1>1, <1>4, <2>1
    <3>. QED
      BY <3>1 DEF Stacked
  <2>2. CASE n = 0 /\ m > 0
    <3>1. 1 \in 1..m /\ n + 1 = 1 /\ p = <<>>
      BY <1>1, <2>2
    <3>2. q[n + 1] = w[1 - 1]
      BY <1>5, <3>1
    <3>. QED
      BY <3>1, <3>2
  <2>3. CASE n = 0 /\ m = 0
    <3>1. q = <<>>
      BY <1>4, <2>3, ElementsOfSeq
    <3>. QED
      BY <3>1
  <2>. QED
    BY <1>1, <2>1, <2>2, <2>3
<1>7. ASSUME NEW j \in 2..Len(q)
      PROVE  Linked(q[j - 1], q[j])
  <2>1. j \in 2..(n + m)
    BY <1>4
  <2>2. CASE j <= n
    <3>1. j - 1 \in 1..n /\ j \in 1..n /\ j \in 2..Len(p)
      BY <1>1, <2>1, <2>2
    <3>2. q[j] = p[j] /\ q[j - 1] = p[j - 1]
      BY <1>4, <3>1
    <3>. QED
      BY <3>1, <3>2 DEF Stacked
  <2>3. CASE j = n + 1
    <3>1. n \in 1..n /\ 1 \in 1..m /\ j - 1 = n /\ p # <<>>
      BY <1>1, <2>1, <2>3
    <3>2. q[n] = p[n] /\ q[n + 1] = w[1 - 1]
      BY <1>4, <1>5, <3>1
    <3>3. Linked(p[n], w[0])
      BY <3>1 DEF Last
    <3>. QED
      BY <2>3, <3>1, <3>2, <3>3
  <2>4. CASE j > n + 1
    <3>. DEFINE i == j - n
    <3>1. i \in 1..m /\ i - 1 \in 1..m /\ j = n + i /\ j - 1 = n + (i - 1) /\ i - 1 > 0
      BY <1>1, <2>1, <2>4
    <3>. HIDE DEF i
    <3>2. q[j] = w[i - 1] /\ q[j - 1] = w[(i - 1) - 1]
      BY <1>5, <3>1
    <3>3. i - 1 \in 0..(m - 1)
      BY <3>1
    <3>. QED
      BY <3>1, <3>2, <3>3 DEF Chained
  <2>. QED
    BY <1>1, <2>1, <2>2, <2>3, <2>4
<1>8. Stacked(q, r, S)
  BY <1>4, <1>6, <1>7 DEF Stacked, F
<1>9. m = 0 => q = p
  <2>1. m = 0 => t = <<>>
    BY <1>3, ElementsOfSeq
  <2>. QED
    BY <1>1, <2>1
<1>10. ASSUME m > 0
       PROVE  q # <<>> /\ Last(q) = w[m - 1]
  <2>1. m \in 1..m /\ Len(q) > 0
    BY <1>1, <1>4, <1>10
  <2>2. q[n + m] = w[m - 1]
    BY <1>5, <2>1
  <2>. HIDE DEF q
  <2>. QED
    BY <1>4, <2>1, <2>2, ElementsOfSeq DEF Last
<1>. QED
  BY <1>8, <1>9, <1>10 DEF t

(***************************************************************************)
(* Where a descent ends: in the leaf that is sought, or above the first    *)
(* node of the tree that is not there.                                     *)
(***************************************************************************)
Landed(d, goal, k, r, S, T) ==
  /\ Stacked(d.path, r, S)
  /\ d.out \in {"leaf", "ChunkNotFound"}
  /\ d.out = "leaf" =>
       /\ d.path # <<>> /\ Last(d.path).node.kind = "Leaf"
       /\ Seeks(goal, Last(d.path).node, k, r) /\ Near(Last(d.path).node, r, k)
  /\ d.out = "ChunkNotFound" =>
       /\ d.path # <<>> => Last(d.path).node.kind = "Internal"
       /\ ~(NodesUnder(r) \subseteq T)

LEMMA DescentLands ==
  ASSUME NEW S, Fit(S), NEW r \in NodesIn(S), NEW p, Stacked(p, r, S), NEW f \in Frames(r, S),
         p = <<>> => f.node = r, p # <<>> => Linked(Last(p), f),
         NEW k \in Int, NEW goal, Seeks(goal, f.node, k, r), Near(f.node, r, k), NEW T
  PROVE  LET d == Descent(p, f, goal, T)
         IN  Landed(d, goal, k, r, S, T) /\ (p # <<>> => d.path # <<>>)
<1>. DEFINE w == Way(f, goal)
            L == Level(f.node)
            ends == {l \in 0..L : w[l].node \in T => w[l].node.kind = "Leaf"}
            b == Min(ends)
            found == w[b].node \in T
            m == IF found THEN b + 1 ELSE b
            d == Descent(p, f, goal, T)
<1>1. L \in Nat
  BY StoredNode, NodeKinds DEF NodesIn, Fit, Frames, Part
<1>2. \A l \in 0..L : /\ Reached(f, w[l], l, goal, k, r, S)
                      /\ l > 0 => Linked(w[l - 1], w[l])
  BY WayGoes
<1>3. w[0] = f
  BY WayStep
<1>4. d = [path |-> p \o Pushed(w, m),
           out |-> IF found THEN "leaf" ELSE "ChunkNotFound"]
  BY DEF Descent, Pushed
<1>. HIDE DEF w, L, d
<1>5. \A l \in 0..L : w[l] \in Frames(r, S) /\ w[l].node \in BalancedOver(S)
  BY <1>2, StoredNode DEF Reached, NodesIn, Fit, Frames, Part
<1>6. L \in ends
  <2>1. Level(w[L].node) = 0
    <3>1. L \in 0..L
      BY <1>1
    <3>2. Level(w[L].node) + L = L /\ Level(w[L].node) \in Nat
      BY <1>2, <1>5, <3>1, NodeKinds DEF Reached, L
    <3>. QED
      BY <1>1, <3>2
  <2>2. w[L].node.kind = "Leaf"
    BY <1>1, <1>5, <2>1, NodeKinds DEF Level, IsNode
  <2>. QED
    BY <1>1, <2>2
<1>7. b \in ends /\ \A l \in ends : b =< l
  <2>1. ends \in SUBSET Nat /\ ends # {}
    BY <1>1, <1>6
  <2>. HIDE DEF ends
  <2>. QED
    BY <2>1, LeastNatural
<1>8. b \in 0..L /\ (found => w[b].node.kind = "Leaf")
  BY <1>7
<1>9. \A l \in 0..L : l < b => w[l].node.kind = "Internal"
  <2>. SUFFICES ASSUME NEW l \in 0..L, l < b
                PROVE  w[l].node.kind = "Internal"
    OBVIOUS
  <2>1. l \notin ends
    BY <1>7, <1>8
  <2>. QED
    BY <1>5, <2>1, NodeKinds DEF IsNode
<1>. HIDE DEF ends, b, found
<1>10. m \in Nat /\ \A l \in 0..(m - 1) : l \in 0..L
  BY <1>1, <1>8
<1>11. /\ Stacked(d.path, r, S)
       /\ m = 0 => d.path = p
       /\ m > 0 => d.path # <<>> /\ Last(d.path) = w[m - 1]
  <2>1. Chained(w, m, r, S)
    BY <1>2, <1>5, <1>10 DEF Chained
  <2>2. d.path = p \o Pushed(w, m)
    BY <1>4
  <2>3. p = <<>> => w[0].node = r
    BY <1>3
  <2>4. p # <<>> => Linked(Last(p), w[0])
    BY <1>3
  <2>. HIDE DEF m
  <2>5. LET q == p \o Pushed(w, m)
        IN  /\ Stacked(q, r, S)
            /\ m = 0 => q = p
            /\ m > 0 => q # <<>> /\ Last(q) = w[m - 1]
    BY <1>10, <2>1, <2>3, <2>4, StackChain
  <2>. QED
    BY <2>2, <2>5
<1>12. ASSUME found
       PROVE  Landed(d, goal, k, r, S, T)
  <2>1. d.out = "leaf" /\ m > 0 /\ m - 1 = b
    BY <1>4, <1>8, <1>12
  <2>2. d.path # <<>> /\ Last(d.path) = w[b]
    BY <1>11, <2>1
  <2>3. Seeks(goal, w[b].node, k, r) /\ Near(w[b].node, r, k)
    BY <1>2, <1>8 DEF Reached
  <2>. QED
    BY <1>8, <1>11, <1>12, <2>1, <2>2, <2>3 DEF Landed
<1>13. ASSUME ~found
       PROVE  Landed(d, goal, k, r, S, T)
  <2>1. d.out = "ChunkNotFound" /\ m = b
    BY <1>4, <1>13
  <2>2. d.path # <<>> => Last(d.path).node.kind = "Internal"
    <3>1. CASE b = 0
      BY <1>11, <2>1, <3>1 DEF Linked
    <3>2. CASE b > 0
      <4>1. b - 1 \in 0..L /\ b - 1 < b
        BY <1>1, <1>8, <3>2
      <4>. QED
        BY <1>9, <1>11, <2>1, <3>2, <4>1
    <3>. QED
      BY <1>8, <3>1, <3>2
  <2>3. w[b].node \in NodesUnder(r) /\ w[b].node \notin T
    <3>1. w[b] \in Frames(r, S)
      BY <1>5, <1>8
    <3>. QED
      BY <1>13, <3>1 DEF Frames, Part, found
  <2>. QED
    BY <1>11, <2>1, <2>2, <2>3 DEF Landed
<1>14. p # <<>> => d.path # <<>>
  BY <1>10, <1>11
<1>. QED
  BY <1>12, <1>13, <1>14 DEF d
-----------------------------------------------------------------------------
(***************************************************************************)
(* Where a cursor stands.                                                  *)
(***************************************************************************)
\* The map of a tree, by what it stores.
LEMMA MapIs ==
  ASSUME NEW S, Fit(S), NEW r \in NodesIn(S), r # None
  PROVE  /\ DOMAIN MapOf(r) = {e.key : e \in StoredIn(r)}
         /\ \A e \in StoredIn(r) : MapOf(r)[e.key] = ValueOf(e.value)
<1>. DEFINE s == StoredIn(r)
            The(k) == CHOOSE e \in s : e.key = k
<1>1. MapOf(r) = [k \in {e.key : e \in s} |-> ValueOf(The(k).value)]
  BY DEF MapOf
<1>2. \A x, y \in s : x.key = y.key => x = y
  BY NodeKeeps DEF OneEach, Fit
<1>. HIDE DEF s
<1>3. ASSUME NEW e \in s
      PROVE  The(e.key) = e
  <2>1. The(e.key) \in s /\ The(e.key).key = e.key
    BY <1>3
  <2>. HIDE DEF The
  <2>. QED
    BY <1>2, <2>1
<1>. HIDE DEF The
<1>. QED
  BY <1>1, <1>3 DEF s

\* A leaf of the tree: its entries, in order, are what it stores.
LEMMA LeafIs ==
  ASSUME NEW S, Fit(S), NEW r \in NodesIn(S), NEW n \in Part(r, S), n.kind = "Leaf"
  PROVE  LET s == n.entries
         IN  /\ s \in Seq(LeafEntries(S)) \ {<<>>} /\ InOrder(s)
             /\ DOMAIN s = 1..Len(s) /\ Len(s) \in Nat \ {0}
             /\ \A i \in DOMAIN s : s[i].key \in Int /\ s[i] \in StoredIn(n)
             /\ \A x \in StoredIn(n) : \E i \in DOMAIN s : x = s[i]
             /\ \A i, j \in DOMAIN s : i < j => s[i].key < s[j].key
             /\ LowKey(n) = s[1].key
<1>. DEFINE s == n.entries
<1>1. n \in BalancedOver(S) /\ n \in NodesIn(S) /\ Sound(S) /\ Ordered(S)
  BY StoredNode DEF Fit, NodesIn, Part
<1>2. s \in Seq(LeafEntries(S)) \ {<<>>} /\ Slots(n) = s
  BY <1>1, NodeKinds DEF Slots
<1>3. InOrder(s)
  BY <1>1, <1>2 DEF Ordered
<1>4. DOMAIN s = 1..Len(s) /\ Len(s) \in Nat \ {0} /\ \A i \in DOMAIN s : s[i] \in LeafEntries(S)
  BY <1>2, ElementsOfSeq
<1>5. StoredIn(n) = ToSet(s)
  <2>1. StoredIn(n) = StoredAll(ToSet(s))
    BY <1>1, <1>2, StoredInSlots, StoredBySet
  <2>2. ToSet(s) \in SUBSET LeafEntries(S)
    BY <1>2, ToSetIs
  <2>. QED
    BY <2>1, <2>2, StoredByLeaf
<1>6. \A i \in DOMAIN s : LowestKey(s[i]) = s[i].key /\ HighestKey(s[i]) = s[i].key
  BY <1>4, LeafSlot
<1>7. \A i, j \in DOMAIN s : i < j => s[i].key < s[j].key
  BY <1>3, <1>6 DEF InOrder
<1>8. LowKey(n) = s[1].key
  BY <1>1, <1>2, <1>4, <1>6, LowKeyOfNode
<1>9. \A i \in DOMAIN s : s[i].key \in Int /\ s[i] \in StoredIn(n)
  <2>1. \A i \in DOMAIN s : s[i] \in StoredIn(n)
    BY <1>5 DEF ToSet
  <2>. QED
    BY <1>1, <2>1, NodeRange
<1>10. \A x \in StoredIn(n) : \E i \in DOMAIN s : x = s[i]
  BY <1>2, <1>4, <1>5, ToSetIs
<1>. QED
  BY <1>2, <1>3, <1>4, <1>7, <1>8, <1>9, <1>10

\* at is the place in leaf n of a cursor that is to go on at k.
Placed(at, n, k) ==
  /\ at \in 1..(Len(n.entries) + 1)
  /\ \A i \in DOMAIN n.entries : n.entries[i].key < k <=> i < at

Stands(at, n, k, r) == n.kind = "Leaf" /\ Near(n, r, k) /\ Placed(at, n, k)

\* A cursor that is to go on before a leaf begins stands before its first entry.
LEMMA StandsFirst ==
  ASSUME NEW S, Fit(S), NEW r \in NodesIn(S), NEW n \in Part(r, S), n.kind = "Leaf",
         NEW k \in Int, Near(n, r, k), k <= LowKey(n)
  PROVE  Stands(1, n, k, r) /\ 1 \in DOMAIN n.entries
<1>. DEFINE s == n.entries
<1>1. /\ DOMAIN s = 1..Len(s) /\ Len(s) \in Nat \ {0}
      /\ \A i \in DOMAIN s : s[i].key \in Int
      /\ \A i, j \in DOMAIN s : i < j => s[i].key < s[j].key
      /\ LowKey(n) = s[1].key
  BY LeafIs
<1>. HIDE DEF s
<1>2. ASSUME NEW i \in DOMAIN s
      PROVE  ~(s[i].key < k) /\ ~(i < 1)
  <2>1. i = 1 \/ 1 < i
    BY <1>1
  <2>2. s[1].key <= s[i].key /\ s[1].key \in Int /\ s[i].key \in Int
    BY <1>1, <2>1
  <2>. QED
    BY <1>1, <2>2
<1>3. 1 \in 1..(Len(s) + 1) /\ 1 \in DOMAIN s
  BY <1>1
<1>4. \A i \in DOMAIN s : s[i].key < k <=> i < 1
  BY <1>2
<1>. QED
  BY <1>3, <1>4 DEF Stands, Placed, s

\* After it gave an entry it stands behind it, and no key was passed over.
LEMMA StandsNext ==
  ASSUME NEW S, Fit(S), NEW r \in NodesIn(S), NEW n \in Part(r, S),
         NEW k \in Int, NEW at, Stands(at, n, k, r), at \in DOMAIN n.entries
  PROVE  LET e == n.entries[at]
         IN  /\ e \in StoredIn(r) /\ e.key \in Int /\ k <= e.key
             /\ Stands(at + 1, n, e.key + 1, r)
             /\ \A x \in StoredIn(r) : (k <= x.key /\ x.key # e.key) <=> e.key + 1 <= x.key
<1>. DEFINE s == n.entries
            e == s[at]
            b == BoundaryKey(n)
<1>1. /\ DOMAIN s = 1..Len(s) /\ Len(s) \in Nat \ {0}
      /\ \A i \in DOMAIN s : s[i].key \in Int /\ s[i] \in StoredIn(n)
      /\ \A x \in StoredIn(n) : \E i \in DOMAIN s : x = s[i]
      /\ \A i, j \in DOMAIN s : i < j => s[i].key < s[j].key
  BY LeafIs DEF Stands
<1>2. StoredIn(n) \subseteq StoredIn(r) /\ n \in NodesIn(S)
  BY DEF Part
<1>3. b \in Int /\ \A x \in StoredIn(n) : x.key <= b
  BY <1>2, NodeRange
<1>4. \A x \in StoredIn(r) : x.key \in Int
  BY NodeRange
<1>5. \A x \in StoredIn(r) : /\ k <= x.key /\ x.key <= b => x \in StoredIn(n)
                             /\ ~(b < x.key /\ x.key < k)
  BY DEF Stands, Near
<1>6. at \in 1..Len(s) /\ \A i \in DOMAIN s : s[i].key < k <=> i < at
  BY <1>1 DEF Stands, Placed
<1>. HIDE DEF s, b
<1>7. e \in StoredIn(n) /\ e \in StoredIn(r) /\ e.key \in Int /\ e.key <= b /\ k <= e.key
  BY <1>1, <1>2, <1>3, <1>6
<1>8. \A i \in DOMAIN s : s[i].key < e.key + 1 <=> i < at + 1
  <2>. SUFFICES ASSUME NEW i \in DOMAIN s
                PROVE  s[i].key < e.key + 1 <=> i < at + 1
    OBVIOUS
  <2>1. i \in Int /\ at \in Int /\ s[i].key \in Int
    BY <1>1, <1>6
  <2>2. (i < at => s[i].key < e.key) /\ (at < i => e.key < s[i].key)
    BY <1>1, <1>6
  <2>3. i = at => s[i].key = e.key
    OBVIOUS
  <2>. HIDE DEF e
  <2>. QED
    BY <1>7, <2>1, <2>2, <2>3
<1>9. ASSUME NEW x \in StoredIn(r), k <= x.key, x.key < e.key
      PROVE  FALSE
  <2>1. x.key <= b
    BY <1>3, <1>4, <1>7, <1>9
  <2>2. PICK i \in DOMAIN s : x = s[i]
    BY <1>1, <1>5, <1>9, <2>1
  <2>3. ~(i < at)
    BY <1>4, <1>6, <1>9, <2>2
  <2>4. i = at \/ at < i
    BY <1>1, <1>6, <2>3
  <2>5. e.key <= s[i].key
    BY <1>1, <1>6, <1>7, <2>4
  <2>. QED
    BY <1>4, <1>7, <1>9, <2>2, <2>5
<1>10. \A x \in StoredIn(r) : (k <= x.key /\ x.key # e.key) <=> e.key + 1 <= x.key
  <2>. HIDE DEF e
  <2>. QED
    BY <1>4, <1>7, <1>9
<1>11. \A x \in StoredIn(r) : /\ e.key + 1 <= x.key /\ x.key <= b => x \in StoredIn(n)
                              /\ ~(b < x.key /\ x.key < e.key + 1)
  <2>. HIDE DEF e
  <2>. QED
    BY <1>3, <1>4, <1>5, <1>7
<1>12. at + 1 \in 1..(Len(s) + 1)
  BY <1>1, <1>6
<1>13. Stands(at + 1, n, e.key + 1, r)
  BY <1>8, <1>11, <1>12 DEF Stands, Near, Placed, s, b
<1>. QED
  BY <1>7, <1>10, <1>13 DEF s

\* A node on the way down is as far to the right as the last one, if from there
\* on every frame is the last child of the one before it.
LEMMA SameEnd ==
  ASSUME NEW S, Fit(S), NEW r \in NodesIn(S), NEW p, Stacked(p, r, S), NEW top \in 1..Len(p),
         \A j \in (top + 1)..Len(p) : p[j].idx + 1 \notin DOMAIN p[j - 1].node.children
  PROVE  BoundaryKey(p[top].node) = BoundaryKey(Last(p).node)
<1>. DEFINE n == Len(p)
            End(j) == BoundaryKey(p[j].node)
            T == {l \in Nat : l <= n - top /\ End(n - l) # End(n)}
<1>1. p \in Seq(Frames(r, S)) /\ n \in Nat
  BY ElementsOfSeq DEF Stacked
<1>2. \A j \in 1..n : p[j].node \in NodesIn(S)
  <2>1. \A j \in 1..n : p[j] \in Frames(r, S)
    BY <1>1, ElementsOfSeq
  <2>2. \A f \in Frames(r, S) : f.node \in NodesIn(S)
    BY DEF Frames, Part
  <2>. QED
    BY <2>1, <2>2
<1>3. T = {}
  <2>. SUFFICES ASSUME T # {}
                PROVE  FALSE
    OBVIOUS
  <2>1. PICK l \in T : \A u \in T : l =< u
    <3>. HIDE DEF T
    <3>1. T \subseteq Nat
      BY DEF T
    <3>. QED
      BY <3>1, LeastNatural
  <2>2. l # 0
    <3>. SUFFICES ASSUME l = 0
                  PROVE  FALSE
      OBVIOUS
    <3>1. n - l = n
      BY <1>1
    <3>2. End(n - l) # End(n)
      BY <2>1
    <3>. HIDE DEF End, T, n
    <3>. QED
      BY <3>1, <3>2
  <2>3. l \in Nat /\ l - 1 \in Nat /\ l - 1 \notin T /\ l - 1 <= n - top
    <3>1. l \in Nat /\ l <= n - top
      BY <2>1
    <3>2. \A u \in T : l =< u
      BY <2>1
    <3>. HIDE DEF T
    <3>. QED
      BY <1>1, <2>2, <3>1, <3>2
  <2>4. End(n - (l - 1)) = End(n)
    <3>. HIDE DEF End
    <3>. QED
      BY <2>3
  <2>. DEFINE j == n - (l - 1)
              s == p[j - 1].node.children
  <2>5. /\ j \in (top + 1)..n /\ j \in 2..n /\ j - 1 \in 1..n /\ j - 1 = n - l
    BY <1>1, <2>1, <2>2
  <2>. HIDE DEF j
  <2>6. /\ p[j - 1].node.kind = "Internal" /\ p[j].idx \in DOMAIN s
        /\ p[j].node = s[p[j].idx].child_hash
    BY <2>5 DEF Stacked, Linked
  <2>7. p[j].idx = Len(s)
    <3>1. p[j].idx + 1 \notin DOMAIN s
      BY <2>5
    <3>2. s \in Seq(EntriesBelow(S, p[j - 1].node.level))
      BY <1>2, <2>5, <2>6, StoredNode, NodeKinds DEF Fit, NodesIn
    <3>3. DOMAIN s = 1..Len(s) /\ Len(s) \in Nat
      BY <3>2, ElementsOfSeq
    <3>. DEFINE i == p[j].idx
    <3>4. i \in DOMAIN s /\ i + 1 \notin DOMAIN s
      BY <2>6, <3>1
    <3>. HIDE DEF s, i
    <3>5. i = Len(s)
      BY <3>3, <3>4, SMT
    <3>. QED
      BY <3>5 DEF i
  <2>8. End(j - 1) = End(j)
    BY <1>2, <2>5, <2>6, <2>7, ChildFacts
  <2>9. End(n - l) # End(n)
    BY <2>1
  <2>10. End(j) = End(n)
    BY <2>4 DEF j
  <2>. HIDE DEF End
  <2>. QED
    BY <2>5, <2>8, <2>9, <2>10
<1>4. n - top \in Nat /\ n - top <= n - top /\ n - (n - top) = top
  BY <1>1
<1>5. End(top) = End(n)
  <2>1. n - top \notin T
    BY <1>3
  <2>2. End(n - (n - top)) = End(n)
    <3>. HIDE DEF End
    <3>. QED
      BY <1>4, <2>1
  <2>. QED
    BY <1>4, <2>2
<1>. QED
  BY <1>5 DEF Last

\* A bounded set of numbers has a greatest one.
LEMMA GreatestNatural ==
  ASSUME NEW n \in Nat, NEW T \in SUBSET (0..n), T # {}
  PROVE  Max(T) \in T /\ \A u \in T : u <= Max(T)
<1>. DEFINE U == {n - t : t \in T}
<1>1. U \in SUBSET Nat /\ U # {}
  <2>1. \A t \in T : n - t \in Nat
    OBVIOUS
  <2>2. \E t \in T : n - t \in U
    OBVIOUS
  <2>. QED
    BY <2>1, <2>2
<1>2. PICK m \in U : \A u \in U : m =< u
  <2>. HIDE DEF U
  <2>. QED
    BY <1>1, LeastNatural
<1>3. PICK g \in T : m = n - g
  BY <1>2
<1>4. \A u \in T : g >= u
  <2>. SUFFICES ASSUME NEW u \in T
                PROVE  g >= u
    OBVIOUS
  <2>1. m <= n - u
    BY <1>2
  <2>. QED
    BY <1>3, <2>1
<1>5. Max(T) \in T /\ \A u \in T : Max(T) >= u
  BY <1>3, <1>4 DEF Max
<1>. QED
  BY <1>5

\* A cursor that is through with a child goes on in the next one.
LEMMA NextSibling ==
  ASSUME NEW S, Fit(S), NEW r \in NodesIn(S), NEW n \in Part(r, S), n.kind = "Internal",
         NEW i \in DOMAIN n.children, NEW h \in DOMAIN n.children, h = i + 1
  PROVE  LET b == BoundaryKey(n.children[i].child_hash)
             c == n.children[h].child_hash
         IN  b \in Int /\ b + 1 <= LowKey(c) /\ Near(c, r, b + 1)
<1>. DEFINE s == n.children
            a == s[i].child_hash
            b == BoundaryKey(a)
            c == s[h].child_hash
<1>1. n \in NodesIn(S) /\ \A x \in StoredIn(r) : x.key \in Int
  BY NodeRange DEF Part
<1>2. /\ HighestKey(s[i]) = b /\ b \in Int /\ LowKey(n) \in Int /\ LowKey(n) <= b
      /\ BoundaryKey(n) \in Int /\ b <= BoundaryKey(n)
  BY <1>1, ChildFacts
<1>3. /\ LowestKey(s[h]) = LowKey(c) /\ LowKey(c) \in Int
      /\ HighestKey(s[h]) = BoundaryKey(c) /\ BoundaryKey(c) \in Int /\ LowKey(c) <= BoundaryKey(c)
  BY <1>1, ChildFacts
<1>4. /\ InOrder(s) /\ DOMAIN s = 1..Len(s) /\ Len(s) \in Nat
      /\ \A j \in DOMAIN s : LowestKey(s[j]) \in Int /\ HighestKey(s[j]) \in Int
  <2>1. n \in BalancedOver(S) /\ Sound(S) /\ Ordered(S)
    BY <1>1, StoredNode DEF Fit, NodesIn
  <2>2. s \in Seq(EntriesBelow(S, n.level)) /\ Slots(n) = s
    BY <2>1, NodeKinds DEF Slots
  <2>3. InOrder(s)
    BY <1>1, <2>1, <2>2 DEF Ordered
  <2>4. \A j \in DOMAIN s : s[j] \in EntriesBelow(S, n.level)
    BY <2>2, ElementsOfSeq
  <2>5. Ranged(EntriesBelow(S, n.level))
    BY <2>1, SlotsRanged
  <2>. QED
    BY <2>2, <2>3, <2>4, <2>5, ElementsOfSeq DEF Ranged
<1>. HIDE DEF s, a, b, c
<1>5. b + 1 <= LowKey(c)
  <2>1. HighestKey(s[i]) < LowestKey(s[h])
    BY <1>4 DEF InOrder, s
  <2>. QED
    BY <1>2, <1>3, <2>1
<1>6. \A j \in 1..(h - 1) : HighestKey(s[j]) < b + 1
  <2>. SUFFICES ASSUME NEW j \in 1..(h - 1)
                PROVE  HighestKey(s[j]) < b + 1
    OBVIOUS
  <2>1. i \in DOMAIN s /\ h \in DOMAIN s
    BY DEF s
  <2>2. j \in DOMAIN s /\ (j = i \/ j < i)
    BY <1>4, <2>1
  <2>3. j < i => HighestKey(s[j]) < LowestKey(s[i]) /\ LowestKey(s[i]) <= HighestKey(s[i])
    BY <1>4, <2>1, <2>2 DEF InOrder
  <2>4. HighestKey(s[j]) \in Int /\ LowestKey(s[i]) \in Int
    BY <1>4, <2>1, <2>2
  <2>. QED
    BY <1>2, <2>2, <2>3, <2>4
<1>7. Meant(s, h, b + 1)
  <2>1. b + 1 <= HighestKey(s[h])
    BY <1>2, <1>3, <1>5
  <2>. QED
    BY <1>6, <2>1 DEF Meant
<1>8. Near(n, r, b + 1)
  <2>1. \A x \in StoredIn(r) :
          LowKey(n) <= x.key /\ x.key <= BoundaryKey(n) => x \in StoredIn(n)
    BY DEF Part
  <2>2. \A x \in StoredIn(r) :
          /\ b + 1 <= x.key /\ x.key <= BoundaryKey(n) => x \in StoredIn(n)
          /\ ~(BoundaryKey(n) < x.key /\ x.key < b + 1)
    BY <1>1, <1>2, <2>1
  <2>. QED
    BY <2>2 DEF Near
<1>9. Near(c, r, b + 1)
  <2>1. b + 1 \in Int
    BY <1>2
  <2>. QED
    BY <1>1, <1>7, <1>8, <2>1, NearChild DEF c, s
<1>. QED
  BY <1>2, <1>5, <1>9 DEF a, b, c, s

\* Opening a tree leads to where a key is, or would be.
LEMMA OpenLands ==
  ASSUME NEW S, Fit(S), NEW r \in NodesIn(S), r # None, NEW k \in Int, NEW goal, Seeks(goal, r, k, r),
         NEW T
  PROVE  Landed(Open(r, goal, T), goal, k, r, S, T)
<1>. DEFINE f == [node |-> r, idx |-> 0]
<1>1. f \in Frames(r, S)
  BY RootIsPart DEF Frames
<1>2. Stacked(<<>>, r, S)
  BY DEF Stacked
<1>3. Near(r, r, k)
  <2>1. \A x \in StoredIn(r) : x.key \in Int /\ x.key <= BoundaryKey(r) /\ BoundaryKey(r) \in Int
    BY NodeRange
  <2>. QED
    BY <2>1 DEF Near
<1>4. Open(r, goal, T) = Descent(<<>>, f, goal, T)
  BY DEF Open
<1>5. f.node = r
  OBVIOUS
<1>. HIDE DEF f
<1>6. Landed(Descent(<<>>, f, goal, T), goal, k, r, S, T)
  BY <1>1, <1>2, <1>3, <1>5, DescentLands
<1>. QED
  BY <1>4, <1>6

\* At the end of a leaf a cursor goes on at the leaf that follows it, or the
\* tree has no more entries.
LEMMA AdvanceLands ==
  ASSUME NEW S, Fit(S), NEW r \in NodesIn(S), NEW p, Stacked(p, r, S), p # <<>>, NEW k \in Int,
         Stands(Len(Last(p).node.entries) + 1, Last(p).node, k, r), NEW T
  PROVE  LET d == Advance(p, 1, T)
         IN  \/ /\ d.out = "end" /\ d.path = <<>>
                /\ \A x \in StoredIn(r) : ~(k <= x.key)
             \/ /\ d.path # <<>>
                /\ \E j \in Int : /\ Landed(d, Leftmost, j, r, S, T)
                                  /\ \A x \in StoredIn(r) : k <= x.key <=> j <= x.key
<1>. DEFINE n == Last(p).node
            b == BoundaryKey(n)
            d == Advance(p, 1, T)
            turns == {j \in 2..Len(p) : p[j].idx + 1 \in DOMAIN p[j - 1].node.children}
            top == Max(turns)
<1>1. /\ p \in Seq(Frames(r, S)) /\ Len(p) \in Nat \ {0}
      /\ \A j \in 1..Len(p) : p[j] \in Frames(r, S)
      /\ Last(p) \in Frames(r, S)
  BY ElementsOfSeq, LastOfSeq DEF Stacked
<1>2. n \in Part(r, S) /\ n \in NodesIn(S) /\ n.kind = "Leaf"
  BY <1>1 DEF Frames, Part, Stands
<1>3. b \in Int /\ \A x \in StoredIn(r) : x.key \in Int
  BY <1>2, NodeRange
<1>4. \A x \in StoredIn(r) : k <= x.key <=> b + 1 <= x.key
  <2>. SUFFICES ASSUME NEW x \in StoredIn(r)
                PROVE  k <= x.key <=> b + 1 <= x.key
    OBVIOUS
  <2>1. ASSUME k <= x.key, x.key <= b
        PROVE  FALSE
    <3>1. x \in StoredIn(n)
      BY <2>1 DEF Stands, Near
    <3>2. PICK i \in DOMAIN n.entries : x = n.entries[i]
      BY <1>2, <3>1, LeafIs
    <3>3. DOMAIN n.entries = 1..Len(n.entries) /\ Len(n.entries) \in Nat
      BY <1>2, LeafIs
    <3>4. i < Len(n.entries) + 1
      BY <3>3
    <3>5. x.key < k
      BY <3>2, <3>4 DEF Stands, Placed
    <3>. QED
      BY <1>3, <2>1, <3>5
  <2>2. ~(b < x.key /\ x.key < k)
    BY DEF Stands, Near
  <2>. HIDE DEF b
  <2>. QED
    BY <1>3, <2>1, <2>2
<1>5. CASE turns = {}
  <2>1. 1 \in 1..Len(p) /\ \A j \in (1 + 1)..Len(p) : p[j].idx + 1 \notin DOMAIN p[j - 1].node.children
    BY <1>1, <1>5
  <2>2. BoundaryKey(p[1].node) = b
    BY <2>1, SameEnd
  <2>3. p[1].node = r
    BY DEF Stacked
  <2>4. \A x \in StoredIn(r) : x.key <= b
    BY <2>2, <2>3, NodeRange
  <2>5. d = [path |-> <<>>, out |-> "end"]
    BY <1>5 DEF Advance
  <2>6. d.out = "end" /\ d.path = <<>>
    BY <2>5
  <2>. HIDE DEF b, d
  <2>7. \A x \in StoredIn(r) : ~(k <= x.key)
    BY <1>3, <1>4, <2>4
  <2>. QED
    BY <2>6, <2>7 DEF d
<1>6. CASE turns # {}
  <2>. DEFINE m == p[top - 1].node
              s == m.children
              i == p[top].idx
              f == Frame(s, i + 1)
              q == SubSeq(p, 1, top - 1)
  <2>1. top \in turns /\ \A u \in turns : u <= top
    <3>1. turns \in SUBSET (0..Len(p))
      BY <1>1
    <3>. HIDE DEF turns
    <3>. QED
      BY <1>1, <1>6, <3>1, GreatestNatural
  <2>2. top \in 2..Len(p) /\ i + 1 \in DOMAIN s
    BY <2>1
  <2>3. \A j \in (top + 1)..Len(p) : p[j].idx + 1 \notin DOMAIN p[j - 1].node.children
    <3>. SUFFICES ASSUME NEW j \in (top + 1)..Len(p)
                  PROVE  j \notin turns
      BY <2>2
    <3>1. ~(j <= top)
      BY <2>2
    <3>. HIDE DEF turns
    <3>. QED
      BY <2>1, <3>1
  <2>4. d = Descent(q, f, Leftmost, T)
    BY <1>6 DEF Advance
  <2>. HIDE DEF turns, top
  <2>5. top \in 1..Len(p) /\ top - 1 \in 1..Len(p) /\ top \in Nat
    BY <1>1, <2>2
  <2>6. BoundaryKey(p[top].node) = b
    BY <2>3, <2>5, SameEnd
  <2>7. m.kind = "Internal" /\ i \in DOMAIN s /\ p[top].node = s[i].child_hash
    BY <2>2 DEF Stacked, Linked
  <2>8. m \in Part(r, S)
    BY <1>1, <2>5 DEF Frames
  <2>9. f.node = s[i + 1].child_hash /\ f.idx = i + 1
    BY DEF Frame
  <2>10. b + 1 <= LowKey(f.node) /\ Near(f.node, r, b + 1)
    BY <2>2, <2>6, <2>7, <2>8, <2>9, NextSibling
  <2>11. f \in Frames(r, S)
    <3>1. i \in Nat
      BY <1>1, <2>5 DEF Frames
    <3>2. f.node \in Part(r, S)
      BY <2>2, <2>7, <2>8, <2>9, ChildIsPart
    <3>. QED
      BY <3>1, <3>2 DEF Frames, Frame
  <2>12. Stacked(q, r, S) /\ q # <<>> /\ Last(q) = p[top - 1]
    BY <2>5, StackCut
  <2>13. Linked(Last(q), f)
    BY <2>2, <2>7, <2>9, <2>12 DEF Linked
  <2>14. Seeks(Leftmost, f.node, b + 1, r)
    BY <2>10 DEF Seeks
  <2>15. b + 1 \in Int
    BY <1>3
  <2>. HIDE DEF b, d, f, q, n
  <2>16. Landed(d, Leftmost, b + 1, r, S, T) /\ d.path # <<>>
    BY <2>4, <2>10, <2>11, <2>12, <2>13, <2>14, <2>15, DescentLands
  <2>. QED
    BY <1>4, <2>15, <2>16 DEF d
<1>. QED
  BY <1>5, <1>6

\* The nodes of a tree are among its chunks, and the values of its entries.
LEMMA ChunksOf ==
  ASSUME NEW r, r # None
  PROVE  /\ NodesUnder(r) \subseteq ChunksUnder(r)
         /\ \A e \in StoredIn(r) : ReprChunks(e.value) \subseteq ChunksUnder(r)
  BY DEF ChunksUnder

\* The node a stack leads to is a part of the tree.
LEMMA LastIsPart ==
  ASSUME NEW r, NEW S, NEW p, Stacked(p, r, S), p # <<>>
  PROVE  Last(p).node \in Part(r, S)
<1>1. Last(p) \in Frames(r, S)
  BY LastOfSeq DEF Stacked
<1>. QED
  BY <1>1 DEF Frames
-----------------------------------------------------------------------------
(***************************************************************************)
(* Going back, and what both directions have in common.                    *)
(***************************************************************************)
\* A node on the way down is as far to the left as the last one, if from there
\* on every frame is the first child of the one before it.
LEMMA SameStart ==
  ASSUME NEW S, Fit(S), NEW r \in NodesIn(S), NEW p, Stacked(p, r, S), NEW top \in 1..Len(p),
         \A j \in (top + 1)..Len(p) : p[j].idx - 1 \notin DOMAIN p[j - 1].node.children
  PROVE  LowKey(p[top].node) = LowKey(Last(p).node)
<1>. DEFINE n == Len(p)
            Start(j) == LowKey(p[j].node)
            T == {l \in Nat : l <= n - top /\ Start(n - l) # Start(n)}
<1>1. p \in Seq(Frames(r, S)) /\ n \in Nat
  BY ElementsOfSeq DEF Stacked
<1>2. \A j \in 1..n : p[j].node \in NodesIn(S)
  <2>1. \A j \in 1..n : p[j] \in Frames(r, S)
    BY <1>1, ElementsOfSeq
  <2>2. \A f \in Frames(r, S) : f.node \in NodesIn(S)
    BY DEF Frames, Part
  <2>. QED
    BY <2>1, <2>2
<1>3. T = {}
  <2>. SUFFICES ASSUME T # {}
                PROVE  FALSE
    OBVIOUS
  <2>1. PICK l \in T : \A u \in T : l =< u
    <3>. HIDE DEF T
    <3>1. T \subseteq Nat
      BY DEF T
    <3>. QED
      BY <3>1, LeastNatural
  <2>2. l # 0
    <3>. SUFFICES ASSUME l = 0
                  PROVE  FALSE
      OBVIOUS
    <3>1. n - l = n
      BY <1>1
    <3>2. Start(n - l) # Start(n)
      BY <2>1
    <3>. HIDE DEF Start, T, n
    <3>. QED
      BY <3>1, <3>2
  <2>3. l \in Nat /\ l - 1 \in Nat /\ l - 1 \notin T /\ l - 1 <= n - top
    <3>1. l \in Nat /\ l <= n - top
      BY <2>1
    <3>2. \A u \in T : l =< u
      BY <2>1
    <3>. HIDE DEF T
    <3>. QED
      BY <1>1, <2>2, <3>1, <3>2
  <2>4. Start(n - (l - 1)) = Start(n)
    <3>. HIDE DEF Start
    <3>. QED
      BY <2>3
  <2>. DEFINE j == n - (l - 1)
              s == p[j - 1].node.children
  <2>5. /\ j \in (top + 1)..n /\ j \in 2..n /\ j - 1 \in 1..n /\ j - 1 = n - l
    BY <1>1, <2>1, <2>2
  <2>. HIDE DEF j
  <2>6. /\ p[j - 1].node.kind = "Internal" /\ p[j].idx \in DOMAIN s
        /\ p[j].node = s[p[j].idx].child_hash
    BY <2>5 DEF Stacked, Linked
  <2>7. p[j].idx = 1
    <3>1. p[j].idx - 1 \notin DOMAIN s
      BY <2>5
    <3>2. s \in Seq(EntriesBelow(S, p[j - 1].node.level))
      BY <1>2, <2>5, <2>6, StoredNode, NodeKinds DEF Fit, NodesIn
    <3>3. DOMAIN s = 1..Len(s) /\ Len(s) \in Nat
      BY <3>2, ElementsOfSeq
    <3>. DEFINE i == p[j].idx
    <3>4. i \in DOMAIN s /\ i - 1 \notin DOMAIN s
      BY <2>6, <3>1
    <3>. HIDE DEF s, i
    <3>5. i = 1
      BY <3>3, <3>4, SMT
    <3>. QED
      BY <3>5 DEF i
  <2>8. Start(j - 1) = Start(j)
    BY <1>2, <2>5, <2>6, <2>7, ChildFacts
  <2>9. Start(n - l) # Start(n)
    BY <2>1
  <2>10. Start(j) = Start(n)
    BY <2>4 DEF j
  <2>. HIDE DEF Start
  <2>. QED
    BY <2>5, <2>8, <2>9, <2>10
<1>4. n - top \in Nat /\ n - top <= n - top /\ n - (n - top) = top
  BY <1>1
<1>5. Start(top) = Start(n)
  <2>1. n - top \notin T
    BY <1>3
  <2>2. Start(n - (n - top)) = Start(n)
    <3>. HIDE DEF Start
    <3>. QED
      BY <1>4, <2>1
  <2>. QED
    BY <1>4, <2>2
<1>. QED
  BY <1>5 DEF Last

\* There is nothing between a child and the next one.
LEMMA NothingBetween ==
  ASSUME NEW S, Fit(S), NEW r \in NodesIn(S), NEW n \in Part(r, S), n.kind = "Internal",
         NEW i \in DOMAIN n.children, NEW h \in DOMAIN n.children, h = i + 1
  PROVE  LET b == BoundaryKey(n.children[i].child_hash)
             l == LowKey(n.children[h].child_hash)
         IN  /\ b \in Int /\ l \in Int /\ b < l
             /\ \A x \in StoredIn(r) : ~(b < x.key /\ x.key < l)
<1>. DEFINE a == n.children[i].child_hash
            c == n.children[h].child_hash
            b == BoundaryKey(a)
<1>1. b \in Int /\ b + 1 <= LowKey(c) /\ Near(c, r, b + 1)
  BY NextSibling
<1>2. n \in NodesIn(S)
  BY DEF Part
<1>3. c \in NodesIn(S) /\ LowKey(c) \in Int /\ BoundaryKey(c) \in Int /\ LowKey(c) <= BoundaryKey(c)
  BY <1>2, ChildFacts
<1>4. \A x \in StoredIn(c) : LowKey(c) <= x.key
  BY <1>3, NodeRange
<1>5. \A x \in StoredIn(r) : x.key \in Int
  BY NodeRange
<1>. HIDE DEF b, c
<1>6. ASSUME NEW x \in StoredIn(r), b < x.key, x.key < LowKey(c)
      PROVE  FALSE
  <2>1. x.key \in Int /\ b + 1 <= x.key /\ x.key <= BoundaryKey(c)
    BY <1>1, <1>3, <1>5, <1>6
  <2>2. x \in StoredIn(c)
    BY <1>1, <2>1 DEF Near
  <2>. QED
    BY <1>3, <1>4, <1>6, <2>1, <2>2
<1>7. b < LowKey(c)
  BY <1>1, <1>3
<1>. QED
  BY <1>1, <1>3, <1>6, <1>7 DEF a, b, c

\* From a leaf a cursor gets to the end of the one before it, or there is none.
LEMMA AdvanceBack ==
  ASSUME NEW S, Fit(S), NEW r \in NodesIn(S), NEW p, Stacked(p, r, S), p # <<>>, NEW T
  PROVE  LET d == Advance(p, -1, T)
             l == LowKey(Last(p).node)
         IN  \/ /\ d.out = "end" /\ d.path = <<>>
                /\ \A x \in StoredIn(r) : ~(x.key < l)
             \/ \E k \in Int : /\ Landed(d, Rightmost, k, r, S, T)
                               /\ \A x \in StoredIn(r) : x.key < l <=> x.key <= k
<1>. DEFINE n == Last(p).node
            l == LowKey(n)
            d == Advance(p, -1, T)
            turns == {j \in 2..Len(p) : p[j].idx + (-1) \in DOMAIN p[j - 1].node.children}
            top == Max(turns)
<1>1. /\ p \in Seq(Frames(r, S)) /\ Len(p) \in Nat \ {0}
      /\ \A j \in 1..Len(p) : p[j] \in Frames(r, S)
      /\ Last(p) \in Frames(r, S)
  BY ElementsOfSeq, LastOfSeq DEF Stacked
<1>2. n \in Part(r, S) /\ n \in NodesIn(S)
  BY <1>1 DEF Frames, Part
<1>3. l \in Int /\ \A x \in StoredIn(r) : x.key \in Int
  BY <1>2, NodeRange
<1>4. \A j \in 1..Len(p) : p[j].idx \in Nat /\ p[j].idx + (-1) = p[j].idx - 1
  BY <1>1 DEF Frames
<1>5. CASE turns = {}
  <2>1. 1 \in 1..Len(p) /\ \A j \in (1 + 1)..Len(p) : p[j].idx - 1 \notin DOMAIN p[j - 1].node.children
    <3>1. \A j \in (1 + 1)..Len(p) : j \in 2..Len(p) /\ j \in 1..Len(p)
      BY <1>1
    <3>2. \A j \in (1 + 1)..Len(p) : p[j].idx + (-1) \notin DOMAIN p[j - 1].node.children
      BY <1>5, <3>1
    <3>. QED
      BY <1>1, <1>4, <3>1, <3>2
  <2>2. LowKey(p[1].node) = l
    BY <2>1, SameStart
  <2>3. p[1].node = r
    BY DEF Stacked
  <2>4. \A x \in StoredIn(r) : l <= x.key
    BY <2>2, <2>3, NodeRange
  <2>5. d = [path |-> <<>>, out |-> "end"]
    BY <1>5 DEF Advance
  <2>6. d.out = "end" /\ d.path = <<>>
    BY <2>5
  <2>. HIDE DEF l, d
  <2>7. \A x \in StoredIn(r) : ~(x.key < l)
    BY <1>3, <2>4
  <2>. QED
    BY <2>6, <2>7 DEF d, l
<1>6. CASE turns # {}
  <2>. DEFINE m == p[top - 1].node
              s == m.children
              i == p[top].idx
              f == Frame(s, i + (-1))
              q == SubSeq(p, 1, top - 1)
              k == BoundaryKey(f.node)
  <2>1. top \in turns /\ \A u \in turns : u <= top
    <3>1. turns \in SUBSET (0..Len(p))
      BY <1>1
    <3>. HIDE DEF turns
    <3>. QED
      BY <1>1, <1>6, <3>1, GreatestNatural
  <2>2. top \in 2..Len(p) /\ i + (-1) \in DOMAIN s
    BY <2>1
  <2>3. \A j \in (top + 1)..Len(p) : p[j].idx - 1 \notin DOMAIN p[j - 1].node.children
    <3>. SUFFICES ASSUME NEW j \in (top + 1)..Len(p)
                  PROVE  p[j].idx - 1 \notin DOMAIN p[j - 1].node.children
      OBVIOUS
    <3>1. ~(j <= top) /\ j \in 2..Len(p) /\ j \in 1..Len(p)
      BY <1>1, <2>2
    <3>2. j \notin turns
      <4>. HIDE DEF turns
      <4>. QED
        BY <2>1, <3>1
    <3>3. p[j].idx + (-1) \notin DOMAIN p[j - 1].node.children
      BY <3>1, <3>2
    <3>4. p[j].idx + (-1) = p[j].idx - 1
      BY <1>4, <3>1
    <3>. QED
      BY <3>3, <3>4
  <2>4. d = Descent(q, f, Rightmost, T)
    BY <1>6 DEF Advance
  <2>. HIDE DEF turns, top
  <2>5. top \in 1..Len(p) /\ top - 1 \in 1..Len(p) /\ top \in Nat
    BY <1>1, <2>2
  <2>6. LowKey(p[top].node) = l
    BY <2>3, <2>5, SameStart
  <2>7. m.kind = "Internal" /\ i \in DOMAIN s /\ p[top].node = s[i].child_hash
    BY <2>2 DEF Stacked, Linked
  <2>8. m \in Part(r, S)
    BY <1>1, <2>5 DEF Frames
  <2>9. f.node = s[i + (-1)].child_hash /\ f.idx = i + (-1)
    BY DEF Frame
  <2>10. i \in Nat /\ i = (i + (-1)) + 1
    BY <1>4, <2>5
  <2>11. k \in Int /\ k < l /\ \A x \in StoredIn(r) : ~(k < x.key /\ x.key < l)
    BY <2>2, <2>6, <2>7, <2>8, <2>9, <2>10, NothingBetween
  <2>12. f \in Frames(r, S)
    <3>1. f.node \in Part(r, S)
      BY <2>2, <2>7, <2>8, <2>9, ChildIsPart
    <3>2. DOMAIN s \subseteq Nat
      <4>1. m \in BalancedOver(S)
        BY <2>8, StoredNode DEF Fit, NodesIn, Part
      <4>2. s \in Seq(EntriesBelow(S, m.level))
        BY <2>7, <4>1, NodeKinds
      <4>. QED
        BY <4>2, ElementsOfSeq
    <3>. QED
      BY <2>2, <3>1, <3>2 DEF Frames, Frame
  <2>13. Stacked(q, r, S) /\ q # <<>> /\ Last(q) = p[top - 1]
    BY <2>5, StackCut
  <2>14. Linked(Last(q), f)
    BY <2>2, <2>7, <2>9, <2>13 DEF Linked
  <2>15. Seeks(Rightmost, f.node, k, r)
    BY DEF Seeks
  <2>16. Near(f.node, r, k)
    <3>1. f.node \in Part(r, S) /\ f.node \in NodesIn(S)
      BY <2>12 DEF Frames, Part
    <3>2. LowKey(f.node) \in Int /\ LowKey(f.node) <= k
      <4>1. m \in NodesIn(S)
        BY <2>8 DEF Part
      <4>2. i + (-1) \in DOMAIN s /\ m.kind = "Internal"
        BY <2>2, <2>7
      <4>. HIDE DEF f, i, m, k
      <4>3. LET c == s[i + (-1)].child_hash
            IN  LowKey(c) \in Int /\ LowKey(c) <= BoundaryKey(c)
        BY <4>1, <4>2, ChildFacts
      <4>. QED
        BY <2>9, <4>3 DEF k
    <3>3. \A x \in StoredIn(r) : LowKey(f.node) <= x.key /\ x.key <= k => x \in StoredIn(f.node)
      BY <3>1 DEF Part
    <3>. HIDE DEF f, k
    <3>4. \A x \in StoredIn(r) : /\ k <= x.key /\ x.key <= k => x \in StoredIn(f.node)
                                 /\ ~(k < x.key /\ x.key < k)
      BY <1>3, <2>11, <3>2, <3>3
    <3>. QED
      BY <3>4 DEF Near, k
  <2>17. \A x \in StoredIn(r) : x.key < l <=> x.key <= k
    <3>. HIDE DEF k, l
    <3>. QED
      BY <1>3, <2>11
  <2>. HIDE DEF d, f, q, n, k, l
  <2>18. Landed(d, Rightmost, k, r, S, T)
    BY <2>4, <2>11, <2>12, <2>13, <2>14, <2>15, <2>16, DescentLands
  <2>. QED
    BY <2>11, <2>17, <2>18 DEF d, l, n
<1>. QED
  BY <1>5, <1>6

-----------------------------------------------------------------------------
(***************************************************************************)
(* What is ahead of a cursor, in either direction.                         *)
(***************************************************************************)
\* A cursor that has not failed: it is through with the tree, or in a leaf.
Poised(c, args, r, S) ==
  \/ c.path = <<>>
  \/ LET n == Last(c.path).node
     IN  /\ c.path # <<>> /\ Stacked(c.path, r, S) /\ n.kind = "Leaf"
         /\ c.at \in IF args.reverse THEN 0..Len(n.entries) ELSE 1..(Len(n.entries) + 1)

\* The entries of the tree on the far side of a leaf.
PastLeaf(n, args, r) ==
  {x \in StoredIn(r) : IF args.reverse THEN x.key < LowKey(n) ELSE BoundaryKey(n) < x.key}

LeftInLeaf(n, at, args) ==
  {n.entries[i] : i \in {i \in DOMAIN n.entries : IF args.reverse THEN i <= at ELSE at <= i}}

Ahead(c, args, r) ==
  LET n == Last(c.path).node
  IN  IF c.path = <<>> THEN {} ELSE PastLeaf(n, args, r) \cup LeftInLeaf(n, c.at, args)

\* The entries that a scan meets from key k on.
Onward(k, args, r) == {x \in StoredIn(r) : IF args.reverse THEN x.key <= k ELSE k <= x.key}

\* What is ahead of a place in a leaf are the keys from the one there on.
LEMMA AheadFrom ==
  ASSUME NEW S, Fit(S), NEW r \in NodesIn(S), NEW n \in Part(r, S), n.kind = "Leaf", NEW args,
         NEW at \in DOMAIN n.entries
  PROVE  LET k == n.entries[at].key
         IN  /\ n.entries[at] \in StoredIn(r) /\ k \in Int
             /\ PastLeaf(n, args, r) \cup LeftInLeaf(n, at, args) = Onward(k, args, r)
<1>. DEFINE s == n.entries
            k == s[at].key
            b == BoundaryKey(n)
            l == LowKey(n)
            In(x) == IF args.reverse THEN x.key <= k ELSE k <= x.key
<1>1. /\ DOMAIN s = 1..Len(s) /\ Len(s) \in Nat
      /\ \A i \in DOMAIN s : s[i].key \in Int /\ s[i] \in StoredIn(n)
      /\ \A x \in StoredIn(n) : \E i \in DOMAIN s : x = s[i]
      /\ \A i, j \in DOMAIN s : i < j => s[i].key < s[j].key
  BY LeafIs
<1>2. n \in NodesIn(S) /\ StoredIn(n) = {x \in StoredIn(r) : l <= x.key /\ x.key <= b}
  BY DEF Part
<1>3. l \in Int /\ b \in Int /\ \A x \in StoredIn(r) : x.key \in Int
  BY <1>2, NodeRange
<1>4. s[at] \in StoredIn(r) /\ k \in Int /\ l <= k /\ k <= b
  BY <1>1, <1>2
<1>5. ASSUME NEW x \in PastLeaf(n, args, r)
      PROVE  x \in StoredIn(r) /\ In(x)
  <2>1. x \in StoredIn(r) /\ x.key \in Int /\ IF args.reverse THEN x.key < l ELSE b < x.key
    BY <1>3 DEF PastLeaf
  <2>. HIDE DEF k, l, b
  <2>. QED
    BY <1>3, <1>4, <2>1
<1>6. ASSUME NEW x \in LeftInLeaf(n, at, args)
      PROVE  x \in StoredIn(r) /\ In(x)
  <2>1. PICK i \in DOMAIN s : x = s[i] /\ IF args.reverse THEN i <= at ELSE at <= i
    BY DEF LeftInLeaf
  <2>2. i \in Int /\ at \in Int /\ (i = at \/ (IF args.reverse THEN i < at ELSE at < i))
    BY <1>1, <2>1
  <2>3. s[i].key \in Int /\ (i = at \/ (IF args.reverse THEN s[i].key < k ELSE k < s[i].key))
    BY <1>1, <2>2
  <2>4. i = at => s[i].key = k
    OBVIOUS
  <2>5. x \in StoredIn(r)
    BY <1>1, <1>2, <2>1
  <2>. HIDE DEF k, s
  <2>. QED
    BY <1>4, <2>1, <2>3, <2>4, <2>5
<1>7. ASSUME NEW x \in StoredIn(r), In(x)
      PROVE  x \in PastLeaf(n, args, r) \/ x \in LeftInLeaf(n, at, args)
  <2>. SUFFICES ASSUME x \notin PastLeaf(n, args, r)
                PROVE  x \in LeftInLeaf(n, at, args)
    OBVIOUS
  <2>1. ~(IF args.reverse THEN x.key < l ELSE b < x.key)
    BY DEF PastLeaf
  <2>2. l <= x.key /\ x.key <= b
    <3>. HIDE DEF k, l, b
    <3>. QED
      BY <1>3, <1>4, <1>7, <2>1
  <2>3. PICK i \in DOMAIN s : x = s[i]
    BY <1>1, <1>2, <2>2
  <2>4. IF args.reverse THEN i <= at ELSE at <= i
    <3>1. i \in Int /\ at \in Int /\ (i < at => s[i].key < k) /\ (at < i => k < s[i].key)
      BY <1>1
    <3>2. s[i].key \in Int /\ IF args.reverse THEN s[i].key <= k ELSE k <= s[i].key
      BY <1>1, <1>7, <2>3
    <3>. HIDE DEF k, s
    <3>. QED
      BY <1>4, <3>1, <3>2
  <2>. QED
    BY <2>3, <2>4 DEF LeftInLeaf
<1>8. PastLeaf(n, args, r) \cup LeftInLeaf(n, at, args) = {x \in StoredIn(r) : In(x)}
  <2>. HIDE DEF In
  <2>. QED
    BY <1>5, <1>6, <1>7
<1>. QED
  BY <1>4, <1>8 DEF Onward

\* The entry a cursor is at is the first of those ahead.
LEMMA FirstAhead ==
  ASSUME NEW S, Fit(S), NEW r \in NodesIn(S), NEW args, NEW c, Poised(c, args, r, S), c.path # <<>>,
         c.at \in DOMAIN Last(c.path).node.entries
  PROVE  LET e  == Last(c.path).node.entries[c.at]
             to == [path |-> c.path, at |-> c.at + Dir(args)]
         IN  /\ e \in Ahead(c, args, r) /\ e \in StoredIn(r) /\ e.key \in Int
             /\ \A x \in Ahead(c, args, r) : x \in StoredIn(r) /\ (x = e \/ Precedes(e.key, x.key, args))
             /\ Poised(to, args, r, S) /\ Ahead(to, args, r) = Ahead(c, args, r) \ {e}
<1>. DEFINE n == Last(c.path).node
            s == n.entries
            at == c.at
            e == s[at]
            to == [path |-> c.path, at |-> at + Dir(args)]
<1>1. Stacked(c.path, r, S) /\ n.kind = "Leaf" /\ n \in Part(r, S)
  BY LastIsPart DEF Poised
<1>2. /\ DOMAIN s = 1..Len(s) /\ Len(s) \in Nat
      /\ \A i \in DOMAIN s : s[i].key \in Int /\ s[i] \in StoredIn(n)
      /\ \A i, j \in DOMAIN s : i < j => s[i].key < s[j].key
  BY <1>1, LeafIs
<1>3. e \in StoredIn(r) /\ e.key \in Int
      /\ PastLeaf(n, args, r) \cup LeftInLeaf(n, at, args) = Onward(e.key, args, r)
  <2>1. at \in DOMAIN n.entries
    OBVIOUS
  <2>. HIDE DEF n, at
  <2>. QED
    BY <1>1, <2>1, AheadFrom
<1>4. Ahead(c, args, r) = PastLeaf(n, args, r) \cup LeftInLeaf(n, at, args)
  BY DEF Ahead
<1>5. \A x, y \in StoredIn(r) : x.key = y.key => x = y
  BY NodeKeeps DEF OneEach, Fit
<1>6. \A x \in StoredIn(r) : x.key \in Int
  BY NodeRange
<1>7. ASSUME NEW x \in Ahead(c, args, r)
      PROVE  x \in StoredIn(r) /\ (x = e \/ Precedes(e.key, x.key, args))
  <2>1. x \in StoredIn(r) /\ IF args.reverse THEN x.key <= e.key ELSE e.key <= x.key
    BY <1>3, <1>4 DEF Onward
  <2>2. x.key = e.key => x = e
    BY <1>3, <1>5, <2>1
  <2>3. x.key \in Int /\ e.key \in Int
    BY <1>3, <1>6, <2>1
  <2>. DEFINE j == x.key
              k == e.key
  <2>4. (IF args.reverse THEN j <= k ELSE k <= j) /\ (j = k \/ IF args.reverse THEN j < k ELSE k < j)
    <3>. HIDE DEF j, k
    <3>1. j \in Int /\ k \in Int /\ IF args.reverse THEN j <= k ELSE k <= j
      BY <2>1, <2>3 DEF j, k
    <3>. QED
      BY <3>1
  <2>. QED
    BY <2>1, <2>2, <2>4 DEF Precedes
<1>8. e \in Ahead(c, args, r)
  <2>. HIDE DEF e
  <2>. QED
    BY <1>3, <1>4 DEF Onward
<1>9. to.path = c.path /\ to.at = at + Dir(args)
  OBVIOUS
<1>10. Poised(to, args, r, S)
  <2>1. to.at \in IF args.reverse THEN 0..Len(s) ELSE 1..(Len(s) + 1)
    BY <1>2, <1>9 DEF Dir
  <2>. HIDE DEF to
  <2>. QED
    BY <1>1, <1>9, <2>1 DEF Poised
<1>11. LeftInLeaf(n, at + Dir(args), args) = LeftInLeaf(n, at, args) \ {e}
  <2>1. \A i \in DOMAIN s : i # at => s[i] # e
    <3>. SUFFICES ASSUME NEW i \in DOMAIN s, i # at
                  PROVE  s[i].key # e.key
      OBVIOUS
    <3>1. i < at \/ at < i
      BY <1>2
    <3>. QED
      BY <1>2, <3>1
  <2>2. \A i \in DOMAIN s : (IF args.reverse THEN i <= at + Dir(args) ELSE at + Dir(args) <= i)
                          <=> i # at /\ (IF args.reverse THEN i <= at ELSE at <= i)
    <3>1. \A i \in 1..Len(s) : (IF args.reverse THEN i <= at + Dir(args) ELSE at + Dir(args) <= i)
                             <=> i # at /\ (IF args.reverse THEN i <= at ELSE at <= i)
      BY <1>2 DEF Dir
    <3>. QED
      BY <1>2, <3>1
  <2>. HIDE DEF e, at, s
  <2>3. LeftInLeaf(n, at + Dir(args), args)
          = {s[i] : i \in {i \in DOMAIN s : IF args.reverse THEN i <= at + Dir(args) ELSE at + Dir(args) <= i}}
    BY DEF LeftInLeaf, s
  <2>4. LeftInLeaf(n, at, args) = {s[i] : i \in {i \in DOMAIN s : IF args.reverse THEN i <= at ELSE at <= i}}
    BY DEF LeftInLeaf, s
  <2>5. e = s[at]
    BY DEF e
  <2>. QED
    BY <2>1, <2>2, <2>3, <2>4, <2>5
<1>12. e \notin PastLeaf(n, args, r)
  <2>1. n \in NodesIn(S)
    BY <1>1 DEF Part
  <2>2. LowKey(n) \in Int /\ BoundaryKey(n) \in Int /\ LowKey(n) <= e.key /\ e.key <= BoundaryKey(n)
    BY <1>2, <2>1, NodeRange
  <2>. HIDE DEF e
  <2>. QED
    BY <1>3, <2>2 DEF PastLeaf
<1>13. Ahead(to, args, r) = PastLeaf(n, args, r) \cup LeftInLeaf(n, at + Dir(args), args)
  BY <1>9 DEF Ahead
<1>14. Ahead(to, args, r) = Ahead(c, args, r) \ {e}
  BY <1>4, <1>11, <1>12, <1>13
<1>. QED
  BY <1>3, <1>7, <1>8, <1>10, <1>14

\* From a leaf a cursor gets to the beginning of the next one, or there is none.
LEMMA AdvanceForth ==
  ASSUME NEW S, Fit(S), NEW r \in NodesIn(S), NEW p, Stacked(p, r, S), p # <<>>,
         Last(p).node.kind = "Leaf", NEW T
  PROVE  LET d == Advance(p, 1, T)
             b == BoundaryKey(Last(p).node)
         IN  \/ /\ d.out = "end" /\ d.path = <<>>
                /\ \A x \in StoredIn(r) : ~(b < x.key)
             \/ \E k \in Int : /\ Landed(d, Leftmost, k, r, S, T)
                               /\ \A x \in StoredIn(r) : b < x.key <=> k <= x.key
<1>. DEFINE n == Last(p).node
            s == n.entries
            b == BoundaryKey(n)
            d == Advance(p, 1, T)
<1>1. n \in Part(r, S) /\ n \in NodesIn(S)
  BY LastIsPart DEF Part
<1>2. b \in Int /\ \A x \in StoredIn(r) : x.key \in Int
  BY <1>1, NodeRange
<1>3. DOMAIN s = 1..Len(s) /\ Len(s) \in Nat
  BY <1>1, LeafIs
<1>4. \A i \in DOMAIN s : s[i].key \in Int /\ s[i].key <= b
  BY <1>1, LeafIs, NodeRange
<1>5. Near(n, r, b + 1)
  <2>1. \A x \in StoredIn(r) : ~(b + 1 <= x.key /\ x.key <= b) /\ ~(b < x.key /\ x.key < b + 1)
    <3>. HIDE DEF b
    <3>. QED
      BY <1>2
  <2>. QED
    BY <2>1 DEF Near
<1>6. Placed(Len(s) + 1, n, b + 1)
  <2>. HIDE DEF b, s
  <2>1. Len(s) + 1 \in 1..(Len(s) + 1) /\ \A i \in DOMAIN s : s[i].key < b + 1 /\ i < Len(s) + 1
    BY <1>2, <1>3, <1>4
  <2>. QED
    BY <2>1 DEF Placed, s
<1>7. Stands(Len(s) + 1, n, b + 1, r) /\ b + 1 \in Int
  BY <1>2, <1>5, <1>6 DEF Stands
<1>8. \A x \in StoredIn(r) : b < x.key <=> b + 1 <= x.key
  <2>. HIDE DEF b
  <2>. QED
    BY <1>2
<1>9. \/ /\ d.out = "end" /\ d.path = <<>>
         /\ \A x \in StoredIn(r) : ~(b + 1 <= x.key)
      \/ \E k \in Int : /\ Landed(d, Leftmost, k, r, S, T)
                        /\ \A x \in StoredIn(r) : b + 1 <= x.key <=> k <= x.key
  <2>. HIDE DEF b, d
  <2>. QED
    BY <1>7, AdvanceLands DEF d
<1>. HIDE DEF b, d
<1>10. \/ /\ d.out = "end" /\ d.path = <<>>
          /\ \A x \in StoredIn(r) : ~(b < x.key)
       \/ \E k \in Int : /\ Landed(d, Leftmost, k, r, S, T)
                         /\ \A x \in StoredIn(r) : b < x.key <=> k <= x.key
  BY <1>8, <1>9
<1>. QED
  BY <1>10 DEF b, d

\* The last entry of a leaf is for its boundary.
LEMMA LastInLeaf ==
  ASSUME NEW S, Fit(S), NEW r \in NodesIn(S), NEW n \in Part(r, S), n.kind = "Leaf"
  PROVE  LET s == n.entries
         IN  Len(s) \in DOMAIN s /\ 1 \in DOMAIN s /\ s[Len(s)].key = BoundaryKey(n)
<1>1. DOMAIN n.entries = 1..Len(n.entries) /\ Len(n.entries) \in Nat \ {0}
  BY LeafIs
<1>2. BoundaryKey(n) = n.entries[Len(n.entries)].key
  BY DEF BoundaryKey, Last
<1>. QED
  BY <1>1, <1>2

\* Where a scan enters a leaf.
EntryPlace(m, args) == IF args.reverse THEN Len(m.entries) ELSE 1

\* A cursor that has just entered a leaf, at the near end of it, has all before
\* it that it was to find there.
LEMMA EnteredLeaf ==
  ASSUME NEW S, Fit(S), NEW r \in NodesIn(S), NEW args, NEW m \in Part(r, S), m.kind = "Leaf",
         NEW k \in Int, Near(m, r, k), IF args.reverse THEN k = BoundaryKey(m) ELSE k <= LowKey(m)
  PROVE  /\ EntryPlace(m, args) \in DOMAIN m.entries
         /\ PastLeaf(m, args, r) \cup LeftInLeaf(m, EntryPlace(m, args), args) = Onward(k, args, r)
<1>. DEFINE s == m.entries
            at == EntryPlace(m, args)
            b == BoundaryKey(m)
            l == LowKey(m)
<1>1. at \in DOMAIN s /\ (args.reverse => s[at].key = b)
  BY LastInLeaf DEF EntryPlace
<1>2. ~args.reverse => s[at].key = l
  BY LeafIs DEF EntryPlace
<1>3. PastLeaf(m, args, r) \cup LeftInLeaf(m, at, args) = Onward(s[at].key, args, r)
  <2>. HIDE DEF at
  <2>. QED
    BY <1>1, AheadFrom
<1>4. CASE args.reverse
  BY <1>1, <1>3, <1>4
<1>5. CASE ~args.reverse
  <2>1. m \in NodesIn(S) /\ l \in Int /\ b \in Int /\ l <= b
    <3>1. m \in NodesIn(S)
      BY DEF Part
    <3>2. 1 \in DOMAIN s /\ s[1] \in StoredIn(m) /\ s[1].key = l
      BY LastInLeaf, LeafIs
    <3>. QED
      BY <3>1, <3>2, NodeRange
  <2>2. \A x \in StoredIn(r) : x.key \in Int
    BY NodeRange
  <2>3. \A x \in StoredIn(m) : l <= x.key
    BY <2>1, NodeRange
  <2>4. k <= l
    BY <1>5
  <2>5. \A x \in StoredIn(r) : k <= x.key /\ x.key <= b => x \in StoredIn(m)
    BY DEF Near
  <2>. HIDE DEF l, b
  <2>6. \A x \in StoredIn(r) : l <= x.key <=> k <= x.key
    BY <2>1, <2>2, <2>3, <2>4, <2>5
  <2>7. Onward(l, args, r) = Onward(k, args, r)
    BY <1>5, <2>6 DEF Onward
  <2>. QED
    BY <1>1, <1>2, <1>3, <1>5, <2>7
<1>. QED
  BY <1>4, <1>5

\* Behind a leaf a cursor goes on at the next one, in either direction, unless
\* there is none or it cannot be loaded.
LEMMA MoveOn ==
  ASSUME NEW S, Fit(S), NEW r \in NodesIn(S), NEW args, NEW p, Stacked(p, r, S), p # <<>>,
         Last(p).node.kind = "Leaf", NEW T
  PROVE  LET past  == PastLeaf(Last(p).node, args, r)
             moved == Advance(p, Dir(args), T)
             to    == [path |-> moved.path, at |-> NearEnd(moved.path, args)]
         IN  \/ moved.out = "end" /\ past = {}
             \/ /\ moved.out = "leaf" /\ to.path # <<>> /\ Poised(to, args, r, S)
                /\ to.at \in DOMAIN Last(to.path).node.entries
                /\ Ahead(to, args, r) = past
             \/ moved.out = "ChunkNotFound" /\ ~(NodesUnder(r) \subseteq T)
<1>. DEFINE n == Last(p).node
            past == PastLeaf(n, args, r)
            moved == Advance(p, Dir(args), T)
            to == [path |-> moved.path, at |-> NearEnd(moved.path, args)]
            goal == IF args.reverse THEN Rightmost ELSE Leftmost
<1>1. \/ moved.out = "end" /\ past = {}
      \/ \E k \in Int : Landed(moved, goal, k, r, S, T) /\ past = Onward(k, args, r)
  <2>1. CASE args.reverse
    <3>1. moved = Advance(p, -1, T) /\ goal = Rightmost
      BY <2>1 DEF Dir
    <3>2. past = {x \in StoredIn(r) : x.key < LowKey(n)}
      BY <2>1 DEF PastLeaf
    <3>3. \A k \in Int : Onward(k, args, r) = {x \in StoredIn(r) : x.key <= k}
      BY <2>1 DEF Onward
    <3>. HIDE DEF past, moved, goal
    <3>. QED
      BY <3>1, <3>2, <3>3, AdvanceBack
  <2>2. CASE ~args.reverse
    <3>1. moved = Advance(p, 1, T) /\ goal = Leftmost
      BY <2>2 DEF Dir
    <3>2. past = {x \in StoredIn(r) : BoundaryKey(n) < x.key}
      BY <2>2 DEF PastLeaf
    <3>3. \A k \in Int : Onward(k, args, r) = {x \in StoredIn(r) : k <= x.key}
      BY <2>2 DEF Onward
    <3>. HIDE DEF past, moved, goal
    <3>. QED
      BY <3>1, <3>2, <3>3, AdvanceForth
  <2>. QED
    BY <2>1, <2>2
<1>2. ASSUME NEW k \in Int, Landed(moved, goal, k, r, S, T), past = Onward(k, args, r), moved.out = "leaf"
      PROVE  /\ to.path # <<>> /\ Poised(to, args, r, S)
             /\ to.at \in DOMAIN Last(to.path).node.entries
             /\ Ahead(to, args, r) = past
  <2>. DEFINE m == Last(moved.path).node
              at == EntryPlace(m, args)
  <2>1. /\ Stacked(moved.path, r, S) /\ moved.path # <<>> /\ m.kind = "Leaf"
        /\ Seeks(goal, m, k, r) /\ Near(m, r, k)
    BY <1>2 DEF Landed
  <2>2. to.path = moved.path /\ to.at = at
    BY DEF NearEnd, EntryPlace
  <2>. HIDE DEF moved, to
  <2>3. m \in Part(r, S)
    BY <2>1, LastIsPart
  <2>4. IF args.reverse THEN k = BoundaryKey(m) ELSE k <= LowKey(m)
    BY <2>1 DEF Seeks, Leftmost, Rightmost, Toward
  <2>5. /\ at \in DOMAIN m.entries
        /\ PastLeaf(m, args, r) \cup LeftInLeaf(m, at, args) = Onward(k, args, r)
    <3>1. m.kind = "Leaf" /\ Near(m, r, k)
      BY <2>1
    <3>. HIDE DEF m
    <3>. QED
      BY <2>3, <2>4, <3>1, EnteredLeaf
  <2>6. at \in IF args.reverse THEN 0..Len(m.entries) ELSE 1..(Len(m.entries) + 1)
    <3>1. DOMAIN m.entries = 1..Len(m.entries) /\ Len(m.entries) \in Nat
      BY <2>1, <2>3, LeafIs
    <3>. HIDE DEF m
    <3>. QED
      BY <2>5, <3>1 DEF EntryPlace
  <2>7. Poised(to, args, r, S)
    BY <2>1, <2>2, <2>6 DEF Poised
  <2>8. Ahead(to, args, r) = PastLeaf(m, args, r) \cup LeftInLeaf(m, at, args)
    BY <2>1, <2>2 DEF Ahead
  <2>. QED
    BY <1>2, <2>1, <2>2, <2>5, <2>7, <2>8
<1>3. ASSUME NEW k \in Int, Landed(moved, goal, k, r, S, T), moved.out # "leaf"
      PROVE  moved.out = "ChunkNotFound" /\ ~(NodesUnder(r) \subseteq T)
  BY <1>3 DEF Landed
<1>. HIDE DEF past, moved, to, goal
<1>4. \/ moved.out = "end" /\ past = {}
      \/ /\ moved.out = "leaf" /\ to.path # <<>> /\ Poised(to, args, r, S)
         /\ to.at \in DOMAIN Last(to.path).node.entries
         /\ Ahead(to, args, r) = past
      \/ moved.out = "ChunkNotFound" /\ ~(NodesUnder(r) \subseteq T)
  BY <1>1, <1>2, <1>3
<1>. QED
  BY <1>4 DEF past, moved, to

\* A part of what is stored that a scan meets after all the rest.
Closed(A, args, r) ==
  /\ A \subseteq StoredIn(r)
  /\ \A x \in StoredIn(r) \ A, y \in A : Precedes(x.key, y.key, args)

LEMMA OnwardClosed ==
  ASSUME NEW S, Fit(S), NEW r \in NodesIn(S), NEW args, NEW k \in Int
  PROVE  Closed(Onward(k, args, r), args, r)
<1>1. \A x \in StoredIn(r) : x.key \in Int
  BY NodeRange
<1>2. ASSUME NEW x \in StoredIn(r) \ Onward(k, args, r), NEW y \in Onward(k, args, r)
      PROVE  Precedes(x.key, y.key, args)
  <2>1. /\ x.key \in Int /\ y.key \in Int
        /\ IF args.reverse THEN ~(x.key <= k) /\ y.key <= k ELSE ~(k <= x.key) /\ k <= y.key
    BY <1>1, <1>2 DEF Onward
  <2>2. IF args.reverse THEN y.key < x.key ELSE x.key < y.key
    BY <2>1
  <2>. QED
    BY <2>2 DEF Precedes
<1>3. Onward(k, args, r) \subseteq StoredIn(r)
  BY DEF Onward
<1>. QED
  BY <1>2, <1>3 DEF Closed

\* What is past a leaf is closed: it begins behind the leaf's last entry, or before its first.
LEMMA PastClosed ==
  ASSUME NEW S, Fit(S), NEW r \in NodesIn(S), NEW args, NEW n \in Part(r, S)
  PROVE  Closed(PastLeaf(n, args, r), args, r)
<1>1. \A x \in StoredIn(r) : x.key \in Int
  BY NodeRange
<1>2. LowKey(n) \in Int /\ BoundaryKey(n) \in Int
  BY NodeRange DEF Part
<1>3. ASSUME NEW x \in StoredIn(r) \ PastLeaf(n, args, r), NEW y \in PastLeaf(n, args, r)
      PROVE  Precedes(x.key, y.key, args)
  <2>1. /\ x.key \in Int /\ y.key \in Int
        /\ IF args.reverse THEN ~(x.key < LowKey(n)) /\ y.key < LowKey(n)
           ELSE ~(BoundaryKey(n) < x.key) /\ BoundaryKey(n) < y.key
    BY <1>1, <1>3 DEF PastLeaf
  <2>2. IF args.reverse THEN y.key < x.key ELSE x.key < y.key
    BY <1>2, <2>1
  <2>. QED
    BY <2>2 DEF Precedes
<1>4. PastLeaf(n, args, r) \subseteq StoredIn(r)
  BY DEF PastLeaf
<1>. QED
  BY <1>3, <1>4 DEF Closed

\* Off the entries of its leaf, a cursor has ahead what is past the leaf.
LEMMA OffLeaf ==
  ASSUME NEW S, Fit(S), NEW r \in NodesIn(S), NEW args, NEW c, Poised(c, args, r, S), c.path # <<>>,
         c.at \notin DOMAIN Last(c.path).node.entries
  PROVE  Ahead(c, args, r) = PastLeaf(Last(c.path).node, args, r)
<1>. DEFINE n == Last(c.path).node
            s == n.entries
<1>1. /\ Stacked(c.path, r, S) /\ n.kind = "Leaf" /\ n \in Part(r, S)
      /\ c.at \in IF args.reverse THEN 0..Len(s) ELSE 1..(Len(s) + 1)
  BY LastIsPart DEF Poised
<1>2. DOMAIN s = 1..Len(s) /\ Len(s) \in Nat
  BY <1>1, LeafIs
<1>3. c.at = IF args.reverse THEN 0 ELSE Len(s) + 1
  <2>1. c.at \notin 1..Len(s)
    BY <1>2
  <2>. HIDE DEF s
  <2>. QED
    BY <1>1, <1>2, <2>1
<1>4. LeftInLeaf(n, c.at, args) = {}
  <2>1. \A i \in 1..Len(s) : ~(IF args.reverse THEN i <= c.at ELSE c.at <= i)
    <3>. HIDE DEF s
    <3>. QED
      BY <1>2, <1>3
  <2>. QED
    BY <1>2, <2>1 DEF LeftInLeaf
<1>. QED
  BY <1>4 DEF Ahead

\* So is what is ahead of a cursor.
LEMMA AheadClosed ==
  ASSUME NEW S, Fit(S), NEW r \in NodesIn(S), NEW args, NEW c, Poised(c, args, r, S)
  PROVE  Closed(Ahead(c, args, r), args, r)
<1>. DEFINE n == Last(c.path).node
<1>1. CASE c.path = <<>>
  BY <1>1 DEF Ahead, Closed
<1>2. CASE c.path # <<>> /\ c.at \notin DOMAIN n.entries
  <2>1. n \in Part(r, S)
    BY <1>2, LastIsPart DEF Poised
  <2>. QED
    BY <1>2, <2>1, OffLeaf, PastClosed
<1>3. CASE c.path # <<>> /\ c.at \in DOMAIN n.entries
  <2>1. n \in Part(r, S) /\ n.kind = "Leaf"
    BY <1>3, LastIsPart DEF Poised
  <2>2. Ahead(c, args, r) = PastLeaf(n, args, r) \cup LeftInLeaf(n, c.at, args)
    BY <1>3 DEF Ahead
  <2>3. n.entries[c.at].key \in Int
        /\ PastLeaf(n, args, r) \cup LeftInLeaf(n, c.at, args) = Onward(n.entries[c.at].key, args, r)
    <3>1. c.at \in DOMAIN n.entries
      BY <1>3
    <3>. DEFINE at == c.at
    <3>. HIDE DEF n, at
    <3>2. at \in DOMAIN n.entries
      BY <3>1 DEF at
    <3>3. n.entries[at].key \in Int
          /\ PastLeaf(n, args, r) \cup LeftInLeaf(n, at, args) = Onward(n.entries[at].key, args, r)
      BY <2>1, <3>2, AheadFrom
    <3>. QED
      BY <3>3 DEF at
  <2>. QED
    BY <2>2, <2>3, OnwardClosed
<1>. QED
  BY <1>1, <1>2, <1>3

-----------------------------------------------------------------------------
(***************************************************************************)
(* One step of a scan.                                                     *)
(***************************************************************************)
\* e is what a scan meets first of A.
IsNearest(e, A, args) == e \in A /\ \A x \in A : x = e \/ Precedes(e.key, x.key, args)

\* The scan has nothing more to look for: what comes first ends it.
Spent(A, args) == A = {} \/ \E e \in A : IsNearest(e, A, args) /\ EndsAt(e.key, args)

\* The nearest of A is given, and the cursor steps over it.
Meets(next, A, args, r, S) ==
  /\ next.out = "item"
  /\ \E e \in A : /\ IsNearest(e, A, args) /\ ~EndsAt(e.key, args)
                  /\ next.item = <<e.key, ValueOf(e.value)>>
                  /\ Ahead(next.cursor, args, r) = A \ {e}
  /\ Poised(next.cursor, args, r, S)

Steps(next, A, args, r, S, T) ==
  \/ Meets(next, A, args, r, S)
  \/ next.out = "done" /\ Spent(A, args)
  \/ next.out = "ChunkNotFound" /\ ~(ChunksUnder(r) \subseteq T)

LEMMA YieldSteps ==
  ASSUME NEW S, Fit(S), NEW r \in NodesIn(S), r # None, NEW args, NEW c, Poised(c, args, r, S),
         c.path # <<>>, c.at \in DOMAIN Last(c.path).node.entries, NEW T
  PROVE  Steps(Yield(c, args, T), Ahead(c, args, r), args, r, S, T)
<1>. DEFINE e == Last(c.path).node.entries[c.at]
            A == Ahead(c, args, r)
            next == Yield(c, args, T)
            to == [path |-> c.path, at |-> c.at + Dir(args)]
<1>1. /\ IsNearest(e, A, args) /\ e \in StoredIn(r)
      /\ Poised(to, args, r, S) /\ Ahead(to, args, r) = A \ {e}
  <2>1. /\ e \in A /\ e \in StoredIn(r)
        /\ \A x \in A : x \in StoredIn(r) /\ (x = e \/ Precedes(e.key, x.key, args))
        /\ Poised(to, args, r, S) /\ Ahead(to, args, r) = A \ {e}
    BY FirstAhead
  <2>. HIDE DEF e, A, to
  <2>. QED
    BY <2>1 DEF IsNearest
<1>2. CASE EndsAt(e.key, args)
  <2>1. next = Outcome(c.path, c.at, "done")
    BY <1>2 DEF Yield
  <2>2. next.out = "done"
    BY <2>1 DEF Outcome
  <2>3. Spent(A, args)
    <3>. HIDE DEF e, A
    <3>. QED
      BY <1>1, <1>2 DEF Spent, IsNearest
  <2>. QED
    BY <2>2, <2>3 DEF Steps
<1>3. CASE ~EndsAt(e.key, args) /\ ~(ReprChunks(e.value) \subseteq T)
  <2>1. next = Outcome(c.path, c.at, "ChunkNotFound")
    BY <1>3 DEF Yield
  <2>2. next.out = "ChunkNotFound"
    BY <2>1 DEF Outcome
  <2>3. ~(ChunksUnder(r) \subseteq T)
    BY <1>1, <1>3, ChunksOf
  <2>. QED
    BY <2>2, <2>3 DEF Steps
<1>4. CASE ~EndsAt(e.key, args) /\ ReprChunks(e.value) \subseteq T
  <2>1. next = [cursor |-> to, out |-> "item", item |-> <<e.key, ValueOf(e.value)>>]
    BY <1>4 DEF Yield
  <2>. HIDE DEF to, e, A
  <2>2. next.cursor = to /\ next.out = "item" /\ next.item = <<e.key, ValueOf(e.value)>>
    BY <2>1
  <2>. HIDE DEF next
  <2>3. Meets(next, A, args, r, S)
    BY <1>1, <1>4, <2>2 DEF Meets, IsNearest
  <2>. QED
    BY <2>3 DEF Steps, next, A
<1>. QED
  BY <1>2, <1>3, <1>4

\* A cursor gives the nearest entry ahead of it, in the range, says that there is
\* none, or lacks a chunk.
LEMMA NextSteps ==
  ASSUME NEW S, Fit(S), NEW r \in NodesIn(S), r # None, NEW args, NEW c, Poised(c, args, r, S), NEW T
  PROVE  Steps(NextInScan(c, args, T), Ahead(c, args, r), args, r, S, T)
<1>. DEFINE n == Last(c.path).node
            A == Ahead(c, args, r)
            next == NextInScan(c, args, T)
            moved == Advance(c.path, Dir(args), T)
            to == [path |-> moved.path, at |-> NearEnd(moved.path, args)]
<1>1. CASE c.path = <<>>
  <2>1. next = Outcome(<<>>, c.at, "done") /\ A = {}
    BY <1>1 DEF NextInScan, Ahead
  <2>2. next.out = "done"
    BY <2>1 DEF Outcome
  <2>. QED
    BY <2>1, <2>2 DEF Steps, Spent
<1>2. CASE c.path # <<>> /\ c.at \in DOMAIN n.entries
  <2>1. n.kind = "Leaf"
    BY <1>2 DEF Poised
  <2>2. next = Yield(c, args, T)
    BY <1>2, <2>1 DEF NextInScan
  <2>. QED
    BY <1>2, <2>2, YieldSteps
<1>3. CASE c.path # <<>> /\ c.at \notin DOMAIN n.entries
  <2>1. n.kind = "Leaf" /\ Stacked(c.path, r, S)
    BY <1>3 DEF Poised
  <2>2. next = CASE moved.out = "leaf" -> Yield(to, args, T)
                 [] moved.out = "end" -> Outcome(<<>>, c.at, "done")
                 [] OTHER -> Outcome(moved.path, c.at, moved.out)
    BY <1>3, <2>1 DEF NextInScan
  <2>3. A = PastLeaf(n, args, r)
    BY <1>3, OffLeaf
  <2>4. \/ moved.out = "end" /\ A = {}
        \/ /\ moved.out = "leaf" /\ to.path # <<>> /\ Poised(to, args, r, S)
           /\ to.at \in DOMAIN Last(to.path).node.entries
           /\ Ahead(to, args, r) = A
        \/ moved.out = "ChunkNotFound" /\ ~(NodesUnder(r) \subseteq T)
    BY <1>3, <2>1, <2>3, MoveOn
  <2>. HIDE DEF next, moved, to, A
  <2>5. CASE moved.out = "end" /\ A = {}
    <3>1. next.out = "done"
      BY <2>2, <2>5 DEF Outcome
    <3>. QED
      BY <2>5, <3>1 DEF Steps, Spent, next, A
  <2>6. CASE /\ moved.out = "leaf" /\ to.path # <<>> /\ Poised(to, args, r, S)
             /\ to.at \in DOMAIN Last(to.path).node.entries
             /\ Ahead(to, args, r) = A
    <3>1. next = Yield(to, args, T)
      BY <2>2, <2>6
    <3>2. Steps(Yield(to, args, T), Ahead(to, args, r), args, r, S, T)
      BY <2>6, YieldSteps
    <3>. QED
      BY <2>6, <3>1, <3>2 DEF next, A
  <2>7. CASE moved.out = "ChunkNotFound" /\ ~(NodesUnder(r) \subseteq T)
    <3>1. next.out = "ChunkNotFound"
      BY <2>2, <2>7 DEF Outcome
    <3>2. ~(ChunksUnder(r) \subseteq T)
      BY <2>7, ChunksOf
    <3>. QED
      BY <3>1, <3>2 DEF Steps, next
  <2>. QED
    BY <2>4, <2>5, <2>6, <2>7
<1>. QED
  BY <1>1, <1>2, <1>3
=============================================================================
