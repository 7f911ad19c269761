----------------------------- MODULE NodeProofs -----------------------------
(***************************************************************************)
(* What the operators on one node return, for nodes of any size, under any *)
(* fanout and over any set of chunks: non-empty nodes of the same level,   *)
(* whose references stay where they were or go to the nodes just made.     *)
(* The second part is about nodes as sets of slots, and about what is      *)
(* stored below them.                                                      *)
(***************************************************************************)
EXTENDS Node, TLAPS, SequenceTheorems, FiniteSetTheorems

(***************************************************************************)
(* Sequences.                                                              *)
(***************************************************************************)
\* A non-empty set of naturals has a least element, as Min chooses it: of
\* the intervals below its elements one is smallest.
LEMMA LeastNatural ==
  ASSUME NEW T \in SUBSET Nat, T # {}
  PROVE  Min(T) \in T /\ \A u \in T : Min(T) =< u
<1>. DEFINE Below == {1..t : t \in T}
<1>1. Below \subseteq FiniteSubsetsOf(Nat) /\ Below # {}
  <2>1. \A t \in T : IsFiniteSet(1..t) /\ 1..t \subseteq Nat
    BY FS_Interval
  <2>. QED
    BY <2>1 DEF FiniteSubsetsOf
<1>2. PICK x \in Below : \A y \in Below : <<y, x>> \notin StrictSubsetOrdering(Nat)
  <2>. HIDE DEF Below
  <2>1. IsWellFoundedOn(StrictSubsetOrdering(Nat), FiniteSubsetsOf(Nat))
    BY FS_StrictSubsetOrderingWellFounded
  <2>. QED
    BY <1>1, <2>1, WFMin, Zenon
<1>3. PICK t \in T : x = 1..t
  BY <1>2
<1>4. ASSUME NEW u \in T, u < t
      PROVE  FALSE
  <2>1. 1..u \in Below /\ 1..u \subseteq 1..t
    BY <1>4
  <2>2. t \in 1..t /\ t \notin 1..u
    BY <1>4
  <2>3. 1..u # 1..t
    BY <2>2
  <2>4. <<1..u, 1..t>> \in StrictSubsetOrdering(Nat)
    BY <2>1, <2>3 DEF StrictSubsetOrdering
  <2>. QED
    BY <1>2, <1>3, <2>1, <2>4
<1>5. \A u \in T : t =< u
  BY <1>4
<1>6. \E s \in T : \A u \in T : s =< u
  BY <1>5
<1>. QED
  BY <1>6 DEF Min

\* Concatenation stays over the same elements and adds the lengths (a merge).
LEMMA ConcatSeq ==
  ASSUME NEW E, NEW s \in Seq(E), NEW t \in Seq(E)
  PROVE  /\ s \o t \in Seq(E)
         /\ Len(s \o t) = Len(s) + Len(t)
  BY ConcatProperties

\* A part of a sequence is over the same elements (the halves of a split).
LEMMA SubSeqSeq ==
  ASSUME NEW E, NEW s \in Seq(E), NEW m \in 1..(Len(s) + 1), NEW n \in 0..Len(s)
  PROVE  /\ SubSeq(s, m, n) \in Seq(E)
         /\ Len(SubSeq(s, m, n)) = IF m <= n THEN n - m + 1 ELSE 0
<1>1. \A i \in m..n : s[i] \in E
  BY ElementOfSeq
<1>. QED
  BY <1>1, SubSeqProperties

\* One element makes a sequence of length one.
LEMMA SingletonSeq ==
  ASSUME NEW E, NEW e \in E
  PROVE  <<e>> \in Seq(E) /\ Len(<<e>>) = 1
  OBVIOUS

\* Vec::insert keeps the element type and adds one.
LEMMA InsertAtSeq ==
  ASSUME NEW E, NEW s \in Seq(E), NEW i \in 1..(Len(s) + 1), NEW e \in E
  PROVE  /\ InsertAt(s, i, e) \in Seq(E)
         /\ Len(InsertAt(s, i, e)) = Len(s) + 1
<1>. DEFINE before == SubSeq(s, 1, i - 1)
            after == SubSeq(s, i, Len(s))
<1>1. Len(s) \in Nat
  BY LenProperties
<1>2. before \in Seq(E) /\ Len(before) = i - 1
  BY <1>1, SubSeqSeq
<1>3. after \in Seq(E) /\ Len(after) = Len(s) - i + 1
  BY <1>1, SubSeqSeq
<1>4. InsertAt(s, i, e) = before \o <<e>> \o after
  BY DEF InsertAt
<1>. HIDE DEF before, after
<1>5. before \o <<e>> \in Seq(E) /\ Len(before \o <<e>>) = i
  BY <1>1, <1>2, SingletonSeq, ConcatSeq
<1>. QED
  BY <1>1, <1>3, <1>4, <1>5, ConcatSeq

\* Vec::remove keeps the element type and takes one away.
LEMMA RemoveAtSeq ==
  ASSUME NEW E, NEW s \in Seq(E), NEW i \in 1..Len(s)
  PROVE  /\ RemoveAt(s, i) \in Seq(E)
         /\ Len(RemoveAt(s, i)) = Len(s) - 1
<1>. DEFINE before == SubSeq(s, 1, i - 1)
            after == SubSeq(s, i + 1, Len(s))
<1>1. Len(s) \in Nat
  BY LenProperties
<1>2. before \in Seq(E) /\ Len(before) = i - 1
  BY <1>1, SubSeqSeq
<1>3. after \in Seq(E) /\ Len(after) = Len(s) - i
  BY <1>1, SubSeqSeq
<1>4. RemoveAt(s, i) = before \o after
  BY DEF RemoveAt
<1>. HIDE DEF before, after
<1>5. before \o after \in Seq(E) /\ Len(before \o after) = Len(before) + Len(after)
  BY <1>2, <1>3, ConcatSeq
<1>6. Len(before) + Len(after) = Len(s) - 1
  BY <1>1, <1>2, <1>3
<1>. QED
  BY <1>4, <1>5, <1>6

\* Length, domain and elements of a sequence.
LEMMA ElementsOfSeq ==
  ASSUME NEW E, NEW s \in Seq(E)
  PROVE  /\ Len(s) \in Nat
         /\ DOMAIN s = 1..Len(s)
         /\ \A i \in DOMAIN s : s[i] \in E
         /\ s # <<>> <=> Len(s) > 0
  BY LenProperties, EmptySeq, ElementOfSeq

\* A sequence whose elements lie in a smaller set is one over that set.
LEMMA SeqWithin ==
  ASSUME NEW E, NEW D, NEW s \in Seq(E), \A i \in DOMAIN s : s[i] \in D
  PROVE  s \in Seq(D)
<1>1. Len(s) \in Nat /\ s \in [1..Len(s) -> D]
  BY LenProperties
<1>. QED
  BY <1>1, SeqDef

\* The last element of a non-empty sequence is one of its elements.
LEMMA LastOfSeq ==
  ASSUME NEW E, NEW s \in Seq(E) \ {<<>>}
  PROVE  Last(s) \in E
<1>1. Len(s) \in DOMAIN s
  BY ElementsOfSeq
<1>. QED
  BY <1>1, ElementsOfSeq DEF Last
-----------------------------------------------------------------------------
(***************************************************************************)
(* Nodes, the slots they hold, and the entries a parent keeps for them.    *)
(***************************************************************************)
\* The nodes over S whose children are one level below them, and whose entries
\* repeat what those children say.
BalancedOver(S) ==
  {n \in LeavesOver(S) \cup InternalsOver(S) : ChildrenOneLevelDown(n) /\ EntriesUpToDate(n)}

\* The entries of a node of level l.
EntriesBelow(S, l) ==
  {e \in InternalEntries(S) : Level(e.child_hash) + 1 = l /\ e = EntryFor(e.child_hash)}

SlotsOver(n, S) ==
  IF n.kind = "Leaf" THEN LeafEntries(S) ELSE EntriesBelow(S, n.level)

\* Closed under references, every internal node one level above its children
\* and with entries that repeat what they say.
Sound(S) == S \subseteq DataChunks \cup BalancedOver(S)

\* Entries over a store are entries over a larger one.
LEMMA EntriesMonotone ==
  ASSUME NEW S, NEW T, S \subseteq T, NEW l
  PROVE  /\ LeafEntries(S) \subseteq LeafEntries(T)
         /\ InternalEntries(S) \subseteq InternalEntries(T)
         /\ EntriesBelow(S, l) \subseteq EntriesBelow(T, l)
<1>2. NodesIn(S) \subseteq NodesIn(T)
  BY DEF NodesIn
<1>3. LeafEntries(S) \subseteq LeafEntries(T)
  BY DEF LeafEntries
<1>4. InternalEntries(S) \subseteq InternalEntries(T)
  BY <1>2 DEF InternalEntries
<1>. QED
  BY <1>3, <1>4 DEF EntriesBelow

\* A balanced node is a leaf or an internal node, with its level and slots accordingly.
LEMMA NodeKinds ==
  ASSUME NEW S, NEW n \in BalancedOver(S)
  PROVE  /\ IsNode(n)
         /\ n.kind = "Leaf" => /\ n = Leaf(n.entries)
                               /\ n.entries \in Seq(LeafEntries(S)) \ {<<>>}
         /\ n.kind = "Internal" => /\ n = Internal(n.level, n.children)
                                   /\ n.level \in Nat \ {0}
                                   /\ n.children \in Seq(EntriesBelow(S, n.level)) \ {<<>>}
         /\ Level(n) \in Nat
         /\ Slots(n) \in Seq(SlotsOver(n, S)) \ {<<>>}
<1>1. IsNode(n)
  BY DEF BalancedOver, LeavesOver, InternalsOver, IsNode
<1>2. ASSUME n.kind = "Leaf"
      PROVE  n = Leaf(n.entries) /\ n.entries \in Seq(LeafEntries(S)) \ {<<>>}
  BY <1>2 DEF BalancedOver, LeavesOver, InternalsOver, Leaf
<1>3. ASSUME n.kind = "Internal"
      PROVE  /\ n = Internal(n.level, n.children)
             /\ n.level \in Nat \ {0}
             /\ n.children \in Seq(EntriesBelow(S, n.level)) \ {<<>>}
  <2>1. n \in InternalsOver(S) /\ ChildrenOneLevelDown(n) /\ EntriesUpToDate(n)
    BY <1>3 DEF BalancedOver, LeavesOver
  <2>2. /\ n = Internal(n.level, n.children)
        /\ n.level \in Nat \ {0}
        /\ n.children \in Seq(InternalEntries(S)) \ {<<>>}
    BY <2>1 DEF InternalsOver, Internal
  <2>3. \A i \in DOMAIN n.children : n.children[i] \in EntriesBelow(S, n.level)
    BY <1>3, <2>1, <2>2, ElementsOfSeq
    DEF EntriesBelow, ChildrenOneLevelDown, EntriesUpToDate
  <2>4. n.children \in Seq(EntriesBelow(S, n.level))
    BY <2>2, <2>3, ElementsOfSeq, SeqWithin
  <2>. QED
    BY <2>2, <2>4
<1>. QED
  BY <1>1, <1>2, <1>3 DEF IsNode, Level, Slots, SlotsOver

\* A non-empty list of leaf entries over S makes a balanced leaf over S.
LEMMA LeafOver ==
  ASSUME NEW S, NEW entries \in Seq(LeafEntries(S)) \ {<<>>}
  PROVE  Leaf(entries) \in BalancedOver(S) /\ Level(Leaf(entries)) = 0
  BY DEF Leaf, Level, BalancedOver, LeavesOver, ChildrenOneLevelDown, EntriesUpToDate

\* Entries for nodes one level down make a balanced internal node over S.
LEMMA InternalOver ==
  ASSUME NEW S, NEW l \in Nat \ {0}, NEW children \in Seq(EntriesBelow(S, l)) \ {<<>>}
  PROVE  Internal(l, children) \in BalancedOver(S) /\ Level(Internal(l, children)) = l
<1>1. EntriesBelow(S, l) \subseteq InternalEntries(S)
  BY DEF EntriesBelow
<1>2. children \in Seq(InternalEntries(S)) \ {<<>>}
  BY <1>1, SeqMonotonic
<1>3. \A i \in DOMAIN children : /\ Level(children[i].child_hash) + 1 = l
                                /\ children[i] = EntryFor(children[i].child_hash)
  BY ElementsOfSeq DEF EntriesBelow
<1>. QED
  BY <1>2, <1>3
  DEF Internal, Level, BalancedOver, InternalsOver, ChildrenOneLevelDown, EntriesUpToDate

\* Rebuilding a node with other slots keeps its kind and its level.
LEMMA WithSlotsOver ==
  ASSUME NEW S, NEW n \in BalancedOver(S), NEW T,
         NEW slots \in Seq(SlotsOver(n, T)) \ {<<>>}
  PROVE  /\ WithSlots(n, slots) \in BalancedOver(T)
         /\ Level(WithSlots(n, slots)) = Level(n)
         /\ Slots(WithSlots(n, slots)) = slots
<1>1. CASE n.kind = "Leaf"
  BY <1>1, LeafOver DEF SlotsOver, WithSlots, Level, Slots, Leaf
<1>2. CASE n.kind = "Internal"
  BY <1>2, NodeKinds, InternalOver DEF SlotsOver, WithSlots, Level, Slots, Internal
<1>. QED
  BY <1>1, <1>2, NodeKinds DEF IsNode

\* Growing the set of chunks a node may refer to.
LEMMA BalancedMonotone ==
  ASSUME NEW S, NEW T, S \subseteq T
  PROVE  BalancedOver(S) \subseteq BalancedOver(T)
<1>. SUFFICES ASSUME NEW n \in BalancedOver(S)
              PROVE  n \in BalancedOver(T)
  OBVIOUS
<1>1. CASE n.kind = "Leaf"
  <2>1. n = Leaf(n.entries) /\ n.entries \in Seq(LeafEntries(S)) \ {<<>>}
    BY <1>1, NodeKinds
  <2>2. LeafEntries(S) \subseteq LeafEntries(T)
    BY EntriesMonotone
  <2>3. n.entries \in Seq(LeafEntries(T)) \ {<<>>}
    BY <2>1, <2>2, SeqMonotonic
  <2>. QED
    BY <2>1, <2>3, LeafOver
<1>2. CASE n.kind = "Internal"
  <2>1. /\ n = Internal(n.level, n.children)
        /\ n.level \in Nat \ {0}
        /\ n.children \in Seq(EntriesBelow(S, n.level)) \ {<<>>}
    BY <1>2, NodeKinds
  <2>2. EntriesBelow(S, n.level) \subseteq EntriesBelow(T, n.level)
    BY EntriesMonotone
  <2>3. n.children \in Seq(EntriesBelow(T, n.level)) \ {<<>>}
    BY <2>1, <2>2, SeqMonotonic
  <2>. QED
    BY <2>1, <2>3, InternalOver
<1>. QED
  BY <1>1, <1>2, NodeKinds DEF IsNode

\* What ChildItems counts: a pair for each item of each child.
ItemPairs(children) ==
  UNION {{i} \X (1..children[i].num_items_subtree) : i \in DOMAIN children}

\* A node has finitely many children, and each finitely many items.
LEMMA ItemPairsFinite ==
  ASSUME NEW S, NEW children \in Seq(InternalEntries(S))
  PROVE  IsFiniteSet(ItemPairs(children))
<1>. DEFINE items(i) == {i} \X (1..children[i].num_items_subtree)
            parts == {items(i) : i \in DOMAIN children}
<1>1. IsFiniteSet(DOMAIN children)
  BY ElementsOfSeq, FS_Interval
<1>2. ASSUME NEW i \in DOMAIN children
      PROVE  IsFiniteSet(items(i))
  <2>1. children[i] \in InternalEntries(S)
    BY ElementsOfSeq
  <2>2. children[i].num_items_subtree \in Int
    BY <2>1 DEF InternalEntries
  <2>3. IsFiniteSet(1..children[i].num_items_subtree)
    BY <2>2, FS_Interval
  <2>4. IsFiniteSet({i})
    BY FS_Singleton
  <2>. QED
    BY <2>3, <2>4, FS_Product
<1>3. IsFiniteSet(parts)
  <2>. DEFINE f == [i \in DOMAIN children |-> items(i)]
  <2>. HIDE DEF items
  <2>1. f \in [DOMAIN children -> parts]
    OBVIOUS
  <2>2. \A p \in parts : \E i \in DOMAIN children : f[i] = p
    OBVIOUS
  <2>3. f \in Surjection(DOMAIN children, parts)
    BY <2>1, <2>2 DEF Surjection
  <2>. HIDE DEF f, parts
  <2>. QED
    BY <1>1, <2>3, FS_Surjection
<1>4. IsFiniteSet(UNION parts)
  BY <1>2, <1>3, FS_UNION
<1>. QED
  BY <1>4 DEF ItemPairs

\* The counter of an internal node is a number.
LEMMA ChildItemsNat ==
  ASSUME NEW S, NEW children \in Seq(InternalEntries(S))
  PROVE  ChildItems(children) \in Nat
  BY ItemPairsFinite, FS_CardinalityType DEF ChildItems, ItemPairs

\* The counter of two lists of children is the sum of theirs (a merge).
LEMMA ChildItemsConcat ==
  ASSUME NEW S, NEW a \in Seq(InternalEntries(S)), NEW b \in Seq(InternalEntries(S))
  PROVE  ChildItems(a \o b) = ChildItems(a) + ChildItems(b)
<1>. DEFINE shifted == {<<p[1] + Len(a), p[2]>> : p \in ItemPairs(b)}
            f == [p \in ItemPairs(b) |-> <<p[1] + Len(a), p[2]>>]
<1>1. /\ Len(a) \in Nat /\ DOMAIN a = 1..Len(a)
      /\ Len(b) \in Nat /\ DOMAIN b = 1..Len(b)
      /\ DOMAIN (a \o b) = 1..(Len(a) + Len(b))
  BY ElementsOfSeq, ConcatProperties
<1>2. \A i \in 1..(Len(a) + Len(b)) : (a \o b)[i] = IF i <= Len(a) THEN a[i] ELSE b[i - Len(a)]
  BY ConcatProperties
\* An item of a \o b is one of a, or one of b under a shifted index.
<1>3. ItemPairs(a \o b) = ItemPairs(a) \cup shifted
  <2>1. ASSUME NEW p \in ItemPairs(a \o b)
        PROVE  p \in ItemPairs(a) \cup shifted
    <3>1. PICK i \in 1..(Len(a) + Len(b)) : p \in {i} \X (1..(a \o b)[i].num_items_subtree)
      BY <1>1 DEF ItemPairs
    <3>2. CASE i <= Len(a)
      BY <1>1, <1>2, <3>1, <3>2 DEF ItemPairs
    <3>3. CASE ~(i <= Len(a))
      <4>1. i - Len(a) \in DOMAIN b /\ (a \o b)[i] = b[i - Len(a)]
        BY <1>1, <1>2, <3>3
      <4>2. /\ p = <<i, p[2]>>
            /\ <<i - Len(a), p[2]>> \in {i - Len(a)} \X (1..b[i - Len(a)].num_items_subtree)
        BY <3>1, <4>1
      <4>3. <<i - Len(a), p[2]>> \in ItemPairs(b)
        BY <4>1, <4>2 DEF ItemPairs
      <4>4. (i - Len(a)) + Len(a) = i
        BY <1>1
      <4>. QED
        BY <4>2, <4>3, <4>4
    <3>. QED
      BY <3>2, <3>3
  <2>2. ASSUME NEW p \in ItemPairs(a)
        PROVE  p \in ItemPairs(a \o b)
    <3>1. PICK i \in DOMAIN a : p \in {i} \X (1..a[i].num_items_subtree)
      BY DEF ItemPairs
    <3>2. i \in DOMAIN (a \o b) /\ (a \o b)[i] = a[i]
      BY <1>1, <1>2
    <3>. QED
      BY <3>1, <3>2 DEF ItemPairs
  <2>3. ASSUME NEW p \in ItemPairs(b)
        PROVE  <<p[1] + Len(a), p[2]>> \in ItemPairs(a \o b)
    <3>1. PICK i \in DOMAIN b : p \in {i} \X (1..b[i].num_items_subtree)
      BY DEF ItemPairs
    <3>2. i + Len(a) \in DOMAIN (a \o b) /\ (a \o b)[i + Len(a)] = b[i]
      BY <1>1, <1>2
    <3>. QED
      BY <3>1, <3>2 DEF ItemPairs
  <2>. QED
    BY <2>1, <2>2, <2>3
<1>4. ItemPairs(a) \cap shifted = {}
  <2>1. \A p \in ItemPairs(a) : p[1] \in 1..Len(a)
    BY <1>1 DEF ItemPairs
  <2>2. \A p \in ItemPairs(b) : p[1] \in 1..Len(b)
    BY <1>1 DEF ItemPairs
  <2>. QED
    BY <1>1, <2>1, <2>2
<1>5. IsFiniteSet(ItemPairs(a)) /\ IsFiniteSet(ItemPairs(b))
  BY ItemPairsFinite
<1>6. IsFiniteSet(shifted) /\ Cardinality(shifted) = Cardinality(ItemPairs(b))
  <2>1. \A p \in ItemPairs(b) : p = <<p[1], p[2]>> /\ p[1] \in Nat
    BY <1>1 DEF ItemPairs
  <2>2. ASSUME NEW p \in ItemPairs(b), NEW q \in ItemPairs(b), f[p] = f[q]
        PROVE  p = q
    <3>1. <<p[1] + Len(a), p[2]>> = <<q[1] + Len(a), q[2]>>
      BY <2>2
    <3>2. p[1] + Len(a) = q[1] + Len(a) /\ p[2] = q[2]
      BY <3>1
    <3>3. p[1] = q[1]
      BY <1>1, <2>1, <3>2
    <3>4. p = <<p[1], p[2]>> /\ q = <<q[1], q[2]>>
      BY <2>1
    <3>. QED
      BY <3>2, <3>3, <3>4
  <2>3. f \in [ItemPairs(b) -> shifted] /\ \A s \in shifted : \E p \in ItemPairs(b) : f[p] = s
    OBVIOUS
  <2>. HIDE DEF f, shifted
  <2>4. f \in Bijection(ItemPairs(b), shifted)
    BY <2>2, <2>3 DEF Bijection, Injection, IsInjective, Surjection
  <2>. QED
    BY <1>5, <2>4, FS_Bijection DEF ExistsBijection
<1>7. Cardinality(ItemPairs(a) \cup shifted)
        = Cardinality(ItemPairs(a)) + Cardinality(shifted)
  <2>. HIDE DEF shifted
  <2>1. Cardinality(ItemPairs(a)) \in Nat /\ Cardinality(shifted) \in Nat
    BY <1>5, <1>6, FS_CardinalityType
  <2>2. Cardinality(ItemPairs(a) \cup shifted)
          = Cardinality(ItemPairs(a)) + Cardinality(shifted)
              - Cardinality(ItemPairs(a) \cap shifted)
    BY <1>5, <1>6, FS_Union
  <2>3. Cardinality(ItemPairs(a) \cap shifted) = 0
    BY <1>4, FS_EmptySet
  <2>. QED
    BY <2>1, <2>2, <2>3
<1>. HIDE DEF shifted
<1>8. /\ ChildItems(a \o b) = Cardinality(ItemPairs(a \o b))
      /\ ChildItems(a) = Cardinality(ItemPairs(a))
      /\ ChildItems(b) = Cardinality(ItemPairs(b))
  BY DEF ChildItems, ItemPairs
<1>. QED
  BY <1>3, <1>6, <1>7, <1>8

\* The entry a parent keeps for a stored node.
LEMMA EntryForOver ==
  ASSUME NEW S, NEW n \in BalancedOver(S), NEW T, n \in T
  PROVE  EntryFor(n) \in EntriesBelow(T, Level(n) + 1)
<1>1. BoundaryKey(n) \in Keys
  <2>1. CASE n.kind = "Leaf"
    <3>1. Last(n.entries) \in LeafEntries(S)
      BY <2>1, NodeKinds, LastOfSeq
    <3>. QED
      BY <2>1, <3>1 DEF BoundaryKey, LeafEntries
  <2>2. CASE n.kind = "Internal"
    <3>1. Last(n.children) \in EntriesBelow(S, n.level)
      BY <2>2, NodeKinds, LastOfSeq
    <3>. QED
      BY <2>2, <3>1 DEF BoundaryKey, EntriesBelow, InternalEntries
  <2>. QED
    BY <2>1, <2>2, NodeKinds DEF IsNode
<1>2. ItemCount(n) \in Nat
  <2>1. CASE n.kind = "Leaf"
    BY <2>1, NodeKinds, ElementsOfSeq DEF ItemCount
  <2>2. CASE n.kind = "Internal"
    <3>1. n.children \in Seq(EntriesBelow(S, n.level))
      BY <2>2, NodeKinds
    <3>2. n.children \in Seq(InternalEntries(S))
      BY <3>1, SeqMonotonic DEF EntriesBelow
    <3>. QED
      BY <2>2, <3>2, ChildItemsNat DEF ItemCount
  <2>. QED
    BY <2>1, <2>2, NodeKinds DEF IsNode
<1>3. n \in NodesIn(T)
  BY NodeKinds DEF NodesIn
<1>4. EntryFor(n) \in InternalEntries(T) /\ EntryFor(n).child_hash = n
  BY <1>1, <1>2, <1>3 DEF EntryFor, InternalEntries
<1>. QED
  BY <1>4 DEF EntriesBelow
-----------------------------------------------------------------------------
(***************************************************************************)
(* Searching.                                                              *)
(***************************************************************************)
\* Counting the slots that satisfy a condition gives a position.
LEMMA CountedSlots ==
  ASSUME NEW n \in Nat, NEW T \in SUBSET (1..n)
  PROVE  /\ Cardinality(T) \in 0..n
         /\ T # 1..n => Cardinality(T) < n
<1>1. IsFiniteSet(1..n) /\ Cardinality(1..n) = n
  BY FS_Interval
<1>2. /\ IsFiniteSet(T)
      /\ Cardinality(T) <= n
      /\ n = Cardinality(T) => 1..n = T
  BY <1>1, FS_Subset
<1>3. Cardinality(T) \in Nat
  BY <1>2, FS_CardinalityType
<1>. QED
  BY <1>2, <1>3

\* The position a key is searched or inserted at is in the leaf or just after it.
LEMMA KeyPositionRange ==
  ASSUME NEW S, NEW entries \in Seq(LeafEntries(S)), NEW k \in Int
  PROVE  /\ KeyPosition(entries, k) \in 1..(Len(entries) + 1)
         /\ HasKey(entries, k) => KeyPosition(entries, k) \in 1..Len(entries)
<1>. DEFINE below == {i \in DOMAIN entries : entries[i].key < k}
<1>1. Len(entries) \in Nat /\ DOMAIN entries = 1..Len(entries)
  BY ElementsOfSeq
<1>2. /\ Cardinality(below) \in 0..Len(entries)
      /\ below # 1..Len(entries) => Cardinality(below) < Len(entries)
  <2>1. below \in SUBSET (1..Len(entries))
    BY <1>1
  <2>. HIDE DEF below
  <2>. QED
    BY <1>1, <2>1, CountedSlots
<1>3. HasKey(entries, k) => below # 1..Len(entries)
  <2>. SUFFICES ASSUME HasKey(entries, k)
                PROVE  below # 1..Len(entries)
    OBVIOUS
  <2>1. PICK i \in DOMAIN entries : entries[i].key = k
    BY DEF HasKey
  <2>2. ~(entries[i].key < k)
    BY <2>1
  <2>. QED
    BY <1>1, <2>1, <2>2
<1>4. KeyPosition(entries, k) = Cardinality(below) + 1
  BY DEF KeyPosition
<1>. HIDE DEF below
<1>. QED
  BY <1>1, <1>2, <1>3, <1>4

\* The position a new sibling is inserted at is among the children or just after.
LEMMA BoundaryPositionRange ==
  ASSUME NEW S, NEW children \in Seq(InternalEntries(S)), NEW k
  PROVE  BoundaryPosition(children, k) \in 1..(Len(children) + 1)
<1>. DEFINE below == {i \in DOMAIN children : children[i].boundary_key < k}
<1>1. Len(children) \in Nat /\ DOMAIN children = 1..Len(children)
  BY ElementsOfSeq
<1>2. Cardinality(below) \in 0..Len(children)
  <2>1. below \in SUBSET (1..Len(children))
    BY <1>1
  <2>. HIDE DEF below
  <2>. QED
    BY <1>1, <2>1, CountedSlots
<1>3. BoundaryPosition(children, k) = Cardinality(below) + 1
  BY DEF BoundaryPosition
<1>. HIDE DEF below
<1>. QED
  BY <1>1, <1>2, <1>3

\* A descent always finds a child to go to.
LEMMA ChildIndexRange ==
  ASSUME NEW E, NEW children \in Seq(E) \ {<<>>}, NEW k
  PROVE  ChildIndex(children, k) \in DOMAIN children
<1>. DEFINE covering == {i \in DOMAIN children : k <= children[i].boundary_key}
<1>1. Len(children) \in DOMAIN children /\ DOMAIN children \subseteq Nat
  BY ElementsOfSeq
<1>2. CASE covering = {}
  BY <1>1, <1>2 DEF ChildIndex
<1>3. CASE covering # {}
  <2>1. covering \in SUBSET Nat
    BY <1>1
  <2>2. Min(covering) \in covering
    <3>. HIDE DEF covering
    <3>. QED
      BY <1>3, <2>1, LeastNatural
  <2>. QED
    BY <1>3, <2>2 DEF ChildIndex
<1>. QED
  BY <1>2, <1>3
-----------------------------------------------------------------------------
(***************************************************************************)
(* Changing one node.                                                      *)
(***************************************************************************)
\* A stored value refers to the data chunks of the value.
LEMMA ValueReprChunks ==
  ASSUME NEW v \in Values
  PROVE  ReprChunks(ValueRepr(v)) = ValueChunks(v)
<1>. DEFINE hashes == [i \in DOMAIN Cdc[v] |-> Data(Cdc[v][i])]
<1>1. Cdc[v] \in Seq(Bytes) /\ DOMAIN Cdc[v] = 1..Len(Cdc[v])
  BY CdcAssumption, ElementsOfSeq
<1>2. CASE Cdc[v] = <<>>
  <2>1. ToSet(Cdc[v]) = {}
    BY <1>2 DEF ToSet
  <2>2. ReprChunks(ValueRepr(v)) = {}
    BY <1>2 DEF ValueRepr, Inline, ReprChunks
  <2>. QED
    BY <2>1, <2>2 DEF ValueChunks
<1>3. CASE Cdc[v] # <<>>
  <2>1. ReprChunks(ValueRepr(v)) = ToSet(hashes)
    BY <1>3 DEF ValueRepr, Chunked, ReprChunks
  <2>2. ToSet(hashes) = {Data(Cdc[v][i]) : i \in DOMAIN Cdc[v]}
    BY DEF ToSet
  <2>3. ValueChunks(v) = {Data(Cdc[v][i]) : i \in DOMAIN Cdc[v]}
    BY DEF ValueChunks, ToSet
  <2>. QED
    BY <2>1, <2>2, <2>3
<1>. QED
  BY <1>2, <1>3

\* Reading what an insert stored for a value returns that value.
LEMMA ValueRoundTrip ==
  ASSUME NEW v \in Values
  PROVE  ValueOf(ValueRepr(v)) = v
<1>. DEFINE hashes == [i \in DOMAIN Cdc[v] |-> Data(Cdc[v][i])]
<1>1. CASE Cdc[v] = <<>>
  BY <1>1 DEF ValueRepr, Inline, ValueOf
<1>2. CASE Cdc[v] # <<>>
  <2>1. ValueOf(ValueRepr(v))
          = CHOOSE w \in Values : Cdc[w] = [i \in DOMAIN hashes |-> hashes[i].bytes]
    BY <1>2 DEF ValueRepr, Chunked, ValueOf
  <2>2. Cdc[v] \in Seq(Bytes)
    BY CdcAssumption
  <2>3. Cdc[v] = [i \in DOMAIN Cdc[v] |-> Cdc[v][i]]
    BY <2>2
  <2>4. [i \in DOMAIN hashes |-> hashes[i].bytes] = [i \in DOMAIN Cdc[v] |-> Cdc[v][i]]
    BY DEF Data
  <2>5. [i \in DOMAIN hashes |-> hashes[i].bytes] = Cdc[v]
    BY <2>3, <2>4
  <2>6. \A w \in Values : Cdc[w] = Cdc[v] => w = v
    BY <1>2, CdcAssumption
  <2>. HIDE DEF hashes
  <2>. QED
    BY <2>1, <2>5, <2>6
<1>. QED
  BY <1>1, <1>2

\* A leaf may hold a value as soon as the data chunks of the value are stored.
LEMMA ValueReprOver ==
  ASSUME NEW v \in Values, NEW S, ValueChunks(v) \subseteq S, NEW k \in Keys
  PROVE  [key |-> k, value |-> ValueRepr(v)] \in LeafEntries(S)
  BY ValueReprChunks DEF LeafEntries

\* Inserting or replacing an entry leaves a non-empty list over the same store.
LEMMA UpsertOver ==
  ASSUME NEW S, NEW entries \in Seq(LeafEntries(S)), NEW k \in Keys,
         NEW repr, [key |-> k, value |-> repr] \in LeafEntries(S)
  PROVE  Upsert(entries, k, repr) \in Seq(LeafEntries(S)) \ {<<>>}
<1>. DEFINE p == KeyPosition(entries, k)
<1>1. CASE HasKey(entries, k)
  <2>1. p \in 1..Len(entries)
    BY <1>1, KeyPositionRange, KeysAssumption
  <2>2. entries[p] \in LeafEntries(S)
    BY <2>1, ElementOfSeq
  <2>3. [entries[p] EXCEPT !.value = repr] \in LeafEntries(S)
    BY <2>2 DEF LeafEntries
  <2>4. Upsert(entries, k, repr) = [entries EXCEPT ![p] = [entries[p] EXCEPT !.value = repr]]
    BY <1>1 DEF Upsert
  <2>. HIDE DEF p
  <2>5. /\ Upsert(entries, k, repr) \in Seq(LeafEntries(S))
        /\ Len(Upsert(entries, k, repr)) = Len(entries)
    BY <2>1, <2>3, <2>4, ExceptSeq
  <2>. QED
    BY <2>1, <2>5, ElementsOfSeq
<1>2. CASE ~HasKey(entries, k)
  <2>1. p \in 1..(Len(entries) + 1)
    BY KeyPositionRange, KeysAssumption
  <2>2. Upsert(entries, k, repr) = InsertAt(entries, p, [key |-> k, value |-> repr])
    BY <1>2 DEF Upsert
  <2>. HIDE DEF p
  <2>3. /\ Upsert(entries, k, repr) \in Seq(LeafEntries(S))
        /\ Len(Upsert(entries, k, repr)) = Len(entries) + 1
    BY <2>1, <2>2, InsertAtSeq
  <2>. QED
    BY <2>3, ElementsOfSeq
<1>. QED
  BY <1>1, <1>2

\* Removing a key that is there leaves entries over the same store.
LEMMA RemoveKeyOver ==
  ASSUME NEW S, NEW entries \in Seq(LeafEntries(S)), NEW k \in Keys, HasKey(entries, k)
  PROVE  RemoveKey(entries, k) \in Seq(LeafEntries(S))
<1>1. KeyPosition(entries, k) \in 1..Len(entries)
  BY KeyPositionRange, KeysAssumption
<1>. QED
  BY <1>1, RemoveAtSeq DEF RemoveKey

\* A split makes one or two nodes of the level of the node it splits, none empty.
LEMMA SplitOver ==
  ASSUME NEW S, NEW n \in BalancedOver(S), NEW c \in Configs
  PROVE  /\ Split(n, c) \in Seq(BalancedOver(S))
         /\ Len(Split(n, c)) \in 1..2
         /\ \A i \in DOMAIN Split(n, c) : Level(Split(n, c)[i]) = Level(n)
<1>. DEFINE slots == Slots(n)
            mid   == Len(slots) \div 2
            left  == SubSeq(slots, 1, mid)
            right == SubSeq(slots, mid + 1, Len(slots))
<1>1. slots \in Seq(SlotsOver(n, S)) \ {<<>>} /\ Len(slots) \in Nat
  BY NodeKinds, ElementsOfSeq
<1>2. CASE Len(slots) > c.target_fanout
  <2>1. Len(slots) >= 2
    BY <1>1, <1>2, ConfigsAssumption
  <2>2. mid \in 1..Len(slots) /\ mid + 1 \in 1..Len(slots)
    BY <1>1, <2>1
  <2>3. left \in Seq(SlotsOver(n, S)) /\ Len(left) > 0
    BY <1>1, <2>2, SubSeqSeq
  <2>4. right \in Seq(SlotsOver(n, S)) /\ Len(right) > 0
    BY <1>1, <2>2, SubSeqSeq
  <2>5. Split(n, c) = <<WithSlots(n, left), WithSlots(n, right)>>
    BY <1>2 DEF Split
  <2>. HIDE DEF left, right
  <2>6. /\ WithSlots(n, left) \in BalancedOver(S)
        /\ Level(WithSlots(n, left)) = Level(n)
    BY <2>3, WithSlotsOver, ElementsOfSeq
  <2>7. /\ WithSlots(n, right) \in BalancedOver(S)
        /\ Level(WithSlots(n, right)) = Level(n)
    BY <2>4, WithSlotsOver, ElementsOfSeq
  <2>. QED
    BY <2>5, <2>6, <2>7
<1>3. CASE ~(Len(slots) > c.target_fanout)
  <2>1. Split(n, c) = <<n>>
    BY <1>3 DEF Split
  <2>. QED
    BY <2>1
<1>. QED
  BY <1>2, <1>3

\* An internal node takes one or two entries in place of the one it descended by.
LEMMA AfterInsertOver ==
  ASSUME NEW S, NEW l,
         NEW children \in Seq(EntriesBelow(S, l)), NEW i \in DOMAIN children,
         NEW update \in Seq(EntriesBelow(S, l)), Len(update) \in 1..2
  PROVE  AfterInsert(children, i, update) \in Seq(EntriesBelow(S, l)) \ {<<>>}
<1>. DEFINE rewritten == [children EXCEPT ![i] = update[1]]
<1>1. update[1] \in EntriesBelow(S, l)
  BY ElementsOfSeq
<1>2. rewritten \in Seq(EntriesBelow(S, l)) /\ Len(rewritten) = Len(children)
  BY <1>1, ElementsOfSeq, ExceptSeq
<1>3. Len(children) \in Nat \ {0}
  BY ElementsOfSeq
<1>. HIDE DEF rewritten
<1>4. CASE Len(update) = 1
  <2>1. AfterInsert(children, i, update) = rewritten
    BY <1>4 DEF AfterInsert, rewritten
  <2>. QED
    BY <1>2, <1>3, <2>1, ElementsOfSeq
<1>5. CASE Len(update) = 2
  <2>. DEFINE p == BoundaryPosition(rewritten, update[2].boundary_key)
  <2>1. AfterInsert(children, i, update) = InsertAt(rewritten, p, update[2])
    BY <1>5 DEF AfterInsert, rewritten
  <2>2. update[2] \in EntriesBelow(S, l)
    BY <1>5, ElementsOfSeq
  <2>3. p \in 1..(Len(rewritten) + 1)
    <3>1. rewritten \in Seq(InternalEntries(S))
      BY <1>2, SeqMonotonic DEF EntriesBelow
    <3>. QED
      BY <3>1, BoundaryPositionRange
  <2>. HIDE DEF p
  <2>4. /\ InsertAt(rewritten, p, update[2]) \in Seq(EntriesBelow(S, l))
        /\ Len(InsertAt(rewritten, p, update[2])) = Len(rewritten) + 1
    BY <1>2, <2>2, <2>3, InsertAtSeq
  <2>. QED
    BY <1>2, <1>3, <2>1, <2>4, ElementsOfSeq
<1>. QED
  BY <1>4, <1>5
-----------------------------------------------------------------------------
(***************************************************************************)
(* Repairing a child that holds too few slots.  M is the set of the nodes  *)
(* made anew; the siblings that are rewritten are of one kind, because     *)
(* they are at one level.                                                  *)
(***************************************************************************)
LEMMA ChildOver ==
  ASSUME NEW S, Sound(S), NEW e \in InternalEntries(S)
  PROVE  e.child_hash \in BalancedOver(S)
  BY DEF InternalEntries, NodesIn, IsNode, Sound, DataChunks, Data

\* Nodes of one level have slots of one kind, so siblings can lend and merge.
LEMMA SameLevelSameSlots ==
  ASSUME NEW S, NEW m \in BalancedOver(S), NEW n \in BalancedOver(S), Level(m) = Level(n)
  PROVE  SlotsOver(m, S) = SlotsOver(n, S)
  BY NodeKinds DEF IsNode, Level, SlotsOver

\* The slots of child i, and what any child of the list may be rebuilt from.
LEMMA ChildSlots ==
  ASSUME NEW S, Sound(S), NEW l, NEW children \in Seq(EntriesBelow(S, l)),
         NEW i \in DOMAIN children, NEW j \in DOMAIN children
  PROVE  LET m == children[i].child_hash
             n == children[j].child_hash
         IN  /\ m \in BalancedOver(S)
             /\ Level(m) + 1 = l
             /\ Slots(m) \in Seq(SlotsOver(n, S)) \ {<<>>}
<1>1. children[i] \in EntriesBelow(S, l) /\ children[j] \in EntriesBelow(S, l)
  BY ElementsOfSeq
<1>2. /\ children[i].child_hash \in BalancedOver(S)
      /\ children[j].child_hash \in BalancedOver(S)
  BY <1>1, ChildOver DEF EntriesBelow
<1>3. /\ Level(children[i].child_hash) + 1 = l
      /\ Level(children[j].child_hash) + 1 = l
  BY <1>1 DEF EntriesBelow
<1>4. /\ Level(children[i].child_hash) \in Nat
      /\ Level(children[j].child_hash) \in Nat
      /\ Slots(children[i].child_hash) \in Seq(SlotsOver(children[i].child_hash, S)) \ {<<>>}
  BY <1>2, NodeKinds
<1>5. SlotsOver(children[i].child_hash, S) = SlotsOver(children[j].child_hash, S)
  BY <1>2, <1>3, <1>4, SameLevelSameSlots
<1>. QED
  BY <1>2, <1>3, <1>4, <1>5

\* Two children replaced by new nodes of their level.
LEMMA ReplaceTwo ==
  ASSUME NEW S, NEW l, NEW children \in Seq(EntriesBelow(S, l)),
         NEW i \in DOMAIN children, NEW j \in DOMAIN children,
         NEW m \in BalancedOver(S), Level(m) + 1 = l,
         NEW n \in BalancedOver(S), Level(n) + 1 = l
  PROVE  [children EXCEPT ![i] = EntryFor(m), ![j] = EntryFor(n)]
           \in Seq(EntriesBelow(S \cup {m, n}, l)) \ {<<>>}
<1>. DEFINE T == S \cup {m, n}
            once == [children EXCEPT ![i] = EntryFor(m)]
            twice == [once EXCEPT ![j] = EntryFor(n)]
<1>1. EntriesBelow(S, l) \subseteq EntriesBelow(T, l)
  BY EntriesMonotone
<1>2. children \in Seq(EntriesBelow(T, l))
  BY <1>1, SeqMonotonic
<1>3. EntryFor(m) \in EntriesBelow(T, l) /\ EntryFor(n) \in EntriesBelow(T, l)
  BY EntryForOver
<1>4. i \in 1..Len(children) /\ j \in 1..Len(children) /\ Len(children) \in Nat
  BY ElementsOfSeq
<1>. HIDE DEF T
<1>5. once \in Seq(EntriesBelow(T, l)) /\ Len(once) = Len(children)
  BY <1>2, <1>3, <1>4, ExceptSeq
<1>. HIDE DEF once
<1>6. twice \in Seq(EntriesBelow(T, l)) /\ Len(twice) = Len(children)
  BY <1>3, <1>4, <1>5, ExceptSeq
<1>7. twice # <<>>
  BY <1>4, <1>6, ElementsOfSeq
<1>. QED
  BY <1>6, <1>7 DEF once, T

\* rebalance_borrow_from_left makes balanced nodes and entries of one level.
LEMMA BorrowFromLeftOver ==
  ASSUME NEW S, Sound(S), NEW l, NEW children \in Seq(EntriesBelow(S, l)),
         NEW c \in Configs, NEW i \in DOMAIN children, CanLend(children, i - 1, c)
  PROVE  \E M \in SUBSET BalancedOver(S) :
           BorrowFromLeft(children, i) \in Seq(EntriesBelow(S \cup M, l)) \ {<<>>}
<1>. DEFINE left  == children[i - 1].child_hash
            under == children[i].child_hash
            m == WithSlots(left, Front(Slots(left)))
            n == WithSlots(under, <<Last(Slots(left))>> \o Slots(under))
<1>1. i - 1 \in DOMAIN children /\ NumEntries(left) > c.min_fanout
  BY DEF CanLend
<1>2. /\ left \in BalancedOver(S)
      /\ Level(left) + 1 = l
      /\ Slots(left) \in Seq(SlotsOver(left, S)) \ {<<>>}
      /\ Slots(left) \in Seq(SlotsOver(under, S)) \ {<<>>}
  BY <1>1, ChildSlots
<1>3. /\ under \in BalancedOver(S)
      /\ Level(under) + 1 = l
      /\ Slots(under) \in Seq(SlotsOver(under, S)) \ {<<>>}
  BY ChildSlots
<1>. HIDE DEF left, under
<1>4. Front(Slots(left)) \in Seq(SlotsOver(left, S)) \ {<<>>}
  <2>1. Len(Slots(left)) \in Nat /\ Len(Slots(left)) > 1
    BY <1>1, <1>2, ConfigsAssumption, ElementsOfSeq DEF NumEntries
  <2>2. /\ Front(Slots(left)) \in Seq(SlotsOver(left, S))
        /\ Len(Front(Slots(left))) = Len(Slots(left)) - 1
    BY <1>2, <2>1, SubSeqSeq DEF Front
  <2>. QED
    BY <2>1, <2>2, ElementsOfSeq
<1>5. <<Last(Slots(left))>> \o Slots(under) \in Seq(SlotsOver(under, S)) \ {<<>>}
  <2>1. Last(Slots(left)) \in SlotsOver(under, S)
    BY <1>2, LastOfSeq
  <2>2. /\ <<Last(Slots(left))>> \in Seq(SlotsOver(under, S))
        /\ Len(<<Last(Slots(left))>>) = 1
    BY <2>1, SingletonSeq
  <2>3. /\ <<Last(Slots(left))>> \o Slots(under) \in Seq(SlotsOver(under, S))
        /\ Len(<<Last(Slots(left))>> \o Slots(under)) = 1 + Len(Slots(under))
    BY <1>3, <2>2, ConcatSeq
  <2>. QED
    BY <1>3, <2>3, ElementsOfSeq
<1>6. m \in BalancedOver(S) /\ Level(m) + 1 = l
  BY <1>2, <1>4, WithSlotsOver
<1>7. n \in BalancedOver(S) /\ Level(n) + 1 = l
  BY <1>3, <1>5, WithSlotsOver
<1>8. BorrowFromLeft(children, i) = [children EXCEPT ![i - 1] = EntryFor(m), ![i] = EntryFor(n)]
  BY DEF BorrowFromLeft, left, under
<1>. HIDE DEF m, n
<1>9. [children EXCEPT ![i - 1] = EntryFor(m), ![i] = EntryFor(n)]
        \in Seq(EntriesBelow(S \cup {m, n}, l)) \ {<<>>}
  BY <1>1, <1>6, <1>7, ReplaceTwo
<1>10. {m, n} \in SUBSET BalancedOver(S)
  BY <1>6, <1>7
<1>. QED
  BY <1>8, <1>9, <1>10

\* rebalance_borrow_from_right makes balanced nodes and entries of one level.
LEMMA BorrowFromRightOver ==
  ASSUME NEW S, Sound(S), NEW l, NEW children \in Seq(EntriesBelow(S, l)),
         NEW c \in Configs, NEW i \in DOMAIN children, CanLend(children, i + 1, c)
  PROVE  \E M \in SUBSET BalancedOver(S) :
           BorrowFromRight(children, i) \in Seq(EntriesBelow(S \cup M, l)) \ {<<>>}
<1>. DEFINE under == children[i].child_hash
            right == children[i + 1].child_hash
            m == WithSlots(under, Append(Slots(under), Head(Slots(right))))
            n == WithSlots(right, Tail(Slots(right)))
<1>1. i + 1 \in DOMAIN children /\ NumEntries(right) > c.min_fanout
  BY DEF CanLend
<1>2. /\ right \in BalancedOver(S)
      /\ Level(right) + 1 = l
      /\ Slots(right) \in Seq(SlotsOver(right, S)) \ {<<>>}
      /\ Slots(right) \in Seq(SlotsOver(under, S)) \ {<<>>}
  BY <1>1, ChildSlots
<1>3. /\ under \in BalancedOver(S)
      /\ Level(under) + 1 = l
      /\ Slots(under) \in Seq(SlotsOver(under, S)) \ {<<>>}
  BY ChildSlots
<1>. HIDE DEF right, under
<1>4. Tail(Slots(right)) \in Seq(SlotsOver(right, S)) \ {<<>>}
  <2>. DEFINE rest == Tail(Slots(right))
  <2>1. Len(Slots(right)) \in Nat /\ Len(Slots(right)) > 1
    BY <1>1, <1>2, ConfigsAssumption, ElementsOfSeq DEF NumEntries
  <2>2. /\ rest \in Seq(SlotsOver(right, S))
        /\ Len(rest) = Len(Slots(right)) - 1
    BY <1>2, HeadTailProperties
  <2>. HIDE DEF rest
  <2>3. rest # <<>>
    BY <2>1, <2>2, ElementsOfSeq
  <2>. QED
    BY <2>2, <2>3 DEF rest
<1>5. Append(Slots(under), Head(Slots(right))) \in Seq(SlotsOver(under, S)) \ {<<>>}
  <2>1. Head(Slots(right)) \in SlotsOver(under, S)
    BY <1>2, HeadTailProperties
  <2>. QED
    BY <1>3, <2>1, AppendProperties
<1>6. m \in BalancedOver(S) /\ Level(m) + 1 = l
  BY <1>3, <1>5, WithSlotsOver
<1>7. n \in BalancedOver(S) /\ Level(n) + 1 = l
  BY <1>2, <1>4, WithSlotsOver
<1>8. BorrowFromRight(children, i) = [children EXCEPT ![i] = EntryFor(m), ![i + 1] = EntryFor(n)]
  BY DEF BorrowFromRight, right, under
<1>. HIDE DEF m, n
<1>9. [children EXCEPT ![i] = EntryFor(m), ![i + 1] = EntryFor(n)]
        \in Seq(EntriesBelow(S \cup {m, n}, l)) \ {<<>>}
  BY <1>1, <1>6, <1>7, ReplaceTwo
<1>10. {m, n} \in SUBSET BalancedOver(S)
  BY <1>6, <1>7
<1>. QED
  BY <1>8, <1>9, <1>10

\* A merged node holds as many items as the two nodes it is made of.
LEMMA MergedItems ==
  ASSUME NEW S, NEW m \in BalancedOver(S), NEW n \in BalancedOver(S), Level(m) = Level(n)
  PROVE  ItemCount(WithSlots(m, Slots(m) \o Slots(n))) = ItemCount(m) + ItemCount(n)
<1>1. CASE m.kind = "Leaf"
  <2>1. n.kind = "Leaf"
    BY <1>1, NodeKinds DEF IsNode, Level
  <2>2. m.entries \in Seq(LeafEntries(S)) /\ n.entries \in Seq(LeafEntries(S))
    BY <1>1, <2>1, NodeKinds
  <2>3. Len(m.entries \o n.entries) = Len(m.entries) + Len(n.entries)
    BY <2>2, ConcatSeq
  <2>. QED
    BY <1>1, <2>1, <2>3 DEF ItemCount, WithSlots, Slots, Leaf
<1>2. CASE m.kind = "Internal"
  <2>1. n.kind = "Internal"
    BY <1>2, NodeKinds DEF IsNode, Level
  <2>2. /\ m.children \in Seq(EntriesBelow(S, m.level))
        /\ n.children \in Seq(EntriesBelow(S, n.level))
    BY <1>2, <2>1, NodeKinds
  <2>3. m.children \in Seq(InternalEntries(S)) /\ n.children \in Seq(InternalEntries(S))
    BY <2>2, SeqMonotonic DEF EntriesBelow
  <2>4. ChildItems(m.children \o n.children) = ChildItems(m.children) + ChildItems(n.children)
    BY <2>3, ChildItemsConcat
  <2>. QED
    BY <1>2, <2>1, <2>4 DEF ItemCount, WithSlots, Slots, Internal
<1>. QED
  BY <1>1, <1>2, NodeKinds DEF IsNode

\* A merge makes a balanced node and leaves a non-empty list of entries; the
\* sum of the two old counters is the new node's.
LEMMA MergeWithNextOver ==
  ASSUME NEW S, Sound(S), NEW l, NEW children \in Seq(EntriesBelow(S, l)),
         NEW i \in DOMAIN children, i + 1 \in DOMAIN children
  PROVE  \E M \in SUBSET BalancedOver(S) :
           MergeWithNext(children, i) \in Seq(EntriesBelow(S \cup M, l)) \ {<<>>}
<1>. DEFINE left   == children[i].child_hash
            right  == children[i + 1].child_hash
            merged == WithSlots(left, Slots(left) \o Slots(right))
            entry  == [EntryFor(merged) EXCEPT
                         !.num_items_subtree = children[i].num_items_subtree
                                                 + children[i + 1].num_items_subtree]
            T      == S \cup {merged}
            once   == [children EXCEPT ![i] = entry]
<1>1. /\ left \in BalancedOver(S)
      /\ Level(left) + 1 = l
      /\ Slots(left) \in Seq(SlotsOver(left, S)) \ {<<>>}
  BY ChildSlots
<1>2. Slots(right) \in Seq(SlotsOver(left, S)) \ {<<>>}
  BY ChildSlots
<1>3. children[i].num_items_subtree + children[i + 1].num_items_subtree = ItemCount(merged)
  <2>1. /\ children[i] \in EntriesBelow(S, l) /\ children[i] = EntryFor(left)
        /\ children[i + 1] \in EntriesBelow(S, l) /\ children[i + 1] = EntryFor(right)
    BY ElementsOfSeq DEF EntriesBelow
  <2>2. right \in BalancedOver(S) /\ Level(right) + 1 = l
    BY ChildSlots
  <2>. HIDE DEF left, right
  <2>3. Level(left) = Level(right)
    BY <1>1, <2>2, NodeKinds
  <2>4. ItemCount(merged) = ItemCount(left) + ItemCount(right)
    BY <1>1, <2>2, <2>3, MergedItems
  <2>5. /\ children[i].num_items_subtree = ItemCount(left)
        /\ children[i + 1].num_items_subtree = ItemCount(right)
    BY <2>1 DEF EntryFor
  <2>. QED
    BY <2>4, <2>5
<1>. HIDE DEF left, right
<1>4. Slots(left) \o Slots(right) \in Seq(SlotsOver(left, S)) \ {<<>>}
  <2>1. /\ Slots(left) \o Slots(right) \in Seq(SlotsOver(left, S))
        /\ Len(Slots(left) \o Slots(right)) = Len(Slots(left)) + Len(Slots(right))
    BY <1>1, <1>2, ConcatSeq
  <2>. QED
    BY <1>1, <1>2, <2>1, ElementsOfSeq
<1>5. merged \in BalancedOver(S) /\ Level(merged) + 1 = l
  BY <1>1, <1>4, WithSlotsOver
<1>. HIDE DEF merged
<1>6. EntryFor(merged) \in EntriesBelow(T, l)
  BY <1>5, EntryForOver
<1>7. entry \in EntriesBelow(T, l)
  <2>1. entry = EntryFor(merged)
    BY <1>3 DEF EntryFor
  <2>. QED
    BY <1>6, <2>1
<1>8. EntriesBelow(S, l) \subseteq EntriesBelow(T, l)
  BY EntriesMonotone
<1>9. children \in Seq(EntriesBelow(T, l))
  BY <1>8, SeqMonotonic
<1>10. i \in 1..Len(children) /\ i + 1 \in 1..Len(children) /\ Len(children) \in Nat
  BY ElementsOfSeq
<1>. HIDE DEF entry, T
<1>11. once \in Seq(EntriesBelow(T, l)) /\ Len(once) = Len(children)
  BY <1>7, <1>9, <1>10, ExceptSeq
<1>. HIDE DEF once
<1>12. /\ RemoveAt(once, i + 1) \in Seq(EntriesBelow(T, l))
       /\ Len(RemoveAt(once, i + 1)) = Len(children) - 1
  BY <1>10, <1>11, RemoveAtSeq
<1>13. RemoveAt(once, i + 1) # <<>>
  BY <1>10, <1>12, ElementsOfSeq
<1>14. MergeWithNext(children, i) = RemoveAt(once, i + 1)
  BY DEF MergeWithNext, once, entry, merged, left, right
<1>. QED
  BY <1>5, <1>12, <1>13, <1>14 DEF T

\* Whichever way an underflow is repaired, the children of the parent stay a
\* non-empty list of entries for nodes of one level, over the store and the nodes made.
LEMMA HandleUnderflowOver ==
  ASSUME NEW S, Sound(S), NEW l, NEW children \in Seq(EntriesBelow(S, l)),
         HasSibling(children), NEW c \in Configs, NEW i \in DOMAIN children
  PROVE  \E M \in SUBSET BalancedOver(S) :
           HandleUnderflow(children, i, c) \in Seq(EntriesBelow(S \cup M, l)) \ {<<>>}
<1>1. CASE CanLend(children, i - 1, c)
  BY <1>1, BorrowFromLeftOver DEF HandleUnderflow
<1>2. CASE ~CanLend(children, i - 1, c) /\ CanLend(children, i + 1, c)
  <2>1. HandleUnderflow(children, i, c) = BorrowFromRight(children, i)
    BY <1>2 DEF HandleUnderflow
  <2>2. \E M \in SUBSET BalancedOver(S) :
          BorrowFromRight(children, i) \in Seq(EntriesBelow(S \cup M, l)) \ {<<>>}
    BY <1>2, BorrowFromRightOver
  <2>. QED
    BY <2>1, <2>2
<1>3. CASE ~CanLend(children, i - 1, c) /\ ~CanLend(children, i + 1, c)
  <2>. DEFINE j == IF i > 1 THEN i - 1 ELSE i
  <2>1. HandleUnderflow(children, i, c) = MergeWithNext(children, j)
    BY <1>3 DEF HandleUnderflow
  <2>2. j \in DOMAIN children /\ j + 1 \in DOMAIN children
    BY ElementsOfSeq DEF HasSibling
  <2>. HIDE DEF j
  <2>3. \E M \in SUBSET BalancedOver(S) :
          MergeWithNext(children, j) \in Seq(EntriesBelow(S \cup M, l)) \ {<<>>}
    BY <2>2, MergeWithNextOver
  <2>. QED
    BY <2>1, <2>3
<1>. QED
  BY <1>1, <1>2, <1>3
-----------------------------------------------------------------------------
(***************************************************************************)
(* Stores.                                                                 *)
(***************************************************************************)
\* A stored node is a balanced node over the store.
LEMMA StoredNode ==
  ASSUME NEW S, Sound(S), NEW n \in S, IsNode(n)
  PROVE  n \in BalancedOver(S)
  BY DEF Sound, IsNode, DataChunks, Data

\* Storing nodes that refer to what is stored keeps a store sound.
LEMMA SoundAdd ==
  ASSUME NEW S, Sound(S), NEW N, N \subseteq DataChunks \cup BalancedOver(S)
  PROVE  Sound(S \cup N)
  BY BalancedMonotone DEF Sound

\* So does keeping only some chunks, if all they refer to is kept.
LEMMA SoundKeep ==
  ASSUME NEW S, Sound(S), NEW K, K \subseteq S, \A k \in K : References(k) \subseteq K
  PROVE  Sound(K)
<1>. SUFFICES ASSUME NEW n \in K, n \in BalancedOver(S)
              PROVE  n \in BalancedOver(K)
  BY DEF Sound
<1>1. CASE n.kind = "Leaf"
  <2>1. n = Leaf(n.entries) /\ n.entries \in Seq(LeafEntries(S)) \ {<<>>}
    BY <1>1, NodeKinds
  <2>2. ASSUME NEW i \in DOMAIN n.entries
        PROVE  n.entries[i] \in LeafEntries(K)
    <3>1. n.entries[i] \in LeafEntries(S)
      BY <2>1, ElementsOfSeq
    <3>2. ReprChunks(n.entries[i].value) \subseteq K
      BY <1>1, <2>2 DEF References, ToSet
    <3>. QED
      BY <3>1, <3>2 DEF LeafEntries
  <2>3. n.entries \in Seq(LeafEntries(K)) \ {<<>>}
    BY <2>1, <2>2, SeqWithin
  <2>. QED
    BY <2>1, <2>3, LeafOver
<1>2. CASE n.kind = "Internal"
  <2>1. /\ n = Internal(n.level, n.children)
        /\ n.level \in Nat \ {0}
        /\ n.children \in Seq(EntriesBelow(S, n.level)) \ {<<>>}
    BY <1>2, NodeKinds
  <2>2. ASSUME NEW i \in DOMAIN n.children
        PROVE  n.children[i] \in EntriesBelow(K, n.level)
    <3>1. n.children[i] \in EntriesBelow(S, n.level)
      BY <2>1, ElementsOfSeq
    <3>2. n.children[i].child_hash \in K
      BY <1>2 DEF References, ToSet
    <3>. QED
      BY <3>1, <3>2 DEF EntriesBelow, InternalEntries, NodesIn
  <2>3. n.children \in Seq(EntriesBelow(K, n.level)) \ {<<>>}
    BY <2>1, <2>2, SeqWithin
  <2>. QED
    BY <2>1, <2>3, InternalOver
<1>. QED
  BY <1>1, <1>2, NodeKinds DEF IsNode

\* The parts of soundness as the invariants of ProllyTree state them.
LEMMA SoundIs ==
  ASSUME NEW S
  PROVE  Sound(S) <=> /\ S \subseteq ChunksOver(S)
                      /\ \A chunk \in S : ChildrenOneLevelDown(chunk)
                      /\ \A chunk \in S : EntriesUpToDate(chunk)
  BY DEF Sound, BalancedOver, ChunksOver, ChildrenOneLevelDown, EntriesUpToDate,
         DataChunks, Data

\* What a chunk of a sound store refers to is stored.
LEMMA ReferencesOver ==
  ASSUME NEW S, Sound(S), NEW n \in S
  PROVE  References(n) \subseteq S
<1>1. CASE n \in DataChunks
  BY <1>1 DEF DataChunks, Data, References
<1>2. CASE n \in BalancedOver(S) /\ n.kind = "Leaf"
  <2>1. n.entries \in Seq(LeafEntries(S))
    BY <1>2, NodeKinds
  <2>2. ASSUME NEW e \in ToSet(n.entries)
        PROVE  ReprChunks(e.value) \subseteq S
    BY <2>1, <2>2, ElementsOfSeq DEF ToSet, LeafEntries
  <2>. QED
    BY <1>2, <2>2 DEF References
<1>3. CASE n \in BalancedOver(S) /\ n.kind = "Internal"
  <2>1. n.children \in Seq(EntriesBelow(S, n.level))
    BY <1>3, NodeKinds
  <2>2. \A e \in ToSet(n.children) : e.child_hash \in S
    BY <2>1, ElementsOfSeq DEF ToSet, EntriesBelow, InternalEntries, NodesIn
  <2>. QED
    BY <1>3, <2>2 DEF References
<1>. QED
  BY <1>1, <1>2, <1>3, NodeKinds DEF Sound, IsNode

\* The entries for nodes just stored.
LEMMA EntriesForOver ==
  ASSUME NEW S, NEW nodes \in Seq(BalancedOver(S)), NEW T, ToSet(nodes) \subseteq T,
         NEW v, \A i \in DOMAIN nodes : Level(nodes[i]) = v
  PROVE  LET entries == [i \in DOMAIN nodes |-> EntryFor(nodes[i])]
         IN  entries \in Seq(EntriesBelow(T, v + 1)) /\ Len(entries) = Len(nodes)
<1>. DEFINE entries == [i \in DOMAIN nodes |-> EntryFor(nodes[i])]
<1>1. Len(nodes) \in Nat /\ DOMAIN nodes = 1..Len(nodes)
  BY ElementsOfSeq
<1>2. ASSUME NEW i \in DOMAIN nodes
      PROVE  EntryFor(nodes[i]) \in EntriesBelow(T, v + 1)
  <2>1. nodes[i] \in BalancedOver(S) /\ nodes[i] \in T /\ Level(nodes[i]) = v
    BY ElementsOfSeq DEF ToSet
  <2>. QED
    BY <2>1, EntryForOver
<1>3. entries \in [1..Len(nodes) -> EntriesBelow(T, v + 1)]
  BY <1>1, <1>2
<1>. QED
  BY <1>1, <1>3, SeqDef
-----------------------------------------------------------------------------
(***************************************************************************)
(* The order of the keys in a tree, for nodes of any size and trees of any *)
(* height: every operation on a node or on the children of a node makes    *)
(* nodes whose slots are in order, over keys that were below the node      *)
(* before or are the one the call is about.                                *)
(***************************************************************************)

(***************************************************************************)
(* The lowest key of a node, which Node finds by going to the first child  *)
(* again and again.                                                        *)
(***************************************************************************)
\* The recursion that defines the left edge of a node has a solution: its
\* finite beginnings exist, agree, and together make the function.
LEMMA EdgeExists ==
  ASSUME NEW n
  PROVE  LeftEdge(n) = [l \in Nat |-> IF l = 0 THEN n ELSE LeftEdge(n)[l - 1].children[1].child_hash]
<1>. DEFINE Begins(g, m) ==
              g = [l \in 0..m |-> IF l = 0 THEN n ELSE g[l - 1].children[1].child_hash]
            Edge(g) ==
              g = [l \in Nat |-> IF l = 0 THEN n ELSE g[l - 1].children[1].child_hash]
<1>1. ASSUME NEW g, NEW m \in Nat, Begins(g, m), NEW l \in 0..m
      PROVE  g[l] = IF l = 0 THEN n ELSE g[l - 1].children[1].child_hash
  BY <1>1
<1>. HIDE DEF Begins
<1>2. \A m \in Nat : \E g : Begins(g, m)
  <2>. DEFINE T == {m \in Nat : ~\E g : Begins(g, m)}
  <2>. SUFFICES ASSUME T # {}
                PROVE  FALSE
    OBVIOUS
  <2>1. PICK m \in T : \A u \in T : m =< u
    <3>. HIDE DEF T
    <3>1. T \subseteq Nat
      BY DEF T
    <3>. QED
      BY <3>1, LeastNatural
  <2>2. m # 0
    <3>. DEFINE g == [l \in 0..0 |-> n]
    <3>1. Begins(g, 0)
      BY DEF Begins
    <3>. QED
      BY <3>1
  <2>3. m - 1 \in Nat /\ m - 1 \notin T
    BY <2>1, <2>2
  <2>4. PICK g : Begins(g, m - 1)
    BY <2>3
  <2>. DEFINE h == [l \in 0..m |-> IF l = m THEN g[m - 1].children[1].child_hash ELSE g[l]]
  <2>5. Begins(h, m)
    <3>1. ASSUME NEW l \in 0..m
          PROVE  h[l] = IF l = 0 THEN n ELSE h[l - 1].children[1].child_hash
      <4>1. CASE l = m
        <5>1. h[m] = g[m - 1].children[1].child_hash
          BY <2>1
        <5>2. h[m - 1] = g[m - 1]
          BY <2>3
        <5>. HIDE DEF h
        <5>. QED
          BY <2>2, <4>1, <5>1, <5>2
      <4>2. CASE l # m
        <5>1. l \in 0..(m - 1)
          BY <2>1, <4>2
        <5>2. h[l] = g[l]
          BY <4>2
        <5>3. l # 0 => h[l - 1] = g[l - 1]
          BY <2>3, <5>1
        <5>4. g[l] = IF l = 0 THEN n ELSE g[l - 1].children[1].child_hash
          BY <1>1, <2>3, <2>4, <5>1
        <5>. HIDE DEF h
        <5>. QED
          BY <5>2, <5>3, <5>4
      <4>. QED
        BY <4>1, <4>2
    <3>2. h = [l \in 0..m |-> h[l]]
      OBVIOUS
    <3>. HIDE DEF h
    <3>. QED
      BY <3>1, <3>2 DEF Begins
  <2>. QED
    BY <2>1, <2>5
<1>3. ASSUME NEW m \in Nat, NEW k \in Nat, NEW g, NEW h, Begins(g, m), Begins(h, k)
      PROVE  \A l \in Nat : l <= m /\ l <= k => g[l] = h[l]
  <2>. DEFINE T == {l \in Nat : l <= m /\ l <= k /\ g[l] # h[l]}
  <2>. SUFFICES ASSUME T # {}
                PROVE  FALSE
    OBVIOUS
  <2>1. PICK l \in T : \A u \in T : l =< u
    <3>. HIDE DEF T
    <3>1. T \subseteq Nat
      BY DEF T
    <3>. QED
      BY <3>1, LeastNatural
  <2>2. l \in 0..m /\ l \in 0..k
    BY <2>1
  <2>3. /\ g[l] = IF l = 0 THEN n ELSE g[l - 1].children[1].child_hash
        /\ h[l] = IF l = 0 THEN n ELSE h[l - 1].children[1].child_hash
    BY <1>1, <1>3, <2>2
  <2>4. l # 0 => g[l - 1] = h[l - 1]
    BY <2>1
  <2>5. g[l] # h[l]
    BY <2>1
  <2>. HIDE DEF T
  <2>. QED
    BY <2>3, <2>4, <2>5
<1>. DEFINE part(l) == CHOOSE g : Begins(g, l)
            f == [l \in Nat |-> part(l)[l]]
<1>4. \A l \in Nat : Begins(part(l), l)
  BY <1>2
<1>. HIDE DEF part
<1>5. Edge(f)
  <2>1. ASSUME NEW l \in Nat
        PROVE  f[l] = IF l = 0 THEN n ELSE f[l - 1].children[1].child_hash
    <3>1. l \in 0..l /\ part(l)[l] = IF l = 0 THEN n ELSE part(l)[l - 1].children[1].child_hash
      BY <1>1, <1>4
    <3>2. CASE l = 0
      BY <3>1, <3>2
    <3>3. CASE l # 0
      <4>1. l - 1 \in Nat /\ l - 1 <= l /\ l - 1 <= l - 1
        BY <3>3
      <4>2. part(l)[l - 1] = part(l - 1)[l - 1]
        BY <1>3, <1>4, <4>1
      <4>3. f[l] = part(l)[l] /\ f[l - 1] = part(l - 1)[l - 1]
        BY <4>1
      <4>. HIDE DEF f
      <4>. QED
        BY <3>1, <3>3, <4>2, <4>3
    <3>. QED
      BY <3>2, <3>3
  <2>2. f = [l \in Nat |-> f[l]]
    OBVIOUS
  <2>. HIDE DEF f
  <2>. QED
    BY <2>1, <2>2
<1>. HIDE DEF f
<1>6. LeftEdge(n) = CHOOSE g : Edge(g)
  BY Zenon DEF LeftEdge
<1>7. Edge(CHOOSE g : Edge(g))
  BY <1>5, Zenon
<1>. QED
  BY <1>6, <1>7, Zenon

\* The left edge starts at the node and goes on with the first child.
LEMMA EdgeStep ==
  ASSUME NEW n
  PROVE  /\ LeftEdge(n)[0] = n
         /\ \A l \in Nat : LeftEdge(n)[l + 1] = LeftEdge(n)[l].children[1].child_hash
<1>1. LeftEdge(n)[0] = n
  BY EdgeExists
<1>2. ASSUME NEW l \in Nat
      PROVE  LeftEdge(n)[l + 1] = LeftEdge(n)[l].children[1].child_hash
  <2>1. l + 1 \in Nat /\ l + 1 # 0 /\ (l + 1) - 1 = l
    OBVIOUS
  <2>. QED
    BY <2>1, EdgeExists
<1>. QED
  BY <1>1, <1>2

\* Below the node, its left edge is that of its first child.
LEMMA EdgeShift ==
  ASSUME NEW n
  PROVE  \A l \in Nat : LeftEdge(n)[l + 1] = LeftEdge(n.children[1].child_hash)[l]
<1>. DEFINE c == n.children[1].child_hash
            T == {l \in Nat : LeftEdge(n)[l + 1] # LeftEdge(c)[l]}
<1>. SUFFICES ASSUME T # {}
              PROVE  FALSE
  OBVIOUS
<1>1. PICK l \in T : \A u \in T : l =< u
  <2>. HIDE DEF T
  <2>1. T \subseteq Nat
    BY DEF T
  <2>. QED
    BY <2>1, LeastNatural
<1>2. l # 0
  <2>1. LeftEdge(n)[0 + 1] = c /\ LeftEdge(c)[0] = c
    BY EdgeStep
  <2>. QED
    BY <1>1, <2>1
<1>3. l - 1 \in Nat /\ l - 1 \notin T /\ (l - 1) + 1 = l /\ l \in Nat
  BY <1>1, <1>2
<1>4. LeftEdge(n)[l] = LeftEdge(c)[l - 1]
  BY <1>3
<1>5. LeftEdge(n)[l + 1] = LeftEdge(n)[l].children[1].child_hash
  BY <1>3, EdgeStep
<1>6. LeftEdge(c)[l] = LeftEdge(c)[l - 1].children[1].child_hash
  <2>1. LeftEdge(c)[(l - 1) + 1] = LeftEdge(c)[l - 1].children[1].child_hash
    BY <1>3, EdgeStep
  <2>. QED
    BY <1>3, <2>1
<1>. QED
  BY <1>1, <1>4, <1>5, <1>6

\* A leaf's entry is for its key.
LEMMA LeafSlot ==
  ASSUME NEW S, NEW e \in LeafEntries(S)
  PROVE  LowestKey(e) = e.key /\ HighestKey(e) = e.key /\ e.key \in Keys
<1>1. "key" \in DOMAIN e /\ e.key \in Keys
  BY DEF LeafEntries
<1>. QED
  BY <1>1 DEF LowestKey, HighestKey

\* An entry of an internal node is for the keys from the lowest of the child
\* to the boundary.
LEMMA InternalSlot ==
  ASSUME NEW S, NEW e \in InternalEntries(S)
  PROVE  /\ LowestKey(e) = LowKey(e.child_hash)
         /\ HighestKey(e) = e.boundary_key
         /\ e.boundary_key \in Keys
<1>1. "key" \notin DOMAIN e /\ e.boundary_key \in Keys
  BY DEF InternalEntries
<1>. QED
  BY <1>1 DEF LowestKey, HighestKey

\* The lowest key of a node is that of its first slot.
LEMMA LowKeyOfNode ==
  ASSUME NEW S, Sound(S), NEW n \in BalancedOver(S)
  PROVE  LowKey(n) = LowestKey(Slots(n)[1])
<1>1. CASE n.kind = "Leaf"
  <2>1. n.entries \in Seq(LeafEntries(S)) \ {<<>>} /\ Level(n) = 0 /\ Slots(n) = n.entries
    BY <1>1, NodeKinds DEF Level, Slots
  <2>2. LowKey(n) = n.entries[1].key
    BY <2>1, EdgeStep DEF LowKey
  <2>3. n.entries[1] \in LeafEntries(S)
    BY <2>1, ElementsOfSeq
  <2>. QED
    BY <2>1, <2>2, <2>3, LeafSlot
<1>2. CASE n.kind = "Internal"
  <2>. DEFINE c == n.children[1].child_hash
  <2>1. /\ n.children \in Seq(EntriesBelow(S, n.level)) \ {<<>>}
        /\ Level(n) = n.level /\ Slots(n) = n.children
    BY <1>2, NodeKinds DEF Level, Slots
  <2>2. n.children[1] \in EntriesBelow(S, n.level)
    BY <2>1, ElementsOfSeq
  <2>3. n.children[1] \in InternalEntries(S) /\ Level(c) + 1 = n.level
    BY <2>2 DEF EntriesBelow
  <2>4. Level(c) \in Nat
    BY <2>3, ChildOver, NodeKinds
  <2>5. LeftEdge(n)[Level(c) + 1] = LeftEdge(c)[Level(c)]
    BY <2>4, EdgeShift
  <2>. HIDE DEF c
  <2>6. LowKey(n) = LowKey(c)
    BY <2>1, <2>3, <2>5 DEF LowKey
  <2>. QED
    BY <2>1, <2>3, <2>6, InternalSlot DEF c
<1>. QED
  BY <1>1, <1>2, NodeKinds DEF IsNode

\* The lowest key of a node of any height is a key.
LEMMA LowKeyIsKey ==
  ASSUME NEW S, Sound(S)
  PROVE  \A n \in BalancedOver(S) : LowKey(n) \in Keys
<1>. DEFINE T == {l \in Nat : \E n \in BalancedOver(S) : Level(n) = l /\ LowKey(n) \notin Keys}
<1>1. T = {}
  <2>. SUFFICES ASSUME T # {}
                PROVE  FALSE
    OBVIOUS
  <2>1. PICK l \in T : \A u \in T : l =< u
    <3>. HIDE DEF T
    <3>1. T \subseteq Nat
      BY DEF T
    <3>. QED
      BY <3>1, LeastNatural
  <2>2. PICK n \in BalancedOver(S) : Level(n) = l /\ LowKey(n) \notin Keys
    BY <2>1
  <2>3. CASE n.kind = "Leaf"
    <3>1. n.entries \in Seq(LeafEntries(S)) \ {<<>>} /\ Slots(n) = n.entries
      BY <2>3, NodeKinds DEF Slots
    <3>2. n.entries[1] \in LeafEntries(S)
      BY <3>1, ElementsOfSeq
    <3>. QED
      BY <2>2, <3>1, <3>2, LowKeyOfNode, LeafSlot
  <2>4. CASE n.kind = "Internal"
    <3>. DEFINE c == n.children[1].child_hash
    <3>1. /\ n.children \in Seq(EntriesBelow(S, n.level)) \ {<<>>}
          /\ Level(n) = n.level /\ Slots(n) = n.children
      BY <2>4, NodeKinds DEF Level, Slots
    <3>2. n.children[1] \in EntriesBelow(S, n.level)
      BY <3>1, ElementsOfSeq
    <3>3. n.children[1] \in InternalEntries(S) /\ Level(c) + 1 = n.level
      BY <3>2 DEF EntriesBelow
    <3>4. c \in BalancedOver(S) /\ Level(c) \in Nat
      BY <3>3, ChildOver, NodeKinds
    <3>5. LowKey(n) = LowKey(c)
      BY <3>1, <3>3, LowKeyOfNode, InternalSlot
    <3>. HIDE DEF c
    <3>6. Level(c) \in T /\ Level(c) < l
      BY <2>1, <2>2, <3>1, <3>3, <3>4, <3>5
    <3>. QED
      BY <2>1, <3>4, <3>6
  <2>. QED
    BY <2>3, <2>4, NodeKinds DEF IsNode
<1>. QED
  BY <1>1, NodeKinds

\* The slots of E have ends that can be compared.
Ranged(E) == \A e \in E : LowestKey(e) \in Int /\ HighestKey(e) \in Int

\* So have the entries for nodes of a sound store, and those of leaves.
LEMMA SlotsRanged ==
  ASSUME NEW S, Sound(S)
  PROVE  /\ Ranged(LeafEntries(S))
         /\ \A l : Ranged(EntriesBelow(S, l))
         /\ \A n \in BalancedOver(S) : Ranged(SlotsOver(n, S))
<1>1. Ranged(LeafEntries(S))
  BY LeafSlot, KeysAssumption DEF Ranged
<1>2. ASSUME NEW l
      PROVE  Ranged(EntriesBelow(S, l))
  <2>. SUFFICES ASSUME NEW e \in EntriesBelow(S, l)
                PROVE  LowestKey(e) \in Int /\ HighestKey(e) \in Int
    BY DEF Ranged
  <2>1. e \in InternalEntries(S)
    BY DEF EntriesBelow
  <2>. QED
    BY <2>1, ChildOver, LowKeyIsKey, InternalSlot, KeysAssumption
<1>. QED
  BY <1>1, <1>2 DEF SlotsOver

\* The entry for a node is for the keys from its first slot to its last one.
LEMMA EntryRange ==
  ASSUME NEW S, Sound(S), NEW n \in BalancedOver(S)
  PROVE  /\ LowestKey(EntryFor(n)) = LowestKey(Slots(n)[1])
         /\ HighestKey(EntryFor(n)) = HighestKey(Last(Slots(n)))
<1>1. "key" \notin DOMAIN EntryFor(n)
  BY DEF EntryFor
<1>2. LowestKey(EntryFor(n)) = LowKey(n) /\ HighestKey(EntryFor(n)) = BoundaryKey(n)
  BY <1>1 DEF LowestKey, HighestKey, EntryFor
<1>3. BoundaryKey(n) = HighestKey(Last(Slots(n)))
  <2>1. CASE n.kind = "Leaf"
    <3>1. Last(n.entries) \in LeafEntries(S)
      BY <2>1, NodeKinds, LastOfSeq
    <3>. QED
      BY <2>1, <3>1, LeafSlot DEF BoundaryKey, Slots
  <2>2. CASE n.kind = "Internal"
    <3>1. Last(n.children) \in InternalEntries(S)
      BY <2>2, NodeKinds, LastOfSeq DEF EntriesBelow
    <3>. QED
      BY <2>2, <3>1, InternalSlot DEF BoundaryKey, Slots
  <2>. QED
    BY <2>1, <2>2, NodeKinds DEF IsNode
<1>. QED
  BY <1>2, <1>3, LowKeyOfNode
-----------------------------------------------------------------------------
(***************************************************************************)
(* Sequences of slots.                                                     *)
(***************************************************************************)
\* Vec::insert moves the elements from i on by one.
LEMMA InsertAtIndex ==
  ASSUME NEW E, NEW s \in Seq(E), NEW i \in 1..(Len(s) + 1), NEW e \in E
  PROVE  \A j \in 1..(Len(s) + 1) :
           InsertAt(s, i, e)[j] = IF j < i THEN s[j] ELSE IF j = i THEN e ELSE s[j - 1]
<1>. DEFINE before == SubSeq(s, 1, i - 1)
            after == SubSeq(s, i, Len(s))
<1>1. Len(s) \in Nat /\ \A j \in 1..Len(s) : s[j] \in E
  BY ElementsOfSeq
<1>2. before \in Seq(E) /\ Len(before) = i - 1
  BY <1>1, SubSeqSeq
<1>3. after \in Seq(E) /\ Len(after) = Len(s) - i + 1
  BY <1>1, SubSeqSeq
<1>4. \A j \in 1..(i - 1) : before[j] = s[j]
  BY <1>1, SubSeqProperties
<1>5. \A j \in 1..(Len(s) - i + 1) : after[j] = s[i + j - 1]
  BY <1>1, SubSeqProperties
<1>6. InsertAt(s, i, e) = before \o <<e>> \o after
  BY DEF InsertAt
<1>. HIDE DEF before, after
<1>7. /\ before \o <<e>> \in Seq(E) /\ Len(before \o <<e>>) = i
      /\ \A j \in 1..i : (before \o <<e>>)[j] = IF j < i THEN before[j] ELSE e
  BY <1>1, <1>2, ConcatProperties
<1>8. \A j \in 1..(Len(s) + 1) :
        InsertAt(s, i, e)[j] = IF j <= i THEN (before \o <<e>>)[j] ELSE after[j - i]
  BY <1>1, <1>3, <1>6, <1>7, ConcatProperties
<1>. SUFFICES ASSUME NEW j \in 1..(Len(s) + 1)
              PROVE  InsertAt(s, i, e)[j]
                       = IF j < i THEN s[j] ELSE IF j = i THEN e ELSE s[j - 1]
  OBVIOUS
<1>9. CASE j <= i
  <2>1. InsertAt(s, i, e)[j] = (before \o <<e>>)[j]
    BY <1>8, <1>9, Zenon
  <2>2. j \in 1..i
    BY <1>1, <1>9
  <2>3. (before \o <<e>>)[j] = IF j < i THEN before[j] ELSE e
    BY <1>7, <2>2
  <2>4. j < i => before[j] = s[j]
    BY <1>1, <1>4
  <2>5. ~(j < i) => j = i
    BY <1>1, <1>9
  <2>. QED
    BY <2>1, <2>3, <2>4, <2>5
<1>10. CASE ~(j <= i)
  <2>1. j - i \in 1..(Len(s) - i + 1) /\ i + (j - i) - 1 = j - 1
    BY <1>1, <1>10
  <2>. QED
    BY <1>1, <1>5, <1>8, <1>10, <2>1
<1>. QED
  BY <1>9, <1>10

\* Vec::remove moves the elements after i back by one.
LEMMA RemoveAtIndex ==
  ASSUME NEW E, NEW s \in Seq(E), NEW i \in 1..Len(s)
  PROVE  \A j \in 1..(Len(s) - 1) : RemoveAt(s, i)[j] = IF j < i THEN s[j] ELSE s[j + 1]
<1>. DEFINE before == SubSeq(s, 1, i - 1)
            after == SubSeq(s, i + 1, Len(s))
<1>1. Len(s) \in Nat /\ \A j \in 1..Len(s) : s[j] \in E
  BY ElementsOfSeq
<1>2. before \in Seq(E) /\ Len(before) = i - 1
  BY <1>1, SubSeqSeq
<1>3. after \in Seq(E) /\ Len(after) = Len(s) - i
  BY <1>1, SubSeqSeq
<1>4. \A j \in 1..(i - 1) : before[j] = s[j]
  BY <1>1, SubSeqProperties
<1>5. \A j \in 1..(Len(s) - i) : after[j] = s[i + j]
  <2>1. \A j \in (i + 1)..Len(s) : s[j] \in E
    BY <1>1
  <2>2. \A j \in 1..(Len(s) - i) : after[j] = s[(i + 1) + j - 1]
    BY <1>1, <2>1, SubSeqProperties
  <2>3. \A j \in 1..(Len(s) - i) : (i + 1) + j - 1 = i + j
    BY <1>1
  <2>. QED
    BY <2>2, <2>3
<1>6. RemoveAt(s, i) = before \o after
  BY DEF RemoveAt
<1>. HIDE DEF before, after
<1>7. \A j \in 1..(Len(s) - 1) :
        RemoveAt(s, i)[j] = IF j <= i - 1 THEN before[j] ELSE after[j - (i - 1)]
  BY <1>1, <1>2, <1>3, <1>6, ConcatProperties
<1>. SUFFICES ASSUME NEW j \in 1..(Len(s) - 1)
              PROVE  RemoveAt(s, i)[j] = IF j < i THEN s[j] ELSE s[j + 1]
  OBVIOUS
<1>8. CASE j < i
  BY <1>1, <1>4, <1>7, <1>8
<1>9. CASE ~(j < i)
  <2>1. j - (i - 1) \in 1..(Len(s) - i) /\ i + (j - (i - 1)) = j + 1
    BY <1>1, <1>9
  <2>2. after[j - (i - 1)] = s[j + 1]
    BY <1>5, <2>1
  <2>3. RemoveAt(s, i)[j] = after[j - (i - 1)]
    BY <1>1, <1>7, <1>9
  <2>. QED
    BY <1>9, <2>2, <2>3
<1>. QED
  BY <1>8, <1>9

\* Every slot of a node is between the first and the last one.
LEMMA OrderEnds ==
  ASSUME NEW E, Ranged(E), NEW s \in Seq(E) \ {<<>>}, InOrder(s)
  PROVE  /\ 1 \in DOMAIN s /\ Len(s) \in DOMAIN s
         /\ \A i \in DOMAIN s : /\ LowestKey(s[i]) \in Int /\ HighestKey(s[i]) \in Int
                                /\ LowestKey(s[1]) <= LowestKey(s[i])
                                /\ LowestKey(s[i]) <= HighestKey(s[i])
                                /\ HighestKey(s[i]) <= HighestKey(Last(s))
<1>1. Len(s) \in Nat \ {0} /\ DOMAIN s = 1..Len(s)
  BY ElementsOfSeq
<1>2. 1 \in DOMAIN s /\ Len(s) \in DOMAIN s
  BY <1>1
<1>3. \A i \in DOMAIN s : LowestKey(s[i]) \in Int /\ HighestKey(s[i]) \in Int
  BY ElementsOfSeq DEF Ranged
<1>. SUFFICES ASSUME NEW i \in DOMAIN s
              PROVE  /\ LowestKey(s[1]) <= LowestKey(s[i])
                     /\ HighestKey(s[i]) <= HighestKey(s[Len(s)])
  BY <1>2, <1>3 DEF InOrder, Last
<1>4. i = 1 \/ 1 < i
  BY <1>1
<1>5. i = Len(s) \/ i < Len(s)
  BY <1>1
<1>6. LowestKey(s[1]) <= HighestKey(s[1]) /\ LowestKey(s[Len(s)]) <= HighestKey(s[Len(s)])
  BY <1>2 DEF InOrder
<1>7. 1 < i => HighestKey(s[1]) < LowestKey(s[i])
  BY <1>2 DEF InOrder
<1>8. i < Len(s) => HighestKey(s[i]) < LowestKey(s[Len(s)])
  BY <1>2 DEF InOrder
<1>. QED
  BY <1>2, <1>3, <1>4, <1>5, <1>6, <1>7, <1>8

\* A part of a node's slots is in order.
LEMMA OrderPart ==
  ASSUME NEW E, Ranged(E), NEW s \in Seq(E), InOrder(s),
         NEW m \in 1..(Len(s) + 1), NEW n \in 0..Len(s)
  PROVE  InOrder(SubSeq(s, m, n))
<1>. DEFINE t == SubSeq(s, m, n)
<1>1. Len(s) \in Nat /\ DOMAIN s = 1..Len(s) /\ \A i \in m..n : s[i] \in E
  BY ElementsOfSeq
<1>2. /\ t \in Seq(E)
      /\ Len(t) = IF m <= n THEN n - m + 1 ELSE 0
      /\ \A i \in 1..(n - m + 1) : t[i] = s[m + i - 1]
  BY <1>1, SubSeqProperties
<1>3. DOMAIN t = 1..Len(t) /\ Len(t) \in Nat
  BY <1>2, ElementsOfSeq
<1>. HIDE DEF t
<1>4. \A i \in DOMAIN t : m + i - 1 \in DOMAIN s /\ t[i] = s[m + i - 1]
  BY <1>1, <1>2, <1>3
<1>5. ASSUME NEW i \in DOMAIN t, NEW j \in DOMAIN t, i < j
      PROVE  HighestKey(t[i]) < LowestKey(t[j])
  <2>1. m + i - 1 < m + j - 1
    BY <1>3, <1>5
  <2>. QED
    BY <1>4, <2>1 DEF InOrder
<1>. QED
  BY <1>4, <1>5 DEF InOrder, t

\* The slots of two nodes one after the other are in order if the nodes are.
LEMMA OrderConcat ==
  ASSUME NEW E, Ranged(E), NEW s \in Seq(E) \ {<<>>}, NEW t \in Seq(E) \ {<<>>},
         InOrder(s), InOrder(t), HighestKey(Last(s)) < LowestKey(t[1])
  PROVE  InOrder(s \o t)
<1>1. /\ Len(s) \in Nat /\ DOMAIN s = 1..Len(s)
      /\ Len(t) \in Nat /\ DOMAIN t = 1..Len(t)
      /\ DOMAIN (s \o t) = 1..(Len(s) + Len(t))
  BY ElementsOfSeq, ConcatProperties
<1>2. \A i \in 1..(Len(s) + Len(t)) : (s \o t)[i] = IF i <= Len(s) THEN s[i] ELSE t[i - Len(s)]
  BY ConcatProperties
<1>3. \A i \in DOMAIN s, j \in DOMAIN t : HighestKey(s[i]) < LowestKey(t[j])
  <2>. SUFFICES ASSUME NEW i \in DOMAIN s, NEW j \in DOMAIN t
                PROVE  HighestKey(s[i]) < LowestKey(t[j])
    OBVIOUS
  <2>1. /\ HighestKey(s[i]) \in Int /\ HighestKey(s[i]) <= HighestKey(Last(s))
        /\ HighestKey(Last(s)) \in Int
    BY OrderEnds DEF Last
  <2>2. LowestKey(t[j]) \in Int /\ LowestKey(t[1]) <= LowestKey(t[j]) /\ LowestKey(t[1]) \in Int
    BY OrderEnds
  <2>. QED
    BY <2>1, <2>2
<1>4. ASSUME NEW i \in DOMAIN (s \o t)
      PROVE  LowestKey((s \o t)[i]) <= HighestKey((s \o t)[i])
  <2>1. CASE i <= Len(s)
    BY <1>1, <1>2, <2>1 DEF InOrder
  <2>2. CASE ~(i <= Len(s))
    <3>1. i - Len(s) \in DOMAIN t
      BY <1>1, <2>2
    <3>. QED
      BY <1>1, <1>2, <2>2, <3>1 DEF InOrder
  <2>. QED
    BY <2>1, <2>2
<1>5. ASSUME NEW i \in DOMAIN (s \o t), NEW j \in DOMAIN (s \o t), i < j
      PROVE  HighestKey((s \o t)[i]) < LowestKey((s \o t)[j])
  <2>1. CASE j <= Len(s)
    <3>1. i \in DOMAIN s /\ j \in DOMAIN s /\ i <= Len(s)
      BY <1>1, <1>5, <2>1
    <3>. QED
      BY <1>1, <1>2, <1>5, <2>1, <3>1 DEF InOrder
  <2>2. CASE i <= Len(s) /\ ~(j <= Len(s))
    <3>1. i \in DOMAIN s /\ j - Len(s) \in DOMAIN t
      BY <1>1, <2>2
    <3>. QED
      BY <1>1, <1>2, <1>3, <2>2, <3>1
  <2>3. CASE ~(i <= Len(s))
    <3>1. /\ i - Len(s) \in DOMAIN t /\ j - Len(s) \in DOMAIN t
          /\ i - Len(s) < j - Len(s) /\ ~(j <= Len(s))
      BY <1>1, <1>5, <2>3
    <3>. QED
      BY <1>1, <1>2, <2>3, <3>1 DEF InOrder
  <2>. QED
    BY <2>1, <2>2, <2>3
<1>. QED
  BY <1>4, <1>5 DEF InOrder

\* Slot i of s is the one that key k belongs to.
Meant(s, i, k) ==
  /\ \A j \in 1..(i - 1) : HighestKey(s[j]) < k
  /\ i < Len(s) => k <= HighestKey(s[i])

\* What is put in the place of that slot, and goes beyond it at most as far as
\* k, stays clear of the slots around it.
LEMMA StaysBetween ==
  ASSUME NEW E, Ranged(E), NEW s \in Seq(E), InOrder(s), NEW i \in DOMAIN s,
         NEW k \in Int, Meant(s, i, k), NEW lo \in Int, NEW hi \in Int,
         LowestKey(s[i]) <= lo \/ k <= lo, hi <= HighestKey(s[i]) \/ hi <= k
  PROVE  \A j \in DOMAIN s : /\ j < i => HighestKey(s[j]) < lo
                             /\ i < j => hi < LowestKey(s[j])
<1>. SUFFICES ASSUME NEW j \in DOMAIN s
              PROVE  /\ j < i => HighestKey(s[j]) < lo
                     /\ i < j => hi < LowestKey(s[j])
  OBVIOUS
<1>1. /\ LowestKey(s[i]) \in Int /\ HighestKey(s[i]) \in Int
      /\ LowestKey(s[j]) \in Int /\ HighestKey(s[j]) \in Int
      /\ DOMAIN s = 1..Len(s) /\ Len(s) \in Nat
  BY ElementsOfSeq DEF Ranged
<1>2. ASSUME j < i
      PROVE  HighestKey(s[j]) < lo
  <2>1. HighestKey(s[j]) < LowestKey(s[i])
    BY <1>2 DEF InOrder
  <2>2. HighestKey(s[j]) < k
    BY <1>1, <1>2 DEF Meant
  <2>. QED
    BY <1>1, <2>1, <2>2
<1>3. ASSUME i < j
      PROVE  hi < LowestKey(s[j])
  <2>1. HighestKey(s[i]) < LowestKey(s[j])
    BY <1>3 DEF InOrder
  <2>2. k <= HighestKey(s[i])
    BY <1>1, <1>3 DEF Meant
  <2>. QED
    BY <1>1, <2>1, <2>2
<1>. QED
  BY <1>2, <1>3

\* A slot replaced by one that stays clear of the others.
LEMMA OrderReplace ==
  ASSUME NEW E, Ranged(E), NEW s \in Seq(E), InOrder(s), NEW i \in DOMAIN s,
         NEW u \in E, LowestKey(u) <= HighestKey(u),
         \A j \in DOMAIN s : /\ j < i => HighestKey(s[j]) < LowestKey(u)
                             /\ i < j => HighestKey(u) < LowestKey(s[j])
  PROVE  InOrder([s EXCEPT ![i] = u])
<1>. DEFINE r == [s EXCEPT ![i] = u]
<1>1. DOMAIN r = DOMAIN s /\ DOMAIN s = 1..Len(s) /\ Len(s) \in Nat
  BY ElementsOfSeq
<1>2. \A j \in DOMAIN s : r[j] = IF j = i THEN u ELSE s[j]
  BY <1>1
<1>. HIDE DEF r
<1>3. \A j \in DOMAIN r : LowestKey(r[j]) <= HighestKey(r[j])
  BY <1>1, <1>2 DEF InOrder
<1>4. ASSUME NEW a \in DOMAIN r, NEW b \in DOMAIN r, a < b
      PROVE  HighestKey(r[a]) < LowestKey(r[b])
  BY <1>1, <1>2, <1>4 DEF InOrder
<1>. QED
  BY <1>3, <1>4 DEF InOrder, r

\* A slot inserted after those below it and before those above it.
LEMMA OrderInsert ==
  ASSUME NEW E, Ranged(E), NEW s \in Seq(E), InOrder(s), NEW p \in 1..(Len(s) + 1),
         NEW u \in E, LowestKey(u) <= HighestKey(u),
         \A j \in DOMAIN s : /\ j < p => HighestKey(s[j]) < LowestKey(u)
                             /\ p <= j => HighestKey(u) < LowestKey(s[j])
  PROVE  LET r == InsertAt(s, p, u)
         IN  /\ InOrder(r)
             /\ r[1] = IF p = 1 THEN u ELSE s[1]
             /\ Last(r) = IF p = Len(s) + 1 THEN u ELSE Last(s)
<1>. DEFINE r == InsertAt(s, p, u)
<1>1. DOMAIN s = 1..Len(s) /\ Len(s) \in Nat
  BY ElementsOfSeq
<1>2. r \in Seq(E) /\ Len(r) = Len(s) + 1
  BY InsertAtSeq
<1>3. DOMAIN r = 1..(Len(s) + 1)
  BY <1>2, ElementsOfSeq
<1>4. \A j \in 1..(Len(s) + 1) : r[j] = IF j < p THEN s[j] ELSE IF j = p THEN u ELSE s[j - 1]
  BY InsertAtIndex
<1>. HIDE DEF r
<1>5. \A j \in DOMAIN r : /\ j < p => j \in DOMAIN s /\ r[j] = s[j]
                          /\ j = p => r[j] = u
                          /\ p < j => j - 1 \in DOMAIN s /\ p <= j - 1 /\ r[j] = s[j - 1]
  BY <1>1, <1>3, <1>4
<1>6. ASSUME NEW j \in DOMAIN r
      PROVE  LowestKey(r[j]) <= HighestKey(r[j])
  <2>1. j < p \/ j = p \/ p < j
    BY <1>3
  <2>. QED
    BY <1>5, <2>1 DEF InOrder
<1>7. ASSUME NEW a \in DOMAIN r, NEW b \in DOMAIN r, a < b
      PROVE  HighestKey(r[a]) < LowestKey(r[b])
  <2>1. CASE b < p
    <3>1. a < p
      BY <1>3, <1>7, <2>1
    <3>. QED
      BY <1>5, <1>7, <2>1, <3>1 DEF InOrder
  <2>2. CASE b = p
    BY <1>5, <1>7, <2>2
  <2>3. CASE p < b /\ a < p
    <3>1. a < b - 1
      BY <1>3, <2>3
    <3>. QED
      BY <1>5, <2>3, <3>1 DEF InOrder
  <2>4. CASE p < b /\ a = p
    BY <1>5, <2>4
  <2>5. CASE p < b /\ p < a
    <3>1. a - 1 < b - 1
      BY <1>3, <1>7
    <3>. QED
      BY <1>5, <2>5, <3>1 DEF InOrder
  <2>. QED
    BY <1>3, <2>1, <2>2, <2>3, <2>4, <2>5
<1>8. InOrder(r)
  BY <1>6, <1>7 DEF InOrder
<1>9. r[1] = IF p = 1 THEN u ELSE s[1]
  <2>1. 1 \in DOMAIN r /\ (p = 1 \/ 1 < p)
    BY <1>1, <1>3
  <2>. QED
    BY <1>5, <2>1
<1>10. Last(r) = IF p = Len(s) + 1 THEN u ELSE Last(s)
  <2>1. Len(r) \in DOMAIN r /\ (p = Len(r) \/ p < Len(r)) /\ Len(r) - 1 = Len(s)
    BY <1>1, <1>2, <1>3
  <2>. QED
    BY <1>2, <1>5, <2>1 DEF Last
<1>. QED
  BY <1>8, <1>9, <1>10 DEF r

\* A slot taken out.
LEMMA OrderRemove ==
  ASSUME NEW E, Ranged(E), NEW s \in Seq(E), InOrder(s), NEW i \in DOMAIN s, NEW k
  PROVE  /\ InOrder(RemoveAt(s, i))
         /\ GoesNoFurther(RemoveAt(s, i), s, k)
<1>1. DOMAIN s = 1..Len(s) /\ Len(s) \in Nat
  BY ElementsOfSeq, Zenon
<1>. DEFINE r == RemoveAt(s, i)
<1>2. r \in Seq(E) /\ Len(r) = Len(s) - 1
  BY <1>1, RemoveAtSeq, Zenon
<1>3. DOMAIN r = 1..(Len(s) - 1)
  BY <1>2, ElementsOfSeq
<1>4. \A j \in 1..(Len(s) - 1) : r[j] = IF j < i THEN s[j] ELSE s[j + 1]
  BY <1>1, RemoveAtIndex
<1>. HIDE DEF r
<1>. DEFINE f(j) == IF j < i THEN j ELSE j + 1
<1>5. \A j \in DOMAIN r : f(j) \in DOMAIN s /\ r[j] = s[f(j)]
  BY <1>1, <1>3, <1>4
<1>6. \A a, b \in DOMAIN r : a < b => f(a) < f(b)
  BY <1>1, <1>3
<1>. HIDE DEF f
<1>7. InOrder(r)
  BY <1>5, <1>6 DEF InOrder
<1>8. ASSUME r # <<>>
      PROVE  /\ LowestKey(s[1]) <= LowestKey(r[1])
             /\ HighestKey(Last(r)) <= HighestKey(Last(s))
  <2>1. 1 \in DOMAIN r /\ Len(r) \in DOMAIN r /\ s # <<>>
    BY <1>1, <1>2, <1>3, <1>8, ElementsOfSeq
  <2>2. /\ f(1) \in DOMAIN s /\ r[1] = s[f(1)]
        /\ f(Len(r)) \in DOMAIN s /\ Last(r) = s[f(Len(r))]
    BY <1>5, <2>1 DEF Last
  <2>3. /\ LowestKey(s[1]) <= LowestKey(s[f(1)])
        /\ HighestKey(s[f(Len(r))]) <= HighestKey(Last(s))
    BY <2>1, <2>2, OrderEnds
  <2>. QED
    BY <2>2, <2>3
<1>. QED
  BY <1>7, <1>8 DEF GoesNoFurther, r

\* The slots below a key come first, and as many as there are.
LEMMA PrefixCount ==
  ASSUME NEW n \in Nat, NEW T \in SUBSET (1..n), \A i \in T : \A j \in 1..n : j < i => j \in T
  PROVE  \A i \in 1..n : i \in T <=> i < Cardinality(T) + 1
<1>1. CASE T = 1..n
  <2>1. Cardinality(T) = n
    BY <1>1, FS_Interval
  <2>. QED
    BY <1>1, <2>1
<1>2. CASE T # 1..n
  <2>. DEFINE R == (1..n) \ T
  <2>1. PICK m \in R : \A u \in R : m =< u
    <3>1. PICK i \in 1..n : i \notin T
      BY <1>2
    <3>2. R \in SUBSET Nat /\ R # {}
      BY <3>1
    <3>. HIDE DEF R
    <3>. QED
      BY <3>2, LeastNatural
  <2>2. \A i \in 1..n : i \in T <=> i < m
    BY <2>1
  <2>3. T = 1..(m - 1)
    <3>1. m \in 1..n
      BY <2>1
    <3>2. \A i \in T : i \in 1..(m - 1)
      BY <2>2, <3>1
    <3>3. \A i \in 1..(m - 1) : i \in T
      BY <2>2, <3>1
    <3>. QED
      BY <3>2, <3>3
  <2>4. Cardinality(T) = m - 1
    BY <2>1, <2>3, FS_Interval
  <2>. QED
    BY <2>1, <2>2, <2>4
<1>. QED
  BY <1>1, <1>2

\* A binary search over the highest keys ends just after those below the key.
LEMMA SearchPosition ==
  ASSUME NEW E, Ranged(E), NEW s \in Seq(E), InOrder(s), NEW k \in Int
  PROVE  LET p == Cardinality({i \in DOMAIN s : HighestKey(s[i]) < k}) + 1
         IN  /\ p \in 1..(Len(s) + 1)
             /\ \A i \in DOMAIN s : HighestKey(s[i]) < k <=> i < p
<1>. DEFINE T == {i \in DOMAIN s : HighestKey(s[i]) < k}
<1>1. DOMAIN s = 1..Len(s) /\ Len(s) \in Nat
  BY ElementsOfSeq
<1>2. \A i \in DOMAIN s : LowestKey(s[i]) \in Int /\ HighestKey(s[i]) \in Int
  BY ElementsOfSeq DEF Ranged
<1>3. ASSUME NEW i \in T, NEW j \in DOMAIN s, j < i
      PROVE  j \in T
  <2>1. HighestKey(s[j]) < LowestKey(s[i]) /\ LowestKey(s[i]) <= HighestKey(s[i])
    BY <1>3 DEF InOrder
  <2>. QED
    BY <1>2, <2>1
<1>4. T \in SUBSET (1..Len(s))
  BY <1>1
<1>5. \A i \in DOMAIN s : HighestKey(s[i]) < k <=> i \in T
  OBVIOUS
<1>. HIDE DEF T
<1>6. \A i \in DOMAIN s : i \in T <=> i < Cardinality(T) + 1
  BY <1>1, <1>3, <1>4, PrefixCount
<1>7. Cardinality(T) \in 0..Len(s)
  BY <1>1, <1>4, CountedSlots
<1>8. Cardinality(T) + 1 \in 1..(Len(s) + 1)
  BY <1>1, <1>7
<1>. QED
  BY <1>5, <1>6, <1>8 DEF T

\* The ends of a sequence one of whose slots was replaced.
LEMMA ReplaceEnds ==
  ASSUME NEW E, NEW s \in Seq(E), NEW i \in DOMAIN s, NEW u \in E
  PROVE  LET r == [s EXCEPT ![i] = u]
         IN  /\ r \in Seq(E) \ {<<>>} /\ Len(r) = Len(s)
             /\ \A j \in DOMAIN s : r[j] = IF j = i THEN u ELSE s[j]
             /\ r[1] = IF i = 1 THEN u ELSE s[1]
             /\ Last(r) = IF i = Len(s) THEN u ELSE Last(s)
<1>. DEFINE r == [s EXCEPT ![i] = u]
<1>1. DOMAIN s = 1..Len(s) /\ Len(s) \in Nat /\ i \in 1..Len(s)
  BY ElementsOfSeq
<1>2. r \in Seq(E) /\ Len(r) = Len(s)
  BY <1>1, ExceptSeq
<1>3. \A j \in DOMAIN s : r[j] = IF j = i THEN u ELSE s[j]
  OBVIOUS
<1>4. 1 \in DOMAIN s /\ Len(s) \in DOMAIN s
  BY <1>1
<1>. HIDE DEF r
<1>5. r # <<>>
  BY <1>1, <1>2, ElementsOfSeq
<1>6. Last(r) = IF i = Len(s) THEN u ELSE Last(s)
  BY <1>2, <1>3, <1>4 DEF Last
<1>7. r[1] = IF i = 1 THEN u ELSE s[1]
  BY <1>3, <1>4
<1>. QED
  BY <1>2, <1>3, <1>5, <1>6, <1>7 DEF r
-----------------------------------------------------------------------------
(***************************************************************************)
(* Changing one node.                                                      *)
(***************************************************************************)
\* A search in a leaf ends at the first entry that is not below the key.
LEMMA KeyPositionIs ==
  ASSUME NEW S, Sound(S), NEW entries \in Seq(LeafEntries(S)), InOrder(entries), NEW k \in Int
  PROVE  \A i \in DOMAIN entries : entries[i].key < k <=> i < KeyPosition(entries, k)
<1>1. \A i \in DOMAIN entries : HighestKey(entries[i]) = entries[i].key
  BY ElementsOfSeq, LeafSlot
<1>2. KeyPosition(entries, k) = Cardinality({i \in DOMAIN entries : HighestKey(entries[i]) < k}) + 1
  <2>1. {i \in DOMAIN entries : HighestKey(entries[i]) < k} = {i \in DOMAIN entries : entries[i].key < k}
    BY <1>1
  <2>. QED
    BY <2>1 DEF KeyPosition
<1>3. Ranged(LeafEntries(S))
  BY SlotsRanged
<1>4. \A i \in DOMAIN entries : HighestKey(entries[i]) < k <=> i < KeyPosition(entries, k)
  BY <1>2, <1>3, SearchPosition
<1>. QED
  BY <1>1, <1>4

\* Inserting or replacing an entry keeps a leaf's entries in order.
LEMMA UpsertInOrder ==
  ASSUME NEW S, Sound(S), NEW entries \in Seq(LeafEntries(S)) \ {<<>>}, InOrder(entries),
         NEW k \in Keys, NEW repr, [key |-> k, value |-> repr] \in LeafEntries(S)
  PROVE  /\ InOrder(Upsert(entries, k, repr))
         /\ GoesNoFurther(Upsert(entries, k, repr), entries, k)
<1>. DEFINE p == KeyPosition(entries, k)
            r == Upsert(entries, k, repr)
<1>1. /\ Ranged(LeafEntries(S)) /\ k \in Int
      /\ DOMAIN entries = 1..Len(entries) /\ Len(entries) \in Nat
  BY SlotsRanged, KeysAssumption, ElementsOfSeq
<1>2. \A i \in DOMAIN entries : /\ entries[i] \in LeafEntries(S)
                                /\ entries[i].key \in Int
                                /\ LowestKey(entries[i]) = entries[i].key
                                /\ HighestKey(entries[i]) = entries[i].key
  BY ElementsOfSeq, LeafSlot, KeysAssumption
<1>3. \A i \in DOMAIN entries : entries[i].key < k <=> i < p
  BY KeyPositionIs, KeysAssumption
<1>4. p \in 1..(Len(entries) + 1) /\ (HasKey(entries, k) => p \in DOMAIN entries)
  BY <1>1, KeyPositionRange, KeysAssumption
<1>5. 1 \in DOMAIN entries /\ Len(entries) \in DOMAIN entries
  BY <1>1, ElementsOfSeq
<1>6. CASE HasKey(entries, k)
  <2>. DEFINE u == [entries[p] EXCEPT !.value = repr]
  <2>1. u \in LeafEntries(S) /\ u.key = entries[p].key
    BY <1>2, <1>4, <1>6 DEF LeafEntries
  <2>2. r = [entries EXCEPT ![p] = u]
    BY <1>6 DEF Upsert
  <2>. HIDE DEF u, p, r
  <2>3. LowestKey(u) = LowestKey(entries[p]) /\ HighestKey(u) = HighestKey(entries[p])
    BY <1>2, <1>4, <1>6, <2>1, LeafSlot
  <2>4. InOrder(r)
    <3>1. \A j \in DOMAIN entries : /\ j < p => HighestKey(entries[j]) < LowestKey(u)
                                    /\ p < j => HighestKey(u) < LowestKey(entries[j])
      BY <1>4, <1>6, <2>3 DEF InOrder
    <3>2. LowestKey(u) <= HighestKey(u)
      BY <1>4, <1>6, <2>3 DEF InOrder
    <3>. QED
      BY <1>1, <1>4, <1>6, <2>1, <2>2, <3>1, <3>2, OrderReplace
  <2>5. entries \in Seq(LeafEntries(S)) /\ p \in DOMAIN entries /\ u \in LeafEntries(S)
    BY <1>4, <1>6, <2>1
  <2>6. /\ r[1] = IF p = 1 THEN u ELSE entries[1]
        /\ Last(r) = IF p = Len(entries) THEN u ELSE Last(entries)
    BY <2>2, <2>5, ReplaceEnds
  <2>7. LowestKey(r[1]) = LowestKey(entries[1])
    BY <2>3, <2>6
  <2>8. HighestKey(Last(r)) = HighestKey(Last(entries))
    BY <2>3, <2>6 DEF Last
  <2>9. LowestKey(entries[1]) \in Int /\ HighestKey(Last(entries)) \in Int
    BY <1>2, <1>5 DEF Last
  <2>. QED
    BY <2>4, <2>7, <2>8, <2>9 DEF GoesNoFurther, r
<1>7. CASE ~HasKey(entries, k)
  <2>. DEFINE u == [key |-> k, value |-> repr]
  <2>1. r = InsertAt(entries, p, u)
    BY <1>7 DEF Upsert
  <2>2. LowestKey(u) = k /\ HighestKey(u) = k
    BY LeafSlot
  <2>. HIDE DEF u, p, r
  <2>3. \A j \in DOMAIN entries : /\ j < p => HighestKey(entries[j]) < LowestKey(u)
                                  /\ p <= j => HighestKey(u) < LowestKey(entries[j])
    <3>1. \A j \in DOMAIN entries : entries[j].key # k
      BY <1>7 DEF HasKey
    <3>. QED
      BY <1>1, <1>2, <1>3, <1>4, <2>2, <3>1
  <2>4. u \in LeafEntries(S) /\ LowestKey(u) <= HighestKey(u)
    BY <1>1, <2>2 DEF u
  <2>5. /\ InOrder(r)
        /\ r[1] = IF p = 1 THEN u ELSE entries[1]
        /\ Last(r) = IF p = Len(entries) + 1 THEN u ELSE Last(entries)
    <3>1. entries \in Seq(LeafEntries(S)) /\ Ranged(LeafEntries(S))
      BY <1>1
    <3>2. p \in 1..(Len(entries) + 1)
      BY <1>4
    <3>. QED
      BY <2>1, <2>3, <2>4, <3>1, <3>2, OrderInsert
  <2>6. LowestKey(entries[1]) \in Int /\ HighestKey(Last(entries)) \in Int
    BY <1>2, <1>5 DEF Last
  <2>. QED
    BY <1>1, <2>2, <2>5, <2>6 DEF GoesNoFurther, r
<1>. QED
  BY <1>6, <1>7

\* So does removing one.
LEMMA RemoveKeyInOrder ==
  ASSUME NEW S, Sound(S), NEW entries \in Seq(LeafEntries(S)), InOrder(entries),
         NEW k \in Keys, HasKey(entries, k)
  PROVE  /\ InOrder(RemoveKey(entries, k))
         /\ GoesNoFurther(RemoveKey(entries, k), entries, k)
<1>1. KeyPosition(entries, k) \in DOMAIN entries
  BY KeyPositionRange, KeysAssumption, ElementsOfSeq
<1>. QED
  BY <1>1, SlotsRanged, OrderRemove DEF RemoveKey

\* A descent goes to the child the key belongs to.
LEMMA ChildIndexMeant ==
  ASSUME NEW S, NEW children \in Seq(InternalEntries(S)) \ {<<>>}, NEW k \in Int
  PROVE  Meant(children, ChildIndex(children, k), k)
<1>. DEFINE covering == {i \in DOMAIN children : k <= children[i].boundary_key}
            c == ChildIndex(children, k)
<1>1. DOMAIN children = 1..Len(children) /\ Len(children) \in Nat
  BY ElementsOfSeq
<1>2. \A i \in DOMAIN children : /\ HighestKey(children[i]) = children[i].boundary_key
                                 /\ children[i].boundary_key \in Int
  BY ElementsOfSeq, InternalSlot, KeysAssumption
<1>3. \A i \in DOMAIN children : i \notin covering => HighestKey(children[i]) < k
  BY <1>2
<1>4. CASE covering = {}
  <2>1. c = Len(children)
    BY <1>4 DEF ChildIndex
  <2>. HIDE DEF c, covering
  <2>2. \A j \in 1..(c - 1) : HighestKey(children[j]) < k
    BY <1>1, <1>3, <1>4, <2>1
  <2>. QED
    BY <1>1, <2>1, <2>2 DEF Meant, c
<1>5. CASE covering # {}
  <2>1. c = Min(covering)
    BY <1>5 DEF ChildIndex
  <2>2. covering \in SUBSET Nat
    BY <1>1
  <2>3. c \in covering /\ \A u \in covering : c =< u
    <3>. HIDE DEF covering, c
    <3>. QED
      BY <1>5, <2>1, <2>2, LeastNatural
  <2>4. k <= HighestKey(children[c])
    BY <1>2, <2>3
  <2>5. ASSUME NEW j \in 1..(c - 1)
        PROVE  HighestKey(children[j]) < k
    <3>1. j \in DOMAIN children /\ ~(c =< j)
      BY <1>1, <2>3
    <3>. QED
      BY <1>3, <2>3, <3>1
  <2>. QED
    BY <2>4, <2>5 DEF Meant
<1>. QED
  BY <1>4, <1>5

\* Putting one slot in the place of the one a key belongs to.
LEMMA OrderUpdate ==
  ASSUME NEW E, Ranged(E), NEW s \in Seq(E), InOrder(s), NEW i \in DOMAIN s,
         NEW k \in Int, Meant(s, i, k), NEW u \in E, LowestKey(u) <= HighestKey(u),
         GoesNoFurther(<<u>>, <<s[i]>>, k)
  PROVE  /\ InOrder([s EXCEPT ![i] = u])
         /\ GoesNoFurther([s EXCEPT ![i] = u], s, k)
<1>. DEFINE r == [s EXCEPT ![i] = u]
<1>1. /\ LowestKey(s[i]) <= LowestKey(u) \/ k <= LowestKey(u)
      /\ HighestKey(u) <= HighestKey(s[i]) \/ HighestKey(u) <= k
  <2>1. <<u>> # <<>> /\ <<u>>[1] = u /\ <<s[i]>>[1] = s[i]
        /\ Last(<<u>>) = u /\ Last(<<s[i]>>) = s[i]
    BY DEF Last
  <2>. QED
    BY <2>1 DEF GoesNoFurther
<1>2. LowestKey(u) \in Int /\ HighestKey(u) \in Int
  BY DEF Ranged
<1>3. \A j \in DOMAIN s : /\ j < i => HighestKey(s[j]) < LowestKey(u)
                          /\ i < j => HighestKey(u) < LowestKey(s[j])
  BY <1>1, <1>2, StaysBetween
<1>4. InOrder(r)
  BY <1>3, OrderReplace
<1>5. /\ r[1] = IF i = 1 THEN u ELSE s[1]
      /\ Last(r) = IF i = Len(s) THEN u ELSE Last(s)
  BY ReplaceEnds
<1>6. LowestKey(s[1]) \in Int /\ HighestKey(Last(s)) \in Int
  <2>1. s # <<>>
    BY ElementsOfSeq
  <2>. QED
    BY <2>1, OrderEnds DEF Last
<1>7. GoesNoFurther(r, s, k)
  <2>. HIDE DEF r
  <2>1. LowestKey(s[1]) <= LowestKey(r[1]) \/ k <= LowestKey(r[1])
    BY <1>1, <1>5, <1>6
  <2>2. HighestKey(Last(r)) <= HighestKey(Last(s)) \/ HighestKey(Last(r)) <= k
    BY <1>1, <1>5, <1>6 DEF Last
  <2>. QED
    BY <2>1, <2>2 DEF GoesNoFurther
<1>. QED
  BY <1>4, <1>7

\* A new sibling goes right after the child it was split off.
LEMMA BoundaryPositionIs ==
  ASSUME NEW S, Sound(S), NEW l, NEW children \in Seq(EntriesBelow(S, l)), InOrder(children),
         NEW i \in DOMAIN children, NEW u \in EntriesBelow(S, l), LowestKey(u) <= HighestKey(u),
         HighestKey(children[i]) < LowestKey(u),
         \A j \in DOMAIN children : i < j => HighestKey(u) < LowestKey(children[j])
  PROVE  BoundaryPosition(children, u.boundary_key) = i + 1
<1>. DEFINE b == u.boundary_key
            p == BoundaryPosition(children, b)
<1>1. /\ Ranged(EntriesBelow(S, l))
      /\ DOMAIN children = 1..Len(children) /\ Len(children) \in Nat
  BY SlotsRanged, ElementsOfSeq
<1>2. HighestKey(u) = b /\ b \in Int /\ LowestKey(u) \in Int
  BY <1>1, InternalSlot, KeysAssumption DEF EntriesBelow, Ranged
<1>3. \A j \in DOMAIN children : /\ HighestKey(children[j]) = children[j].boundary_key
                                 /\ HighestKey(children[j]) \in Int
                                 /\ LowestKey(children[j]) \in Int
  BY <1>1, ElementsOfSeq, InternalSlot DEF EntriesBelow, Ranged
<1>4. p = Cardinality({j \in DOMAIN children : HighestKey(children[j]) < b}) + 1
  <2>1. {j \in DOMAIN children : HighestKey(children[j]) < b}
          = {j \in DOMAIN children : children[j].boundary_key < b}
    BY <1>3
  <2>. QED
    BY <2>1 DEF BoundaryPosition
<1>. HIDE DEF p, b
<1>5. /\ p \in 1..(Len(children) + 1)
      /\ \A j \in DOMAIN children : HighestKey(children[j]) < b <=> j < p
  BY <1>1, <1>2, <1>4, SearchPosition
<1>6. i < p
  BY <1>2, <1>3, <1>5
<1>7. ASSUME i + 1 < p
      PROVE  FALSE
  <2>1. i + 1 \in DOMAIN children /\ i < i + 1
    BY <1>1, <1>5, <1>7
  <2>2. HighestKey(children[i + 1]) < b
    BY <1>5, <1>7, <2>1
  <2>3. HighestKey(u) < LowestKey(children[i + 1])
    BY <2>1
  <2>4. LowestKey(children[i + 1]) <= HighestKey(children[i + 1])
    BY <2>1 DEF InOrder
  <2>. QED
    BY <1>2, <1>3, <2>1, <2>2, <2>3, <2>4
<1>. QED
  BY <1>1, <1>5, <1>6, <1>7 DEF p, b

\* The children of a node after an insert below one of them are in order.
LEMMA AfterInsertInOrder ==
  ASSUME NEW S, Sound(S), NEW l, NEW children \in Seq(EntriesBelow(S, l)), InOrder(children),
         NEW i \in DOMAIN children, NEW k \in Int, Meant(children, i, k),
         NEW update \in Seq(EntriesBelow(S, l)), Len(update) \in 1..2, InOrder(update),
         GoesNoFurther(update, <<children[i]>>, k)
  PROVE  /\ InOrder(AfterInsert(children, i, update))
         /\ GoesNoFurther(AfterInsert(children, i, update), children, k)
<1>. DEFINE u == update[1]
            s == [children EXCEPT ![i] = u]
<1>1. /\ Ranged(EntriesBelow(S, l)) /\ u \in EntriesBelow(S, l) /\ 1 \in DOMAIN update /\ DOMAIN update = 1..Len(update)
      /\ DOMAIN children = 1..Len(children) /\ Len(children) \in Nat
  BY SlotsRanged, ElementsOfSeq
<1>2. LowestKey(u) <= HighestKey(u) /\ LowestKey(u) \in Int /\ HighestKey(u) \in Int
  BY <1>1 DEF InOrder, Ranged
<1>3. /\ LowestKey(children[i]) \in Int /\ HighestKey(children[i]) \in Int
      /\ LowestKey(children[i]) <= HighestKey(children[i])
  BY <1>1, ElementsOfSeq DEF InOrder, Ranged
<1>4. /\ LowestKey(children[i]) <= LowestKey(u) \/ k <= LowestKey(u)
      /\ HighestKey(Last(update)) <= HighestKey(children[i]) \/ HighestKey(Last(update)) <= k
  <2>1. update # <<>> /\ <<children[i]>>[1] = children[i] /\ Last(<<children[i]>>) = children[i]
    BY <1>1, ElementsOfSeq DEF Last
  <2>. QED
    BY <2>1 DEF GoesNoFurther
<1>5. CASE Len(update) = 1
  <2>1. Last(update) = u
    BY <1>5 DEF Last
  <2>2. GoesNoFurther(<<u>>, <<children[i]>>, k)
    BY <1>4, <2>1 DEF GoesNoFurther, Last
  <2>3. AfterInsert(children, i, update) = s
    BY <1>5 DEF AfterInsert
  <2>. HIDE DEF u
  <2>4. InOrder(s) /\ GoesNoFurther(s, children, k)
    BY <1>1, <1>2, <2>2, OrderUpdate
  <2>. QED
    BY <2>3, <2>4
<1>6. CASE Len(update) = 2
  <2>. DEFINE v == update[2]
  <2>1. v \in EntriesBelow(S, l) /\ Last(update) = v /\ LowestKey(v) <= HighestKey(v)
        /\ HighestKey(u) < LowestKey(v)
        /\ LowestKey(v) \in Int /\ HighestKey(v) \in Int
    BY <1>1, <1>6, ElementsOfSeq DEF InOrder, Ranged, Last
  <2>2. AfterInsert(children, i, update)
          = InsertAt(s, BoundaryPosition(s, v.boundary_key), v)
    BY <1>6 DEF AfterInsert
  <2>. HIDE DEF u, v
  <2>3. /\ LowestKey(children[i]) <= LowestKey(u) \/ k <= LowestKey(u)
        /\ HighestKey(v) <= HighestKey(children[i]) \/ HighestKey(v) <= k
    BY <1>4, <2>1
  <2>4. \A j \in DOMAIN children : /\ j < i => HighestKey(children[j]) < LowestKey(u)
                                   /\ i < j => HighestKey(v) < LowestKey(children[j])
    BY <1>1, <1>2, <2>1, <2>3, StaysBetween
  <2>5. \A j \in DOMAIN children : LowestKey(children[j]) \in Int
    BY <1>1, ElementsOfSeq DEF Ranged
  <2>6. \A j \in DOMAIN children : i < j => HighestKey(u) < LowestKey(children[j])
    BY <1>2, <2>1, <2>4, <2>5
  <2>7. InOrder(s)
    BY <1>1, <1>2, <2>4, <2>6, OrderReplace
  <2>8. /\ s \in Seq(EntriesBelow(S, l)) /\ Len(s) = Len(children)
        /\ \A j \in DOMAIN children : s[j] = IF j = i THEN u ELSE children[j]
        /\ s[1] = IF i = 1 THEN u ELSE children[1]
        /\ Last(s) = IF i = Len(children) THEN u ELSE Last(children)
    <3>1. s \in Seq(EntriesBelow(S, l)) /\ Len(s) = Len(children)
      BY <1>1, ReplaceEnds
    <3>2. \A j \in DOMAIN children : s[j] = IF j = i THEN u ELSE children[j]
      OBVIOUS
    <3>3. s[1] = IF i = 1 THEN u ELSE children[1]
      BY <1>1, ReplaceEnds
    <3>4. Last(s) = IF i = Len(children) THEN u ELSE Last(children)
      <4>1. Len(children) \in DOMAIN children
        BY <1>1
      <4>. HIDE DEF s
      <4>. QED
        BY <3>1, <3>2, <4>1 DEF Last
    <3>. QED
      BY <3>1, <3>2, <3>3, <3>4
  <2>. HIDE DEF s
  <2>9. DOMAIN s = DOMAIN children
    BY <1>1, <2>8, ElementsOfSeq
  <2>10. \A j \in DOMAIN s : i < j => HighestKey(v) < LowestKey(s[j])
    BY <1>1, <2>4, <2>8, <2>9
  <2>11. HighestKey(s[i]) < LowestKey(v)
    BY <2>1, <2>8
  <2>12. BoundaryPosition(s, v.boundary_key) = i + 1
    <3>1. s \in Seq(EntriesBelow(S, l)) /\ i \in DOMAIN s
      BY <2>8, <2>9
    <3>2. v \in EntriesBelow(S, l) /\ LowestKey(v) <= HighestKey(v)
      BY <2>1
    <3>. QED
      BY <2>7, <2>10, <2>11, <3>1, <3>2, BoundaryPositionIs
  <2>13. \A j \in DOMAIN s : /\ j < i + 1 => HighestKey(s[j]) < LowestKey(v)
                             /\ i + 1 <= j => HighestKey(v) < LowestKey(s[j])
    <3>. SUFFICES ASSUME NEW j \in DOMAIN s
                  PROVE  /\ j < i + 1 => HighestKey(s[j]) < LowestKey(v)
                         /\ i + 1 <= j => HighestKey(v) < LowestKey(s[j])
      OBVIOUS
    <3>1. CASE i < j
      BY <1>1, <2>9, <2>10, <3>1
    <3>2. CASE j = i
      BY <1>1, <2>9, <2>11, <3>2
    <3>3. CASE j < i
      <4>1. s[j] = children[j] /\ j \in DOMAIN children /\ j # i
        BY <1>1, <2>8, <2>9, <3>3
      <4>2. HighestKey(s[j]) < LowestKey(u)
        BY <2>4, <3>3, <4>1
      <4>3. HighestKey(s[j]) \in Int
        BY <1>1, <4>1, ElementsOfSeq DEF Ranged
      <4>4. HighestKey(s[j]) < LowestKey(v)
        BY <1>2, <2>1, <4>2, <4>3
      <4>. QED
        BY <1>1, <2>9, <3>3, <4>4
    <3>. QED
      BY <1>1, <2>9, <3>1, <3>2, <3>3
  <2>14. i + 1 \in 1..(Len(s) + 1)
    BY <1>1, <2>8
  <2>. DEFINE r == InsertAt(s, i + 1, v)
  <2>15. /\ InOrder(r)
         /\ r[1] = IF i + 1 = 1 THEN v ELSE s[1]
         /\ Last(r) = IF i + 1 = Len(s) + 1 THEN v ELSE Last(s)
    <3>1. s \in Seq(EntriesBelow(S, l)) /\ Ranged(EntriesBelow(S, l))
      BY <1>1, <2>8
    <3>2. v \in EntriesBelow(S, l) /\ LowestKey(v) <= HighestKey(v)
      BY <2>1
    <3>. QED
      BY <2>7, <2>13, <2>14, <3>1, <3>2, OrderInsert
  <2>. HIDE DEF r
  <2>16. /\ r[1] = IF i = 1 THEN u ELSE children[1]
         /\ Last(r) = IF i = Len(children) THEN v ELSE Last(children)
    BY <1>1, <2>8, <2>15
  <2>17. LowestKey(children[1]) \in Int /\ HighestKey(Last(children)) \in Int
    <3>1. children # <<>>
      BY ElementsOfSeq
    <3>. QED
      BY <1>1, <3>1, OrderEnds DEF Last
  <2>18. LowestKey(children[1]) <= LowestKey(r[1]) \/ k <= LowestKey(r[1])
    BY <2>3, <2>16, <2>17
  <2>19. HighestKey(Last(r)) <= HighestKey(Last(children)) \/ HighestKey(Last(r)) <= k
    BY <2>3, <2>16, <2>17 DEF Last
  <2>. QED
    BY <2>2, <2>12, <2>15, <2>18, <2>19 DEF GoesNoFurther, r
<1>. QED
  BY <1>5, <1>6

\* Where a part of a sequence begins and ends.
LEMMA PartEnds ==
  ASSUME NEW E, NEW s \in Seq(E), NEW m \in DOMAIN s, NEW n \in DOMAIN s, m <= n
  PROVE  /\ SubSeq(s, m, n) \in Seq(E) \ {<<>>}
         /\ SubSeq(s, m, n)[1] = s[m]
         /\ Last(SubSeq(s, m, n)) = s[n]
<1>. DEFINE t == SubSeq(s, m, n)
<1>1. DOMAIN s = 1..Len(s) /\ Len(s) \in Nat /\ \A i \in m..n : s[i] \in E
  BY ElementsOfSeq
<1>2. /\ t \in Seq(E) /\ Len(t) = n - m + 1
      /\ \A i \in 1..(n - m + 1) : t[i] = s[m + i - 1]
  BY <1>1, SubSeqProperties
<1>. HIDE DEF t
<1>3. t[1] = s[m] /\ t[n - m + 1] = s[n]
  <2>1. 1 \in 1..(n - m + 1) /\ n - m + 1 \in 1..(n - m + 1)
    BY <1>1
  <2>2. m + 1 - 1 = m /\ m + (n - m + 1) - 1 = n
    BY <1>1
  <2>. QED
    BY <1>2, <2>1, <2>2
<1>4. t # <<>>
  BY <1>1, <1>2, ElementsOfSeq
<1>. QED
  BY <1>2, <1>3, <1>4 DEF Last, t

\* Where two sequences one after the other begin and end.
LEMMA ConcatEnds ==
  ASSUME NEW E, NEW s \in Seq(E) \ {<<>>}, NEW t \in Seq(E) \ {<<>>}
  PROVE  /\ s \o t \in Seq(E) \ {<<>>}
         /\ (s \o t)[1] = s[1]
         /\ Last(s \o t) = Last(t)
<1>1. Len(s) \in Nat \ {0} /\ Len(t) \in Nat \ {0}
  BY ElementsOfSeq
<1>2. /\ s \o t \in Seq(E)
      /\ Len(s \o t) = Len(s) + Len(t)
      /\ \A i \in 1..(Len(s) + Len(t)) : (s \o t)[i] = IF i <= Len(s) THEN s[i] ELSE t[i - Len(s)]
  BY ConcatProperties
<1>3. (s \o t)[1] = s[1]
  BY <1>1, <1>2
<1>4. (s \o t)[Len(s) + Len(t)] = t[Len(t)]
  <2>1. Len(s) + Len(t) \in 1..(Len(s) + Len(t)) /\ ~(Len(s) + Len(t) <= Len(s))
    BY <1>1
  <2>2. (Len(s) + Len(t)) - Len(s) = Len(t)
    BY <1>1
  <2>. QED
    BY <1>2, <2>1, <2>2
<1>5. s \o t # <<>>
  BY <1>1, <1>2, ElementsOfSeq
<1>. QED
  BY <1>2, <1>3, <1>4, <1>5 DEF Last

\* The entry for a node whose slots are in order has its ends in order.
LEMMA EntryInOrder ==
  ASSUME NEW S, Sound(S), NEW n \in BalancedOver(S), InOrder(Slots(n))
  PROVE  LET e == EntryFor(n)
         IN  /\ LowestKey(e) = LowestKey(Slots(n)[1])
             /\ HighestKey(e) = HighestKey(Last(Slots(n)))
             /\ LowestKey(e) \in Int /\ HighestKey(e) \in Int
             /\ LowestKey(e) <= HighestKey(e)
<1>. DEFINE s == Slots(n)
            E == SlotsOver(n, S)
<1>1. s \in Seq(E) \ {<<>>} /\ Ranged(E)
  BY NodeKinds, SlotsRanged
<1>2. LowestKey(EntryFor(n)) = LowestKey(s[1]) /\ HighestKey(EntryFor(n)) = HighestKey(Last(s))
  BY EntryRange
<1>3. InOrder(s)
  OBVIOUS
<1>. HIDE DEF s, E
<1>4. /\ 1 \in DOMAIN s /\ Len(s) \in DOMAIN s
      /\ \A i \in DOMAIN s : /\ LowestKey(s[i]) \in Int /\ HighestKey(s[i]) \in Int
                             /\ LowestKey(s[1]) <= LowestKey(s[i])
                             /\ LowestKey(s[i]) <= HighestKey(s[i])
  BY <1>1, <1>3, OrderEnds
<1>. QED
  BY <1>2, <1>4 DEF Last, s

\* A split cuts a node between two slots.
LEMMA SplitInOrder ==
  ASSUME NEW S, Sound(S), NEW n \in BalancedOver(S), InOrder(Slots(n)), NEW c \in Configs
  PROVE  LET nodes   == Split(n, c)
             entries == [i \in DOMAIN nodes |-> EntryFor(nodes[i])]
         IN  /\ \A i \in DOMAIN nodes : InOrder(Slots(nodes[i]))
             /\ InOrder(entries)
             /\ LowestKey(entries[1]) = LowestKey(Slots(n)[1])
             /\ HighestKey(Last(entries)) = HighestKey(Last(Slots(n)))
<1>. DEFINE s == Slots(n)
            mid == Len(s) \div 2
            left == SubSeq(s, 1, mid)
            right == SubSeq(s, mid + 1, Len(s))
            nodes == Split(n, c)
            entries == [i \in DOMAIN nodes |-> EntryFor(nodes[i])]
            E == SlotsOver(n, S)
<1>1. s \in Seq(E) \ {<<>>} /\ Ranged(E) /\ InOrder(s)
  BY NodeKinds, SlotsRanged
<1>2. Len(s) \in Nat \ {0} /\ DOMAIN s = 1..Len(s)
  BY <1>1, ElementsOfSeq
<1>3. CASE Len(s) > c.target_fanout
  <2>. DEFINE a == WithSlots(n, left)
              b == WithSlots(n, right)
  <2>1. Len(s) >= 2
    BY <1>2, <1>3, ConfigsAssumption
  <2>2. mid \in DOMAIN s /\ mid + 1 \in DOMAIN s /\ 1 \in DOMAIN s /\ Len(s) \in DOMAIN s
        /\ mid < mid + 1 /\ mid + 1 <= Len(s) /\ 1 <= mid
    BY <1>2, <2>1
  <2>3. nodes = <<a, b>>
    BY <1>3 DEF Split
  <2>. HIDE DEF mid, s, E
  <2>4. left \in Seq(E) \ {<<>>} /\ left[1] = s[1] /\ Last(left) = s[mid]
    BY <1>1, <2>2, PartEnds
  <2>5. right \in Seq(E) \ {<<>>} /\ right[1] = s[mid + 1] /\ Last(right) = Last(s)
    <3>1. right \in Seq(E) \ {<<>>} /\ right[1] = s[mid + 1] /\ Last(right) = s[Len(s)]
      BY <1>1, <2>2, PartEnds
    <3>. QED
      BY <3>1 DEF Last
  <2>6. InOrder(left) /\ InOrder(right)
    <3>1. mid \in 0..Len(s) /\ 1 \in 1..(Len(s) + 1) /\ mid + 1 \in 1..(Len(s) + 1)
          /\ Len(s) \in 0..Len(s)
      BY <1>2, <2>2
    <3>. QED
      BY <1>1, <3>1, OrderPart
  <2>. HIDE DEF left, right
  <2>7. a \in BalancedOver(S) /\ Slots(a) = left
    BY <2>4, WithSlotsOver DEF E
  <2>8. b \in BalancedOver(S) /\ Slots(b) = right
    BY <2>5, WithSlotsOver DEF E
  <2>. HIDE DEF a, b
  <2>9. /\ LowestKey(EntryFor(a)) = LowestKey(s[1])
        /\ HighestKey(EntryFor(a)) = HighestKey(s[mid])
        /\ LowestKey(EntryFor(a)) <= HighestKey(EntryFor(a))
    BY <2>4, <2>6, <2>7, EntryInOrder
  <2>10. /\ LowestKey(EntryFor(b)) = LowestKey(s[mid + 1])
         /\ HighestKey(EntryFor(b)) = HighestKey(Last(s))
         /\ LowestKey(EntryFor(b)) <= HighestKey(EntryFor(b))
    BY <2>5, <2>6, <2>8, EntryInOrder
  <2>11. HighestKey(s[mid]) < LowestKey(s[mid + 1])
    BY <1>1, <2>2 DEF InOrder
  <2>12. /\ DOMAIN entries = 1..2 /\ Len(entries) = 2
         /\ entries[1] = EntryFor(a) /\ entries[2] = EntryFor(b)
    BY <2>3
  <2>. HIDE DEF entries
  <2>13. InOrder(entries)
    <3>1. \A i \in 1..2 : i = 1 \/ i = 2
      OBVIOUS
    <3>2. \A i \in DOMAIN entries : LowestKey(entries[i]) <= HighestKey(entries[i])
      BY <2>9, <2>10, <2>12, <3>1
    <3>3. \A i, j \in DOMAIN entries : i < j => HighestKey(entries[i]) < LowestKey(entries[j])
      <4>1. \A i, j \in 1..2 : i < j => i = 1 /\ j = 2
        OBVIOUS
      <4>. QED
        BY <2>9, <2>10, <2>11, <2>12, <4>1
    <3>. QED
      BY <3>2, <3>3 DEF InOrder
  <2>14. \A i \in DOMAIN nodes : InOrder(Slots(nodes[i]))
    BY <2>3, <2>6, <2>7, <2>8
  <2>15. Last(entries) = EntryFor(b)
    BY <2>12 DEF Last
  <2>. QED
    BY <2>9, <2>10, <2>12, <2>13, <2>14, <2>15 DEF entries, s
<1>4. CASE ~(Len(s) > c.target_fanout)
  <2>1. nodes = <<n>>
    BY <1>4 DEF Split
  <2>2. DOMAIN entries = 1..1 /\ Len(entries) = 1 /\ entries[1] = EntryFor(n)
    BY <2>1
  <2>3. /\ LowestKey(EntryFor(n)) = LowestKey(s[1])
        /\ HighestKey(EntryFor(n)) = HighestKey(Last(s))
        /\ LowestKey(EntryFor(n)) <= HighestKey(EntryFor(n))
    BY EntryInOrder
  <2>4. \A i \in DOMAIN nodes : InOrder(Slots(nodes[i]))
    BY <2>1
  <2>. HIDE DEF entries, s, nodes
  <2>5. InOrder(entries)
    <3>1. \A i \in 1..1 : i = 1
      OBVIOUS
    <3>. QED
      BY <2>2, <2>3, <3>1 DEF InOrder
  <2>6. Last(entries) = EntryFor(n)
    BY <2>2 DEF Last
  <2>. QED
    BY <2>2, <2>3, <2>4, <2>5, <2>6 DEF entries, s, nodes
<1>. QED
  BY <1>3, <1>4
-----------------------------------------------------------------------------
(***************************************************************************)
(* Repairing a child that holds too few slots.                             *)
(***************************************************************************)
\* The slots of every node of a store are in order.
Ordered(S) == \A n \in NodesIn(S) : InOrder(Slots(n))

\* What an entry for a stored child says of the child's slots.
LEMMA ChildEnds ==
  ASSUME NEW S, Sound(S), Ordered(S), NEW l, NEW children \in Seq(EntriesBelow(S, l)),
         NEW i \in DOMAIN children
  PROVE  LET slots == Slots(children[i].child_hash)
         IN  /\ InOrder(slots)
             /\ LowestKey(children[i]) = LowestKey(slots[1])
             /\ HighestKey(children[i]) = HighestKey(Last(slots))
<1>. DEFINE n == children[i].child_hash
<1>1. children[i] \in EntriesBelow(S, l)
  BY ElementsOfSeq
<1>2. children[i] = EntryFor(n) /\ n \in BalancedOver(S) /\ n \in NodesIn(S)
  BY <1>1, ChildOver DEF EntriesBelow, InternalEntries
<1>3. InOrder(Slots(n))
  BY <1>2 DEF Ordered
<1>. HIDE DEF n
<1>4. LowestKey(EntryFor(n)) = LowestKey(Slots(n)[1]) /\ HighestKey(EntryFor(n)) = HighestKey(Last(Slots(n)))
  BY <1>2, EntryRange
<1>. QED
  BY <1>2, <1>3, <1>4 DEF n

\* Two neighbours replaced by two that share their range.
LEMMA OrderReplaceTwo ==
  ASSUME NEW E, Ranged(E), NEW s \in Seq(E), InOrder(s),
         NEW i \in DOMAIN s, NEW j \in DOMAIN s, j = i + 1, NEW u \in E, NEW v \in E,
         LowestKey(s[i]) = LowestKey(u), HighestKey(v) = HighestKey(s[j]),
         LowestKey(u) <= HighestKey(u), HighestKey(u) < LowestKey(v),
         LowestKey(v) <= HighestKey(v), NEW k
  PROVE  LET r == [s EXCEPT ![i] = u, ![j] = v]
         IN  /\ InOrder(r)
             /\ GoesNoFurther(r, s, k)
             /\ DOMAIN r = DOMAIN s
             /\ \A a \in DOMAIN s : r[a] = IF a = j THEN v ELSE IF a = i THEN u ELSE s[a]
<1>. DEFINE r == [s EXCEPT ![i] = u, ![j] = v]
            once == [s EXCEPT ![i] = u]
<1>1. DOMAIN s = 1..Len(s) /\ Len(s) \in Nat /\ i \in 1..Len(s) /\ j \in 1..Len(s)
  BY ElementsOfSeq
<1>2. r \in Seq(E) /\ Len(r) = Len(s)
  <2>1. once \in Seq(E) /\ Len(once) = Len(s)
    BY <1>1, ExceptSeq
  <2>2. r = [once EXCEPT ![j] = v]
    OBVIOUS
  <2>. HIDE DEF once, r
  <2>. QED
    BY <1>1, <2>1, <2>2, ExceptSeq
<1>3. DOMAIN r = DOMAIN s
  OBVIOUS
<1>4. \A a \in DOMAIN s : r[a] = IF a = j THEN v ELSE IF a = i THEN u ELSE s[a]
  BY <1>1
<1>5. \A a \in DOMAIN s : LowestKey(s[a]) \in Int /\ HighestKey(s[a]) \in Int
  BY ElementsOfSeq DEF Ranged
<1>6. /\ LowestKey(u) \in Int /\ HighestKey(u) \in Int
      /\ LowestKey(v) \in Int /\ HighestKey(v) \in Int
  BY DEF Ranged
<1>. HIDE DEF r
<1>7. ASSUME NEW a \in DOMAIN r
      PROVE  LowestKey(r[a]) <= HighestKey(r[a])
  <2>1. /\ a \in DOMAIN s
        /\ LowestKey(s[a]) <= HighestKey(s[a])
    BY <1>3 DEF InOrder
  <2>2. r[a] = IF a = j THEN v ELSE IF a = i THEN u ELSE s[a]
    BY <1>4, <2>1
  <2>. QED
    BY <2>1, <2>2
\* A slot before the two is below both, one after them above both.
<1>8. \A a \in DOMAIN s : /\ a < i => /\ HighestKey(s[a]) < LowestKey(u)
                                      /\ HighestKey(s[a]) < LowestKey(v)
                          /\ j < a => /\ HighestKey(u) < LowestKey(s[a])
                                      /\ HighestKey(v) < LowestKey(s[a])
  BY <1>5, <1>6 DEF InOrder
<1>9. ASSUME NEW a \in DOMAIN r, NEW b \in DOMAIN r, a < b
      PROVE  HighestKey(r[a]) < LowestKey(r[b])
  <2>1. a \in DOMAIN s /\ b \in DOMAIN s /\ a \in Int /\ b \in Int /\ i \in Int
    BY <1>1, <1>3
  <2>2. CASE a # i /\ a # j /\ b # i /\ b # j
    BY <1>4, <1>9, <2>1, <2>2 DEF InOrder
  <2>3. CASE a = i /\ b = j
    BY <1>4, <2>1, <2>3
  <2>4. CASE (a = i \/ a = j) /\ b # j
    <3>1. j < b
      BY <1>9, <2>1, <2>4
    <3>. QED
      BY <1>4, <1>8, <2>1, <2>4, <3>1
  <2>5. CASE (b = i \/ b = j) /\ a # i
    <3>1. a < i
      BY <1>9, <2>1, <2>5
    <3>. QED
      BY <1>4, <1>8, <2>1, <2>5, <3>1
  <2>6. (a = i \/ a = j) /\ b = j => a = i
    BY <1>9, <2>1
  <2>. QED
    BY <2>2, <2>3, <2>4, <2>5, <2>6
<1>10. InOrder(r)
  BY <1>7, <1>9 DEF InOrder
<1>11. LowestKey(r[1]) = LowestKey(s[1])
  <2>1. 1 \in DOMAIN s /\ j # 1
    BY <1>1
  <2>. QED
    BY <1>4, <2>1
<1>12. HighestKey(Last(r)) = HighestKey(Last(s))
  <2>1. Len(s) \in DOMAIN s /\ i # Len(s)
    BY <1>1
  <2>. QED
    BY <1>2, <1>4, <2>1 DEF Last
<1>13. LowestKey(s[1]) \in Int /\ HighestKey(Last(s)) \in Int
  <2>1. 1 \in DOMAIN s /\ Len(s) \in DOMAIN s
    BY <1>1
  <2>. QED
    BY <1>5, <2>1 DEF Last
<1>14. GoesNoFurther(r, s, k)
  BY <1>11, <1>12, <1>13 DEF GoesNoFurther
<1>. QED
  BY <1>3, <1>4, <1>10, <1>14 DEF r

\* One element in the place of two neighbours.
OneForTwo(s, i, w) == RemoveAt([s EXCEPT ![i] = w], i + 1)

\* Two neighbours replaced by one that spans their range.
LEMMA OrderMergeTwo ==
  ASSUME NEW E, Ranged(E), NEW s \in Seq(E), InOrder(s),
         NEW i \in DOMAIN s, i + 1 \in DOMAIN s, NEW w \in E,
         LowestKey(w) = LowestKey(s[i]), HighestKey(w) = HighestKey(s[i + 1]), NEW k
  PROVE  LET r == OneForTwo(s, i, w)
         IN  /\ InOrder(r)
             /\ GoesNoFurther(r, s, k)
             /\ \A a \in DOMAIN r : r[a] = w \/ \E b \in DOMAIN s : r[a] = s[b]
<1>. DEFINE once == [s EXCEPT ![i] = w]
            r == RemoveAt(once, i + 1)
            f(a) == IF a <= i THEN a ELSE a + 1
<1>1. DOMAIN s = 1..Len(s) /\ Len(s) \in Nat /\ i \in 1..Len(s) /\ i + 1 \in 1..Len(s)
  BY ElementsOfSeq
<1>2. /\ once \in Seq(E) /\ Len(once) = Len(s)
      /\ \A a \in DOMAIN s : once[a] = IF a = i THEN w ELSE s[a]
  <2>1. once \in Seq(E) /\ Len(once) = Len(s)
    BY <1>1, ExceptSeq
  <2>2. \A a \in DOMAIN s : once[a] = IF a = i THEN w ELSE s[a]
    BY <1>1, Zenon
  <2>. QED
    BY <2>1, <2>2
<1>. HIDE DEF once
<1>3. r \in Seq(E) /\ Len(r) = Len(s) - 1
  BY <1>1, <1>2, RemoveAtSeq
<1>4. \A a \in 1..(Len(s) - 1) : r[a] = IF a < i + 1 THEN once[a] ELSE once[a + 1]
  BY <1>1, <1>2, RemoveAtIndex
<1>5. DOMAIN r = 1..(Len(s) - 1)
  BY <1>3, ElementsOfSeq
<1>. HIDE DEF r
<1>6. \A a \in DOMAIN r : f(a) \in DOMAIN s /\ r[a] = IF a = i THEN w ELSE s[f(a)]
  <2>. SUFFICES ASSUME NEW a \in DOMAIN r
                PROVE  f(a) \in DOMAIN s /\ r[a] = IF a = i THEN w ELSE s[f(a)]
    OBVIOUS
  <2>1. f(a) \in DOMAIN s /\ r[a] = once[f(a)] /\ (f(a) = i <=> a = i)
    BY <1>1, <1>4, <1>5
  <2>. HIDE DEF f
  <2>. QED
    BY <1>2, <2>1
<1>7. \A a, b \in DOMAIN r : a < b => f(a) < f(b)
  BY <1>1, <1>5
<1>8. \A b \in DOMAIN r : i < b => i + 1 < f(b)
  BY <1>1, <1>5
<1>9. \A a \in DOMAIN r : a < i => f(a) < i
  BY <1>1, <1>5
<1>10. f(1) = 1 /\ f(Len(s) - 1) = IF i = Len(s) - 1 THEN i ELSE Len(s)
  BY <1>1
<1>. HIDE DEF f
<1>11. /\ \A a \in DOMAIN s : LowestKey(s[a]) \in Int /\ HighestKey(s[a]) \in Int
       /\ LowestKey(w) \in Int /\ HighestKey(w) \in Int
  BY ElementsOfSeq DEF Ranged
<1>12. LowestKey(w) <= HighestKey(w)
  <2>1. /\ LowestKey(s[i]) <= HighestKey(s[i])
        /\ HighestKey(s[i]) < LowestKey(s[i + 1])
        /\ LowestKey(s[i + 1]) <= HighestKey(s[i + 1])
    BY <1>1 DEF InOrder
  <2>. QED
    BY <1>1, <1>11, <2>1
<1>13. \A a \in DOMAIN r : LowestKey(r[a]) <= HighestKey(r[a])
  BY <1>6, <1>12 DEF InOrder
<1>14. ASSUME NEW a \in DOMAIN r, NEW b \in DOMAIN r, a < b
       PROVE  HighestKey(r[a]) < LowestKey(r[b])
  <2>1. CASE a # i /\ b # i
    BY <1>6, <1>7, <1>14, <2>1 DEF InOrder
  <2>2. CASE a = i
    <3>1. b # i /\ i + 1 < f(b) /\ f(b) \in DOMAIN s
      BY <1>6, <1>8, <1>14, <2>2
    <3>. QED
      BY <1>1, <1>6, <2>2, <3>1 DEF InOrder
  <2>3. CASE b = i
    <3>1. a # i /\ f(a) < i /\ f(a) \in DOMAIN s
      BY <1>6, <1>9, <1>14, <2>3
    <3>. QED
      BY <1>6, <2>3, <3>1 DEF InOrder
  <2>. QED
    BY <2>1, <2>2, <2>3
<1>15. LowestKey(r[1]) = LowestKey(s[1])
  <2>1. 1 \in DOMAIN r
    BY <1>1, <1>5
  <2>. QED
    BY <1>6, <1>10, <2>1
<1>16. HighestKey(Last(r)) = HighestKey(Last(s))
  <2>1. Len(s) - 1 \in DOMAIN r /\ Last(r) = r[Len(s) - 1]
    BY <1>1, <1>3, <1>5 DEF Last
  <2>2. CASE i = Len(s) - 1
    <3>1. i + 1 = Len(s)
      BY <1>1, <2>2
    <3>. QED
      BY <1>6, <2>1, <2>2, <3>1 DEF Last
  <2>3. CASE i # Len(s) - 1
    BY <1>6, <1>10, <2>1, <2>3 DEF Last
  <2>. QED
    BY <2>2, <2>3
<1>17. LowestKey(s[1]) \in Int /\ HighestKey(Last(s)) \in Int
  <2>1. 1 \in DOMAIN s /\ Len(s) \in DOMAIN s
    BY <1>1
  <2>. QED
    BY <1>11, <2>1 DEF Last
<1>18. GoesNoFurther(r, s, k)
  BY <1>15, <1>16, <1>17 DEF GoesNoFurther
<1>19. r = OneForTwo(s, i, w)
  BY DEF OneForTwo, r, once
<1>. QED
  BY <1>6, <1>13, <1>14, <1>18, <1>19 DEF InOrder

\* One slot alone is in order.
LEMMA OrderSingleton ==
  ASSUME NEW e, LowestKey(e) <= HighestKey(e)
  PROVE  InOrder(<<e>>)
<1>1. DOMAIN <<e>> = 1..1 /\ <<e>>[1] = e /\ \A i \in 1..1 : i = 1
  OBVIOUS
<1>. QED
  BY <1>1 DEF InOrder

\* Entries for new nodes m and n in the place of those for two neighbours.
WithNeighbours(children, i, j, m, n) ==
  [children EXCEPT ![i] = EntryFor(m), ![j] = EntryFor(n)]

\* Nodes m and n have the level and the range of the two neighbours, in order.
ShareOfNeighbours(S, l, children, i, j, m, n) ==
  /\ j = i + 1
  /\ {m, n} \subseteq BalancedOver(S) /\ Level(m) + 1 = l /\ Level(n) + 1 = l
  /\ InOrder(Slots(m)) /\ InOrder(Slots(n))
  /\ LowestKey(children[i]) = LowestKey(Slots(m)[1])
  /\ HighestKey(Last(Slots(m))) < LowestKey(Slots(n)[1])
  /\ HighestKey(Last(Slots(n))) = HighestKey(children[j])

\* Slots moved between two neighbours leave the entries in order, in their range.
LEMMA NeighboursInOrder ==
  ASSUME NEW S, Sound(S), Ordered(S), NEW l, NEW children \in Seq(EntriesBelow(S, l)),
         InOrder(children), NEW i \in DOMAIN children, NEW j \in DOMAIN children,
         NEW m, NEW n, ShareOfNeighbours(S, l, children, i, j, m, n), NEW k
  PROVE  LET r == WithNeighbours(children, i, j, m, n)
         IN  /\ InOrder(r)
             /\ GoesNoFurther(r, children, k)
             /\ \A a \in DOMAIN r : InOrder(Slots(r[a].child_hash))
<1>. DEFINE T == S \cup {m, n}
            u == EntryFor(m)
            v == EntryFor(n)
            r == [children EXCEPT ![i] = u, ![j] = v]
<1>1. Sound(T) /\ S \subseteq T /\ m \in T /\ n \in T
  BY SoundAdd DEF ShareOfNeighbours
<1>2. children \in Seq(EntriesBelow(T, l))
  <2>1. EntriesBelow(S, l) \subseteq EntriesBelow(T, l)
    BY <1>1, EntriesMonotone
  <2>. HIDE DEF T
  <2>. QED
    BY <2>1, SeqMonotonic
<1>. HIDE DEF T
<1>3. u \in EntriesBelow(T, l) /\ v \in EntriesBelow(T, l) /\ u.child_hash = m /\ v.child_hash = n
  BY <1>1, EntryForOver DEF EntryFor, ShareOfNeighbours
<1>4. /\ LowestKey(u) = LowestKey(Slots(m)[1]) /\ HighestKey(u) = HighestKey(Last(Slots(m)))
      /\ LowestKey(u) <= HighestKey(u)
  BY EntryInOrder DEF ShareOfNeighbours
<1>5. /\ LowestKey(v) = LowestKey(Slots(n)[1]) /\ HighestKey(v) = HighestKey(Last(Slots(n)))
      /\ LowestKey(v) <= HighestKey(v)
  BY EntryInOrder DEF ShareOfNeighbours
<1>6. Ranged(EntriesBelow(T, l))
  BY <1>1, SlotsRanged
<1>. HIDE DEF u, v
<1>7. /\ InOrder(r)
      /\ GoesNoFurther(r, children, k)
      /\ DOMAIN r = DOMAIN children
      /\ \A a \in DOMAIN children : r[a] = IF a = j THEN v ELSE IF a = i THEN u ELSE children[a]
  <2>1. LowestKey(children[i]) = LowestKey(u) /\ HighestKey(v) = HighestKey(children[j])
    BY <1>4, <1>5 DEF ShareOfNeighbours
  <2>2. HighestKey(u) < LowestKey(v)
    BY <1>4, <1>5 DEF ShareOfNeighbours
  <2>3. j = i + 1
    BY DEF ShareOfNeighbours
  <2>. QED
    BY <1>2, <1>3, <1>4, <1>5, <1>6, <2>1, <2>2, <2>3, OrderReplaceTwo, Zenon
<1>8. \A a \in DOMAIN children : InOrder(Slots(children[a].child_hash))
  BY ChildEnds
<1>. HIDE DEF r
<1>9. \A a \in DOMAIN r : InOrder(Slots(r[a].child_hash))
  BY <1>3, <1>7, <1>8 DEF ShareOfNeighbours
<1>. QED
  <2>1. WithNeighbours(children, i, j, m, n) = r
    BY DEF WithNeighbours, r, u, v
  <2>. QED
    BY <1>7, <1>9, <2>1
\* What is left of a node that lends its last slot.
LEMMA WithoutLast ==
  ASSUME NEW E, Ranged(E), NEW s \in Seq(E), InOrder(s), Len(s) > 1
  PROVE  /\ Front(s) \in Seq(E) \ {<<>>}
         /\ InOrder(Front(s))
         /\ Front(s)[1] = s[1]
         /\ HighestKey(Last(Front(s))) < LowestKey(Last(s))
         /\ LowestKey(Last(s)) <= HighestKey(Last(s))
<1>1. Len(s) \in Nat /\ DOMAIN s = 1..Len(s)
  BY ElementsOfSeq
<1>2. PICK h \in Nat : h = Len(s) - 1
  <2>1. Len(s) - 1 \in Nat
    BY <1>1
  <2>. QED
    BY <2>1
<1>3. /\ 1 \in DOMAIN s /\ h \in DOMAIN s /\ Len(s) \in DOMAIN s
      /\ 1 <= h /\ h < Len(s) /\ h \in 0..Len(s) /\ 1 \in 1..(Len(s) + 1)
  BY <1>1, <1>2
<1>4. Front(s) = SubSeq(s, 1, h)
  BY <1>2 DEF Front
<1>5. InOrder(SubSeq(s, 1, h))
  BY <1>3, OrderPart
<1>6. /\ SubSeq(s, 1, h) \in Seq(E) \ {<<>>}
      /\ SubSeq(s, 1, h)[1] = s[1]
      /\ Last(SubSeq(s, 1, h)) = s[h]
  <2>1. SubSeq(s, 1, h) \in Seq(E) \ {<<>>}
    BY <1>3, PartEnds
  <2>2. SubSeq(s, 1, h)[1] = s[1]
    BY <1>3, PartEnds
  <2>3. Last(SubSeq(s, 1, h)) = s[h]
    BY <1>3, PartEnds, SMTT(30)
  <2>. QED
    BY <2>1, <2>2, <2>3
<1>7. HighestKey(s[h]) < LowestKey(Last(s)) /\ LowestKey(Last(s)) <= HighestKey(Last(s))
  BY <1>3 DEF InOrder, Last
<1>. QED
  BY <1>4, <1>5, <1>6, <1>7

\* What is left of a node that lends its first slot.
LEMMA WithoutFirst ==
  ASSUME NEW E, Ranged(E), NEW s \in Seq(E), InOrder(s), Len(s) > 1
  PROVE  /\ Tail(s) \in Seq(E) \ {<<>>}
         /\ InOrder(Tail(s))
         /\ Last(Tail(s)) = Last(s)
         /\ HighestKey(s[1]) < LowestKey(Tail(s)[1])
         /\ LowestKey(s[1]) <= HighestKey(s[1])
<1>1. Len(s) \in Nat /\ DOMAIN s = 1..Len(s)
  BY ElementsOfSeq
<1>2. /\ 1 \in DOMAIN s /\ 2 \in DOMAIN s /\ Len(s) \in DOMAIN s
      /\ 1 < 2 /\ 2 <= Len(s) /\ Len(s) \in 0..Len(s) /\ 2 \in 1..(Len(s) + 1)
  BY <1>1
<1>3. Tail(s) = SubSeq(s, 2, Len(s))
  BY <1>1, TailIsSubSeq
<1>4. InOrder(SubSeq(s, 2, Len(s)))
  BY <1>2, OrderPart
<1>5. Tail(s) \in Seq(E) \ {<<>>} /\ Tail(s)[1] = s[2]
  <2>1. SubSeq(s, 2, Len(s)) \in Seq(E) \ {<<>>}
    BY <1>2, PartEnds
  <2>2. Tail(s)[1] = s[2]
    BY <1>1
  <2>. QED
    BY <1>3, <2>1, <2>2
<1>6. Last(Tail(s)) = Last(s)
  BY <1>1 DEF Last
<1>7. HighestKey(s[1]) < LowestKey(s[2]) /\ LowestKey(s[1]) <= HighestKey(s[1])
  BY <1>2 DEF InOrder
<1>. QED
  BY <1>3, <1>4, <1>5, <1>6, <1>7

\* A borrowed slot goes to the near end of its new node.
LEMMA WithOneMore ==
  ASSUME NEW E, Ranged(E), NEW s \in Seq(E) \ {<<>>}, InOrder(s), NEW e \in E,
         LowestKey(e) <= HighestKey(e)
  PROVE  /\ HighestKey(e) < LowestKey(s[1]) =>
              /\ <<e>> \o s \in Seq(E) \ {<<>>}
              /\ InOrder(<<e>> \o s)
              /\ (<<e>> \o s)[1] = e /\ Last(<<e>> \o s) = Last(s)
         /\ HighestKey(Last(s)) < LowestKey(e) =>
              /\ Append(s, e) \in Seq(E) \ {<<>>}
              /\ InOrder(Append(s, e))
              /\ Append(s, e)[1] = s[1] /\ Last(Append(s, e)) = e
<1>1. PICK one : one = <<e>>
  OBVIOUS
<1>2. one \in Seq(E) \ {<<>>} /\ one[1] = e /\ Last(one) = e
  BY <1>1 DEF Last
<1>3. InOrder(one)
  BY <1>1, OrderSingleton
<1>4. ASSUME HighestKey(e) < LowestKey(s[1])
      PROVE  /\ one \o s \in Seq(E) \ {<<>>}
             /\ InOrder(one \o s)
             /\ (one \o s)[1] = e /\ Last(one \o s) = Last(s)
  <2>1. InOrder(one \o s)
    BY <1>2, <1>3, <1>4, OrderConcat
  <2>. QED
    BY <1>2, <2>1, ConcatEnds
<1>5. ASSUME HighestKey(Last(s)) < LowestKey(e)
      PROVE  /\ s \o one \in Seq(E) \ {<<>>}
             /\ InOrder(s \o one)
             /\ (s \o one)[1] = s[1] /\ Last(s \o one) = e
  <2>1. InOrder(s \o one)
    BY <1>2, <1>3, <1>5, OrderConcat
  <2>. QED
    BY <1>2, <2>1, ConcatEnds
<1>6. Append(s, e) = s \o one
  BY <1>1, AppendIsConcat
<1>. QED
  BY <1>1, <1>4, <1>5, <1>6

\* A slot lent by the left sibling is above all it keeps.
LEMMA BorrowFromLeftInOrder ==
  ASSUME NEW S, Sound(S), Ordered(S), NEW l, NEW children \in Seq(EntriesBelow(S, l)),
         InOrder(children), NEW c \in Configs, NEW i \in DOMAIN children,
         CanLend(children, i - 1, c), NEW k
  PROVE  LET r == BorrowFromLeft(children, i)
         IN  /\ InOrder(r)
             /\ GoesNoFurther(r, children, k)
             /\ \A a \in DOMAIN r : InOrder(Slots(r[a].child_hash))
<1>1. PICK h \in DOMAIN children : h = i - 1 /\ i = h + 1 /\ h < i
  BY ElementsOfSeq DEF CanLend
<1>. DEFINE left  == children[h].child_hash
            under == children[i].child_hash
            A == Slots(left)
            B == Slots(under)
<1>2. /\ left \in BalancedOver(S) /\ Level(left) + 1 = l
      /\ A \in Seq(SlotsOver(left, S)) \ {<<>>} /\ A \in Seq(SlotsOver(under, S))
  BY ChildSlots
<1>3. under \in BalancedOver(S) /\ Level(under) + 1 = l /\ B \in Seq(SlotsOver(under, S)) \ {<<>>}
  BY ChildSlots
<1>4. /\ InOrder(A)
      /\ LowestKey(children[h]) = LowestKey(A[1])
      /\ HighestKey(children[h]) = HighestKey(Last(A))
  BY ChildEnds
<1>5. /\ InOrder(B)
      /\ LowestKey(children[i]) = LowestKey(B[1])
      /\ HighestKey(children[i]) = HighestKey(Last(B))
  BY ChildEnds
<1>6. HighestKey(children[h]) < LowestKey(children[i])
  BY <1>1 DEF InOrder
<1>7. Ranged(SlotsOver(left, S)) /\ Ranged(SlotsOver(under, S))
  BY <1>2, <1>3, SlotsRanged
<1>8. Len(A) > 1
  <2>1. NumEntries(left) > c.min_fanout
    BY <1>1 DEF CanLend
  <2>2. Len(A) \in Nat
    BY <1>2, ElementsOfSeq
  <2>. QED
    BY <2>1, <2>2, ConfigsAssumption DEF NumEntries
<1>. HIDE DEF A, B, left, under
<1>9. /\ Front(A) \in Seq(SlotsOver(left, S)) \ {<<>>}
      /\ InOrder(Front(A))
      /\ Front(A)[1] = A[1]
      /\ HighestKey(Last(Front(A))) < LowestKey(Last(A))
      /\ LowestKey(Last(A)) <= HighestKey(Last(A))
  <2>1. A \in Seq(SlotsOver(left, S))
    BY <1>2
  <2>. QED
    BY <1>4, <1>7, <1>8, <2>1, WithoutLast
<1>10. Last(A) \in SlotsOver(under, S)
  <2>1. A # <<>>
    BY <1>2
  <2>. QED
    BY <1>2, <2>1, LastOfSeq
<1>11. /\ <<Last(A)>> \o B \in Seq(SlotsOver(under, S)) \ {<<>>}
       /\ InOrder(<<Last(A)>> \o B)
       /\ (<<Last(A)>> \o B)[1] = Last(A) /\ Last(<<Last(A)>> \o B) = Last(B)
  <2>1. HighestKey(Last(A)) < LowestKey(B[1])
    BY <1>4, <1>5, <1>6
  <2>. QED
    BY <1>3, <1>5, <1>7, <1>9, <1>10, <2>1, WithOneMore
<1>. DEFINE x == WithSlots(left, Front(A))
            y == WithSlots(under, <<Last(A)>> \o B)
<1>12. x \in BalancedOver(S) /\ Level(x) + 1 = l /\ Slots(x) = Front(A)
  BY <1>2, <1>9, WithSlotsOver
<1>13. y \in BalancedOver(S) /\ Level(y) + 1 = l /\ Slots(y) = <<Last(A)>> \o B
  BY <1>3, <1>11, WithSlotsOver
<1>14. BorrowFromLeft(children, i) = WithNeighbours(children, h, i, x, y)
  BY <1>1 DEF WithNeighbours, BorrowFromLeft, left, under, A, B
<1>. HIDE DEF x, y
<1>15. InOrder(Slots(x)) /\ InOrder(Slots(y))
  BY <1>9, <1>11, <1>12, <1>13
<1>16. /\ LowestKey(children[h]) = LowestKey(Slots(x)[1])
       /\ HighestKey(Last(Slots(x))) < LowestKey(Slots(y)[1])
       /\ HighestKey(Last(Slots(y))) = HighestKey(children[i])
  BY <1>4, <1>5, <1>9, <1>11, <1>12, <1>13
<1>17. ShareOfNeighbours(S, l, children, h, i, x, y)
  BY <1>1, <1>12, <1>13, <1>15, <1>16 DEF ShareOfNeighbours
<1>. QED
  BY <1>14, <1>17, NeighboursInOrder

\* A slot lent by the right sibling is below all it keeps.
LEMMA BorrowFromRightInOrder ==
  ASSUME NEW S, Sound(S), Ordered(S), NEW l, NEW children \in Seq(EntriesBelow(S, l)),
         InOrder(children), NEW c \in Configs, NEW i \in DOMAIN children,
         CanLend(children, i + 1, c), NEW k
  PROVE  LET r == BorrowFromRight(children, i)
         IN  /\ InOrder(r)
             /\ GoesNoFurther(r, children, k)
             /\ \A a \in DOMAIN r : InOrder(Slots(r[a].child_hash))
<1>1. PICK j \in DOMAIN children : j = i + 1 /\ i < j
  BY ElementsOfSeq DEF CanLend
<1>. DEFINE under == children[i].child_hash
            right == children[j].child_hash
            A == Slots(under)
            B == Slots(right)
<1>2. /\ right \in BalancedOver(S) /\ Level(right) + 1 = l
      /\ B \in Seq(SlotsOver(right, S)) \ {<<>>} /\ B \in Seq(SlotsOver(under, S))
  BY ChildSlots
<1>3. under \in BalancedOver(S) /\ Level(under) + 1 = l /\ A \in Seq(SlotsOver(under, S)) \ {<<>>}
  BY ChildSlots
<1>4. /\ InOrder(A)
      /\ LowestKey(children[i]) = LowestKey(A[1])
      /\ HighestKey(children[i]) = HighestKey(Last(A))
  BY ChildEnds
<1>5. /\ InOrder(B)
      /\ LowestKey(children[j]) = LowestKey(B[1])
      /\ HighestKey(children[j]) = HighestKey(Last(B))
  BY ChildEnds
<1>6. HighestKey(children[i]) < LowestKey(children[j])
  BY <1>1 DEF InOrder
<1>7. Ranged(SlotsOver(right, S)) /\ Ranged(SlotsOver(under, S))
  BY <1>2, <1>3, SlotsRanged
<1>8. Len(B) > 1
  <2>1. NumEntries(right) > c.min_fanout
    BY <1>1 DEF CanLend
  <2>2. Len(B) \in Nat
    BY <1>2, ElementsOfSeq
  <2>. QED
    BY <2>1, <2>2, ConfigsAssumption DEF NumEntries
<1>. HIDE DEF A, B, right, under
<1>9. /\ Tail(B) \in Seq(SlotsOver(right, S)) \ {<<>>}
      /\ InOrder(Tail(B))
      /\ Last(Tail(B)) = Last(B)
      /\ HighestKey(B[1]) < LowestKey(Tail(B)[1])
      /\ LowestKey(B[1]) <= HighestKey(B[1])
  <2>1. B \in Seq(SlotsOver(right, S))
    BY <1>2
  <2>. QED
    BY <1>5, <1>7, <1>8, <2>1, WithoutFirst
<1>10. Head(B) = B[1] /\ B[1] \in SlotsOver(under, S)
  BY <1>2, <1>8, ElementsOfSeq
<1>11. /\ Append(A, B[1]) \in Seq(SlotsOver(under, S)) \ {<<>>}
       /\ InOrder(Append(A, B[1]))
       /\ Append(A, B[1])[1] = A[1] /\ Last(Append(A, B[1])) = B[1]
  <2>1. HighestKey(Last(A)) < LowestKey(B[1]) /\ LowestKey(B[1]) <= HighestKey(B[1])
    BY <1>4, <1>5, <1>6, <1>9
  <2>2. Append(A, B[1]) \in Seq(SlotsOver(under, S)) \ {<<>>}
    BY <1>3, <1>4, <1>7, <1>10, <2>1, WithOneMore
  <2>3. InOrder(Append(A, B[1]))
    BY <1>3, <1>4, <1>7, <1>10, <2>1, WithOneMore
  <2>4. Append(A, B[1])[1] = A[1]
    BY <1>3, <1>10, ElementsOfSeq
  <2>5. Last(Append(A, B[1])) = B[1]
    BY <1>3, ElementsOfSeq DEF Last
  <2>. QED
    BY <2>2, <2>3, <2>4, <2>5
<1>. DEFINE x == WithSlots(under, Append(A, B[1]))
            y == WithSlots(right, Tail(B))
<1>12. x \in BalancedOver(S) /\ Level(x) + 1 = l /\ Slots(x) = Append(A, B[1])
  BY <1>3, <1>11, WithSlotsOver
<1>13. y \in BalancedOver(S) /\ Level(y) + 1 = l /\ Slots(y) = Tail(B)
  BY <1>2, <1>9, WithSlotsOver
<1>14. BorrowFromRight(children, i) = WithNeighbours(children, i, j, x, y)
  BY <1>1, <1>10 DEF WithNeighbours, BorrowFromRight, right, under, A, B
<1>. HIDE DEF x, y
<1>15. InOrder(Slots(x)) /\ InOrder(Slots(y))
  BY <1>9, <1>11, <1>12, <1>13
<1>16. /\ LowestKey(children[i]) = LowestKey(Slots(x)[1])
       /\ HighestKey(Last(Slots(x))) < LowestKey(Slots(y)[1])
       /\ HighestKey(Last(Slots(y))) = HighestKey(children[j])
  BY <1>4, <1>5, <1>9, <1>11, <1>12, <1>13
<1>17. ShareOfNeighbours(S, l, children, i, j, x, y)
  BY <1>1, <1>12, <1>13, <1>15, <1>16 DEF ShareOfNeighbours
<1>. QED
  BY <1>14, <1>17, NeighboursInOrder
\* The slots of a merged node are those of the left child, then those of the
\* right one; the parent keeps one entry for the range of the two.
LEMMA MergeWithNextInOrder ==
  ASSUME NEW S, Sound(S), Ordered(S), NEW l, NEW children \in Seq(EntriesBelow(S, l)),
         InOrder(children), NEW i \in DOMAIN children, i + 1 \in DOMAIN children, NEW k
  PROVE  LET r == MergeWithNext(children, i)
         IN  /\ InOrder(r)
             /\ GoesNoFurther(r, children, k)
             /\ \A a \in DOMAIN r : InOrder(Slots(r[a].child_hash))
<1>1. PICK j \in DOMAIN children : j = i + 1 /\ i < j
  BY ElementsOfSeq
<1>. DEFINE left   == children[i].child_hash
            right  == children[j].child_hash
            A      == Slots(left)
            B      == Slots(right)
            merged == WithSlots(left, A \o B)
            entry  == [EntryFor(merged) EXCEPT
                         !.num_items_subtree = children[i].num_items_subtree
                                                 + children[j].num_items_subtree]
<1>2. left \in BalancedOver(S) /\ Level(left) + 1 = l /\ A \in Seq(SlotsOver(left, S)) \ {<<>>}
  BY ChildSlots
<1>3. right \in BalancedOver(S) /\ Level(right) + 1 = l /\ B \in Seq(SlotsOver(left, S)) \ {<<>>}
  BY ChildSlots
<1>4. /\ InOrder(A)
      /\ LowestKey(children[i]) = LowestKey(A[1])
      /\ HighestKey(children[i]) = HighestKey(Last(A))
  BY ChildEnds
<1>5. /\ InOrder(B)
      /\ LowestKey(children[j]) = LowestKey(B[1])
      /\ HighestKey(children[j]) = HighestKey(Last(B))
  BY ChildEnds
<1>6. Ranged(SlotsOver(left, S))
  BY <1>2, SlotsRanged
<1>7. children[i].num_items_subtree + children[j].num_items_subtree = ItemCount(merged)
  <2>1. /\ children[i] \in EntriesBelow(S, l) /\ children[i] = EntryFor(left)
        /\ children[j] \in EntriesBelow(S, l) /\ children[j] = EntryFor(right)
    BY ElementsOfSeq DEF EntriesBelow
  <2>. HIDE DEF left, right
  <2>2. Level(left) = Level(right)
    BY <1>2, <1>3, NodeKinds
  <2>3. ItemCount(merged) = ItemCount(left) + ItemCount(right)
    BY <1>2, <1>3, <2>2, MergedItems
  <2>4. /\ children[i].num_items_subtree = ItemCount(left)
        /\ children[j].num_items_subtree = ItemCount(right)
    BY <2>1 DEF EntryFor
  <2>. QED
    BY <2>3, <2>4
<1>8. MergeWithNext(children, i) = OneForTwo(children, i, entry)
  BY <1>1 DEF MergeWithNext, OneForTwo
<1>. HIDE DEF A, B, left, right
<1>9. entry = EntryFor(merged)
  BY <1>7 DEF EntryFor
<1>10. HighestKey(Last(A)) < LowestKey(B[1])
  <2>1. HighestKey(children[i]) < LowestKey(children[j])
    BY <1>1 DEF InOrder
  <2>. QED
    BY <1>4, <1>5, <2>1
<1>11. InOrder(A \o B)
  BY <1>2, <1>3, <1>4, <1>5, <1>6, <1>10, OrderConcat
<1>12. A \o B \in Seq(SlotsOver(left, S)) \ {<<>>} /\ (A \o B)[1] = A[1] /\ Last(A \o B) = Last(B)
  BY <1>2, <1>3, ConcatEnds
<1>13. merged \in BalancedOver(S) /\ Level(merged) + 1 = l /\ Slots(merged) = A \o B
  BY <1>2, <1>12, WithSlotsOver
<1>. HIDE DEF entry, merged
<1>14. LowestKey(entry) = LowestKey(children[i]) /\ HighestKey(entry) = HighestKey(children[j])
  <2>1. InOrder(Slots(merged))
    BY <1>11, <1>13
  <2>2. /\ LowestKey(entry) = LowestKey(Slots(merged)[1])
        /\ HighestKey(entry) = HighestKey(Last(Slots(merged)))
    BY <1>9, <1>13, <2>1, EntryInOrder
  <2>. QED
    BY <1>4, <1>5, <1>12, <1>13, <2>2
<1>. DEFINE T == S \cup {merged}
<1>15. Sound(T) /\ S \subseteq T /\ merged \in T
  <2>1. {merged} \subseteq BalancedOver(S)
    BY <1>13
  <2>. QED
    BY <2>1, SoundAdd
<1>16. children \in Seq(EntriesBelow(T, l))
  <2>1. EntriesBelow(S, l) \subseteq EntriesBelow(T, l)
    BY <1>15, EntriesMonotone
  <2>. HIDE DEF T
  <2>. QED
    BY <2>1, SeqMonotonic
<1>. HIDE DEF T
<1>17. entry \in EntriesBelow(T, l) /\ entry.child_hash = merged
  BY <1>9, <1>13, <1>15, EntryForOver DEF EntryFor
<1>18. Ranged(EntriesBelow(T, l))
  BY <1>15, SlotsRanged
<1>. DEFINE r == OneForTwo(children, i, entry)
<1>19. /\ InOrder(r)
       /\ GoesNoFurther(r, children, k)
       /\ \A a \in DOMAIN r : r[a] = entry \/ \E b \in DOMAIN children : r[a] = children[b]
  <2>1. HighestKey(entry) = HighestKey(children[i + 1])
    BY <1>1, <1>14
  <2>. QED
    BY <1>14, <1>16, <1>17, <1>18, <2>1, OrderMergeTwo
<1>20. \A a \in DOMAIN children : InOrder(Slots(children[a].child_hash))
  BY ChildEnds
<1>. HIDE DEF r
<1>21. \A a \in DOMAIN r : InOrder(Slots(r[a].child_hash))
  BY <1>11, <1>13, <1>17, <1>19, <1>20
<1>. QED
  BY <1>8, <1>19, <1>21 DEF r

\* Repairing an underflowing child keeps the list in order and its range.
LEMMA HandleUnderflowInOrder ==
  ASSUME NEW S, Sound(S), Ordered(S), NEW l, NEW children \in Seq(EntriesBelow(S, l)),
         InOrder(children), HasSibling(children), NEW c \in Configs,
         NEW i \in DOMAIN children, NEW k
  PROVE  LET r == HandleUnderflow(children, i, c)
         IN  /\ InOrder(r)
             /\ GoesNoFurther(r, children, k)
             /\ \A a \in DOMAIN r : InOrder(Slots(r[a].child_hash))
<1>1. CASE CanLend(children, i - 1, c)
  <2>1. HandleUnderflow(children, i, c) = BorrowFromLeft(children, i)
    BY <1>1 DEF HandleUnderflow
  <2>. QED
    BY <1>1, <2>1, BorrowFromLeftInOrder
<1>2. CASE ~CanLend(children, i - 1, c) /\ CanLend(children, i + 1, c)
  <2>1. HandleUnderflow(children, i, c) = BorrowFromRight(children, i)
    BY <1>2 DEF HandleUnderflow
  <2>. QED
    BY <1>2, <2>1, BorrowFromRightInOrder
<1>3. CASE ~CanLend(children, i - 1, c) /\ ~CanLend(children, i + 1, c)
  <2>. DEFINE j == IF i > 1 THEN i - 1 ELSE i
  <2>1. HandleUnderflow(children, i, c) = MergeWithNext(children, j)
    BY <1>3 DEF HandleUnderflow
  <2>2. j \in DOMAIN children /\ j + 1 \in DOMAIN children
    BY ElementsOfSeq DEF HasSibling
  <2>. HIDE DEF j
  <2>. QED
    BY <2>1, <2>2, MergeWithNextInOrder
<1>. QED
  BY <1>1, <1>2, <1>3

\* Going no further is transitive.
LEMMA NoFurtherThan ==
  ASSUME NEW new, NEW mid, NEW old, NEW k \in Int, mid # <<>>,
         new # <<>> => LowestKey(new[1]) \in Int /\ HighestKey(Last(new)) \in Int,
         LowestKey(mid[1]) \in Int, HighestKey(Last(mid)) \in Int,
         LowestKey(old[1]) \in Int, HighestKey(Last(old)) \in Int,
         GoesNoFurther(new, mid, k), GoesNoFurther(mid, old, k)
  PROVE  GoesNoFurther(new, old, k)
BY DEF GoesNoFurther
\* No slots at all are in order.
LEMMA OrderNothing ==
  ASSUME NEW old, NEW k
  PROVE  InOrder(<<>>) /\ GoesNoFurther(<<>>, old, k)
BY DEF InOrder, GoesNoFurther

\* The entry for a rewritten node goes as far as its slots do.
LEMMA OneEntryInOrder ==
  ASSUME NEW S, Sound(S), NEW n \in BalancedOver(S), InOrder(Slots(n)),
         NEW old, NEW k, GoesNoFurther(Slots(n), old, k)
  PROVE  InOrder(<<EntryFor(n)>>) /\ GoesNoFurther(<<EntryFor(n)>>, old, k)
<1>. DEFINE e == EntryFor(n)
<1>1. /\ LowestKey(e) = LowestKey(Slots(n)[1]) /\ HighestKey(e) = HighestKey(Last(Slots(n)))
      /\ LowestKey(e) <= HighestKey(e)
  BY EntryInOrder
<1>2. Slots(n) # <<>>
  BY NodeKinds DEF SlotsOver
<1>. HIDE DEF e
<1>3. <<e>>[1] = e /\ Last(<<e>>) = e
  BY DEF Last
<1>4. InOrder(<<e>>)
  BY <1>1, OrderSingleton
<1>5. GoesNoFurther(<<e>>, old, k)
  BY <1>1, <1>2, <1>3 DEF GoesNoFurther
<1>. QED
  BY <1>4, <1>5 DEF e

\* So do those for the two halves of one that was split.
LEMMA SplitEntriesInOrder ==
  ASSUME NEW S, Sound(S), NEW n \in BalancedOver(S), InOrder(Slots(n)), NEW c \in Configs,
         NEW old, NEW k, GoesNoFurther(Slots(n), old, k)
  PROVE  LET nodes   == Split(n, c)
             entries == [i \in DOMAIN nodes |-> EntryFor(nodes[i])]
         IN  /\ \A i \in DOMAIN nodes : InOrder(Slots(nodes[i]))
             /\ InOrder(entries)
             /\ GoesNoFurther(entries, old, k)
<1>. DEFINE nodes   == Split(n, c)
            entries == [i \in DOMAIN nodes |-> EntryFor(nodes[i])]
<1>1. /\ \A i \in DOMAIN nodes : InOrder(Slots(nodes[i]))
      /\ InOrder(entries)
      /\ LowestKey(entries[1]) = LowestKey(Slots(n)[1])
      /\ HighestKey(Last(entries)) = HighestKey(Last(Slots(n)))
  BY SplitInOrder
<1>2. Slots(n) # <<>>
  BY NodeKinds DEF SlotsOver
<1>. HIDE DEF entries
<1>3. GoesNoFurther(entries, old, k)
  BY <1>1, <1>2 DEF GoesNoFurther
<1>. QED
  BY <1>1, <1>3 DEF entries

\* What goes no further than the slots of a node goes no further than its entry.
LEMMA NoFurtherThanEntry ==
  ASSUME NEW S, Sound(S), NEW n \in BalancedOver(S), NEW new, NEW k,
         GoesNoFurther(new, Slots(n), k)
  PROVE  GoesNoFurther(new, <<EntryFor(n)>>, k)
<1>. DEFINE e == EntryFor(n)
<1>1. LowestKey(e) = LowestKey(Slots(n)[1]) /\ HighestKey(e) = HighestKey(Last(Slots(n)))
  BY EntryRange
<1>. HIDE DEF e
<1>2. <<e>>[1] = e /\ Last(<<e>>) = e
  BY DEF Last
<1>3. GoesNoFurther(new, <<e>>, k)
  BY <1>1, <1>2 DEF GoesNoFurther
<1>. QED
  BY <1>3 DEF e
-----------------------------------------------------------------------------
(***************************************************************************)
(* What the operations on a node do to the set of its slots: nothing is    *)
(* lost and nothing comes up but what the operation is about.  And what    *)
(* the operations on a tree do to the set of what is stored below a node.  *)
(***************************************************************************)
\* What a slot of a node is.
LEMMA SlotKinds ==
  ASSUME NEW S
  PROVE  /\ \A e \in LeafEntries(S) : "key" \in DOMAIN e
         /\ \A e \in InternalEntries(S) : "key" \notin DOMAIN e
         /\ \A l : \A e \in EntriesBelow(S, l) : "key" \notin DOMAIN e
<1>1. \A e \in LeafEntries(S) : "key" \in DOMAIN e
  BY DEF LeafEntries
<1>2. \A e \in InternalEntries(S) : "key" \notin DOMAIN e
  BY DEF InternalEntries
<1>. QED
  BY <1>1, <1>2 DEF EntriesBelow

(***************************************************************************)
(* The elements of a sequence that is cut, joined or changed.              *)
(***************************************************************************)
\* They are what is at its positions.
LEMMA ToSetIs ==
  ASSUME NEW E, NEW s \in Seq(E)
  PROVE  /\ ToSet(s) \subseteq E
         /\ \A e : e \in ToSet(s) <=> \E i \in 1..Len(s) : s[i] = e
BY ElementsOfSeq DEF ToSet

\* Joining two sequences joins their elements (a merge, a leaf that borrows).
LEMMA ToSetConcat ==
  ASSUME NEW E, NEW s \in Seq(E), NEW t \in Seq(E)
  PROVE  ToSet(s \o t) = ToSet(s) \cup ToSet(t)
<1>1. Len(s) \in Nat /\ Len(t) \in Nat
  BY ElementsOfSeq
<1>2. /\ s \o t \in Seq(E) /\ Len(s \o t) = Len(s) + Len(t)
      /\ \A i \in 1..(Len(s) + Len(t)) :
           (s \o t)[i] = IF i <= Len(s) THEN s[i] ELSE t[i - Len(s)]
  BY ConcatProperties
<1>. DEFINE r == s \o t
<1>3. r \in Seq(E)
  BY <1>2
<1>4. ASSUME NEW e \in ToSet(r)
      PROVE  e \in ToSet(s) \cup ToSet(t)
  <2>1. PICK i \in 1..(Len(s) + Len(t)) : r[i] = e
    BY <1>2, <1>3, <1>4, ToSetIs
  <2>2. CASE i <= Len(s)
    BY <1>1, <1>2, <2>1, <2>2, ToSetIs
  <2>3. CASE ~(i <= Len(s))
    <3>1. i - Len(s) \in 1..Len(t)
      BY <1>1, <2>3
    <3>. QED
      BY <1>1, <1>2, <2>1, <2>3, <3>1, ToSetIs
  <2>. QED
    BY <2>2, <2>3
<1>5. ASSUME NEW e \in ToSet(s)
      PROVE  e \in ToSet(r)
  <2>1. PICK i \in 1..Len(s) : s[i] = e
    BY <1>5, ToSetIs
  <2>2. i \in 1..(Len(s) + Len(t)) /\ i <= Len(s)
    BY <1>1
  <2>. QED
    BY <1>2, <2>1, <2>2, ToSetIs
<1>6. ASSUME NEW e \in ToSet(t)
      PROVE  e \in ToSet(r)
  <2>1. PICK i \in 1..Len(t) : t[i] = e
    BY <1>6, ToSetIs
  <2>2. Len(s) + i \in 1..(Len(s) + Len(t)) /\ ~(Len(s) + i <= Len(s)) /\ (Len(s) + i) - Len(s) = i
    BY <1>1
  <2>3. r[Len(s) + i] = e
    BY <1>2, <2>1, <2>2
  <2>. QED
    BY <1>2, <2>2, <2>3, ToSetIs
<1>. QED
  BY <1>4, <1>5, <1>6

\* Cutting a sequence in two loses none of its elements (a split).
LEMMA ToSetHalves ==
  ASSUME NEW E, NEW s \in Seq(E), NEW m \in 0..Len(s)
  PROVE  ToSet(SubSeq(s, 1, m)) \cup ToSet(SubSeq(s, m + 1, Len(s))) = ToSet(s)
<1>1. Len(s) \in Nat /\ \A i \in 1..Len(s) : s[i] \in E
  BY ElementsOfSeq
<1>. DEFINE a == SubSeq(s, 1, m)
            b == SubSeq(s, m + 1, Len(s))
<1>2. a \in Seq(E) /\ Len(a) = m /\ \A i \in 1..m : a[i] = s[i]
  <2>1. \A i \in 1..m : s[i] \in E
    BY <1>1
  <2>2. a \in Seq(E) /\ Len(a) = m
    BY <1>1, SubSeqSeq
  <2>3. \A i \in 1..m : a[i] = s[i]
    BY <1>1, <2>1, SubSeqProperties
  <2>. QED
    BY <2>2, <2>3
<1>3. b \in Seq(E) /\ Len(b) = Len(s) - m /\ \A i \in 1..(Len(s) - m) : b[i] = s[m + i]
  <2>1. \A i \in (m + 1)..Len(s) : s[i] \in E
    BY <1>1
  <2>2. b \in Seq(E) /\ Len(b) = Len(s) - m
    BY <1>1, SubSeqSeq
  <2>3. \A i \in 1..(Len(s) - m) : b[i] = s[(m + 1) + i - 1]
    BY <1>1, <2>1, SubSeqProperties
  <2>4. \A i \in 1..(Len(s) - m) : (m + 1) + i - 1 = m + i
    BY <1>1
  <2>. QED
    BY <2>2, <2>3, <2>4
<1>. HIDE DEF a, b
<1>4. \A i \in 1..m : i \in 1..Len(s)
  BY <1>1
<1>5. \A i \in 1..(Len(s) - m) : m + i \in 1..Len(s)
  BY <1>1
<1>6. ToSet(a) \subseteq ToSet(s)
  BY <1>2, <1>4, ToSetIs
<1>7. ToSet(b) \subseteq ToSet(s)
  BY <1>3, <1>5, ToSetIs
<1>8. ASSUME NEW e \in ToSet(s)
      PROVE  e \in ToSet(a) \cup ToSet(b)
  <2>1. PICK i \in 1..Len(s) : s[i] = e
    BY ToSetIs
  <2>2. CASE i <= m
    <3>1. i \in 1..m
      BY <1>1, <2>2
    <3>. QED
      BY <1>2, <2>1, <3>1, ToSetIs
  <2>3. CASE ~(i <= m)
    <3>1. i - m \in 1..(Len(s) - m) /\ m + (i - m) = i
      BY <1>1, <2>3
    <3>2. b[i - m] = e
      BY <1>3, <2>1, <3>1
    <3>. QED
      BY <1>3, <3>1, <3>2, ToSetIs
  <2>. QED
    BY <2>2, <2>3
<1>. QED
  BY <1>6, <1>7, <1>8 DEF a, b

\* Inserting adds the new element.
LEMMA ToSetInsertAt ==
  ASSUME NEW E, NEW s \in Seq(E), NEW i \in 1..(Len(s) + 1), NEW e \in E
  PROVE  ToSet(InsertAt(s, i, e)) = ToSet(s) \cup {e}
<1>. DEFINE r == InsertAt(s, i, e)
<1>1. Len(s) \in Nat
  BY ElementsOfSeq
<1>2. /\ r \in Seq(E) /\ Len(r) = Len(s) + 1
      /\ \A j \in 1..(Len(s) + 1) :
           r[j] = IF j < i THEN s[j] ELSE IF j = i THEN e ELSE s[j - 1]
  <2>1. r \in Seq(E) /\ Len(r) = Len(s) + 1
    BY InsertAtSeq
  <2>. QED
    BY <2>1, InsertAtIndex
<1>. HIDE DEF r
<1>3. ASSUME NEW x \in ToSet(r)
      PROVE  x \in ToSet(s) \cup {e}
  <2>1. PICK j \in 1..(Len(s) + 1) : r[j] = x
    BY <1>2, ToSetIs
  <2>2. CASE j < i
    <3>1. j \in 1..Len(s)
      BY <1>1, <2>2
    <3>. QED
      BY <1>2, <2>1, <2>2, <3>1, ToSetIs
  <2>3. CASE j > i
    <3>1. j - 1 \in 1..Len(s) /\ ~(j < i) /\ j # i
      BY <1>1, <2>3
    <3>. QED
      BY <1>2, <2>1, <3>1, ToSetIs
  <2>. QED
    BY <1>1, <1>2, <2>1, <2>2, <2>3
<1>4. e \in ToSet(r)
  <2>1. i \in 1..(Len(s) + 1) /\ ~(i < i)
    BY <1>1
  <2>. QED
    BY <1>2, <2>1, ToSetIs
<1>5. ASSUME NEW x \in ToSet(s)
      PROVE  x \in ToSet(r)
  <2>1. PICK j \in 1..Len(s) : s[j] = x
    BY ToSetIs
  <2>2. CASE j < i
    <3>1. j \in 1..(Len(s) + 1)
      BY <1>1
    <3>. QED
      BY <1>2, <2>1, <2>2, <3>1, ToSetIs
  <2>3. CASE ~(j < i)
    <3>1. j + 1 \in 1..(Len(s) + 1) /\ ~(j + 1 < i) /\ j + 1 # i /\ (j + 1) - 1 = j
      BY <1>1, <2>3
    <3>2. r[j + 1] = x
      BY <1>2, <2>1, <3>1
    <3>. QED
      BY <1>2, <3>1, <3>2, ToSetIs
  <2>. QED
    BY <2>2, <2>3
<1>. QED
  BY <1>3, <1>4, <1>5 DEF r

(***************************************************************************)
(* No element occurs twice.                                                *)
(***************************************************************************)
Distinct(s) == \A i, j \in DOMAIN s : s[i] = s[j] => i = j

\* Removing an element leaves the others.
LEMMA ToSetRemoveAt ==
  ASSUME NEW E, NEW s \in Seq(E), NEW i \in 1..Len(s)
  PROVE  /\ ToSet(RemoveAt(s, i)) \subseteq ToSet(s)
         /\ ToSet(s) \ {s[i]} \subseteq ToSet(RemoveAt(s, i))
         /\ Distinct(s) => ToSet(RemoveAt(s, i)) = ToSet(s) \ {s[i]}
         /\ \A x : x \in ToSet(RemoveAt(s, i)) <=> \E j \in 1..Len(s) : j # i /\ s[j] = x
<1>. DEFINE r == RemoveAt(s, i)
<1>1. Len(s) \in Nat /\ DOMAIN s = 1..Len(s)
  BY ElementsOfSeq
<1>2. /\ r \in Seq(E) /\ Len(r) = Len(s) - 1
      /\ \A j \in 1..(Len(s) - 1) : r[j] = IF j < i THEN s[j] ELSE s[j + 1]
  BY RemoveAtSeq, RemoveAtIndex
<1>. HIDE DEF r
<1>3. ASSUME NEW x \in ToSet(r)
      PROVE  \E j \in 1..Len(s) : j # i /\ s[j] = x
  <2>1. PICK j \in 1..(Len(s) - 1) : r[j] = x
    BY <1>2, ToSetIs
  <2>2. CASE j < i
    <3>1. j \in 1..Len(s) /\ j # i
      BY <1>1, <2>2
    <3>. QED
      BY <1>2, <2>1, <2>2, <3>1
  <2>3. CASE ~(j < i)
    <3>1. j + 1 \in 1..Len(s) /\ j + 1 # i
      BY <1>1, <2>3
    <3>. QED
      BY <1>2, <2>1, <2>3, <3>1
  <2>. QED
    BY <2>2, <2>3
<1>4. ASSUME NEW j \in 1..Len(s), j # i
      PROVE  s[j] \in ToSet(r)
  <2>1. CASE j < i
    <3>1. j \in 1..(Len(s) - 1)
      BY <1>1, <2>1
    <3>. QED
      BY <1>2, <2>1, <3>1, ToSetIs
  <2>2. CASE ~(j < i)
    <3>1. j - 1 \in 1..(Len(s) - 1) /\ ~(j - 1 < i) /\ (j - 1) + 1 = j
      BY <1>1, <1>4, <2>2
    <3>2. r[j - 1] = s[j]
      BY <1>2, <3>1
    <3>. QED
      BY <1>2, <3>1, <3>2, ToSetIs
  <2>. QED
    BY <2>1, <2>2
<1>5. ToSet(r) \subseteq ToSet(s)
  BY <1>3, ToSetIs
<1>6. ToSet(s) \ {s[i]} \subseteq ToSet(r)
  BY <1>4, ToSetIs
<1>7. ASSUME Distinct(s)
      PROVE  s[i] \notin ToSet(r)
  BY <1>1, <1>3, <1>7 DEF Distinct
<1>8. \A x : x \in ToSet(r) <=> \E j \in 1..Len(s) : j # i /\ s[j] = x
  BY <1>3, <1>4
<1>. QED
  BY <1>5, <1>6, <1>7, <1>8 DEF r

\* Replacing an element leaves the others.
LEMMA ToSetReplace ==
  ASSUME NEW E, NEW s \in Seq(E), NEW i \in DOMAIN s, NEW u \in E
  PROVE  LET r == [s EXCEPT ![i] = u]
         IN  /\ ToSet(r) \subseteq ToSet(s) \cup {u}
             /\ (ToSet(s) \ {s[i]}) \cup {u} \subseteq ToSet(r)
             /\ Distinct(s) => ToSet(r) = (ToSet(s) \ {s[i]}) \cup {u}
<1>. DEFINE r == [s EXCEPT ![i] = u]
<1>1. /\ r \in Seq(E) /\ Len(r) = Len(s)
      /\ \A j \in DOMAIN s : r[j] = IF j = i THEN u ELSE s[j]
  BY ReplaceEnds
<1>2. DOMAIN s = 1..Len(s)
  BY ElementsOfSeq
<1>. HIDE DEF r
<1>3. \A x : x \in ToSet(r) <=> \E j \in DOMAIN s : r[j] = x
  BY <1>1, <1>2, ToSetIs
<1>4. \A x : x \in ToSet(s) <=> \E j \in DOMAIN s : s[j] = x
  BY <1>2, ToSetIs
<1>5. ToSet(r) \subseteq ToSet(s) \cup {u}
  BY <1>1, <1>3, <1>4
<1>6. (ToSet(s) \ {s[i]}) \cup {u} \subseteq ToSet(r)
  BY <1>1, <1>3, <1>4
<1>7. ASSUME Distinct(s)
      PROVE  ToSet(r) \subseteq (ToSet(s) \ {s[i]}) \cup {u}
  BY <1>1, <1>3, <1>4, <1>7 DEF Distinct
<1>. QED
  BY <1>5, <1>6, <1>7 DEF r

\* The entries of two neighbours replaced.
LEMMA ToSetWithNeighbours ==
  ASSUME NEW E, NEW s \in Seq(E), Distinct(s), NEW i \in DOMAIN s, NEW j \in DOMAIN s, i # j,
         NEW x, NEW y
  PROVE  /\ Len(WithNeighbours(s, i, j, x, y)) = Len(s)
         /\ ToSet(WithNeighbours(s, i, j, x, y))
              = (ToSet(s) \ {s[i], s[j]}) \cup {EntryFor(x), EntryFor(y)}
<1>. DEFINE u == EntryFor(x)
            v == EntryFor(y)
            r == [s EXCEPT ![i] = u, ![j] = v]
            F == E \cup {u, v}
<1>0. r = WithNeighbours(s, i, j, x, y)
  BY DEF WithNeighbours
<1>. HIDE DEF u, v
<1>1. s \in Seq(F)
  BY SeqMonotonic
<1>2. DOMAIN s = 1..Len(s) /\ Len(s) \in Nat
  BY ElementsOfSeq
<1>3. r \in Seq(F) /\ Len(r) = Len(s)
  <2>1. [s EXCEPT ![i] = u] \in Seq(F) /\ Len([s EXCEPT ![i] = u]) = Len(s)
    BY <1>1, <1>2, ExceptSeq
  <2>2. r = [[s EXCEPT ![i] = u] EXCEPT ![j] = v]
    BY <1>2
  <2>. HIDE DEF r
  <2>. QED
    BY <1>2, <2>1, <2>2, ExceptSeq
<1>4. \A a \in DOMAIN s : r[a] = IF a = j THEN v ELSE IF a = i THEN u ELSE s[a]
  OBVIOUS
<1>. HIDE DEF r, F
<1>5. \A z : z \in ToSet(r) <=> \E a \in DOMAIN s : r[a] = z
  BY <1>2, <1>3, ToSetIs
<1>6. \A z : z \in ToSet(s) <=> \E a \in DOMAIN s : s[a] = z
  BY <1>2, ToSetIs
<1>7. ToSet(r) \subseteq (ToSet(s) \ {s[i], s[j]}) \cup {u, v}
  BY <1>4, <1>5, <1>6 DEF Distinct
<1>8. (ToSet(s) \ {s[i], s[j]}) \cup {u, v} \subseteq ToSet(r)
  BY <1>4, <1>5, <1>6
<1>. QED
  BY <1>0, <1>3, <1>7, <1>8 DEF u, v

\* One element for two.
LEMMA ToSetOneForTwo ==
  ASSUME NEW E, NEW s \in Seq(E), Distinct(s), NEW i \in DOMAIN s, NEW j \in DOMAIN s, j = i + 1,
         NEW w
  PROVE  LET r == OneForTwo(s, i, w)
         IN  Len(r) = Len(s) - 1 /\ ToSet(r) = (ToSet(s) \ {s[i], s[j]}) \cup {w}
<1>. DEFINE once == [s EXCEPT ![i] = w]
            F == E \cup {w}
            r == RemoveAt(once, j)
<1>1. s \in Seq(F)
  BY SeqMonotonic
<1>2. DOMAIN s = 1..Len(s) /\ Len(s) \in Nat /\ i # j /\ j \in 1..Len(s)
  BY ElementsOfSeq
<1>3. once \in Seq(F) /\ Len(once) = Len(s)
  BY <1>1, <1>2, ExceptSeq
<1>4. \A a \in DOMAIN s : once[a] = IF a = i THEN w ELSE s[a]
  OBVIOUS
<1>. HIDE DEF once, F
<1>5. /\ Len(r) = Len(s) - 1
      /\ \A x : x \in ToSet(r) <=> \E a \in 1..Len(s) : a # j /\ once[a] = x
  <2>1. j \in 1..Len(once)
    BY <1>2, <1>3
  <2>2. Len(r) = Len(once) - 1
    BY <1>3, <2>1, RemoveAtSeq
  <2>3. \A x : x \in ToSet(r) <=> \E a \in 1..Len(once) : a # j /\ once[a] = x
    BY <1>3, <2>1, ToSetRemoveAt
  <2>. QED
    BY <1>3, <2>2, <2>3
<1>. HIDE DEF r
<1>6. \A x : x \in ToSet(s) <=> \E a \in DOMAIN s : s[a] = x
  BY <1>2, ToSetIs
<1>7. ToSet(r) \subseteq (ToSet(s) \ {s[i], s[j]}) \cup {w}
  BY <1>2, <1>4, <1>5, <1>6 DEF Distinct
<1>8. (ToSet(s) \ {s[i], s[j]}) \cup {w} \subseteq ToSet(r)
  BY <1>2, <1>4, <1>5, <1>6
<1>9. r = OneForTwo(s, i, w)
  BY DEF r, once, OneForTwo
<1>. QED
  BY <1>5, <1>7, <1>8, <1>9

\* The slots of a node in order are all different.
LEMMA OrderDistinct ==
  ASSUME NEW E, Ranged(E), NEW s \in Seq(E), InOrder(s)
  PROVE  Distinct(s)
<1>. SUFFICES ASSUME NEW i \in DOMAIN s, NEW j \in DOMAIN s, s[i] = s[j], i < j
              PROVE  FALSE
  BY ElementsOfSeq DEF Distinct
<1>1. LowestKey(s[i]) \in Int /\ HighestKey(s[i]) \in Int
  BY ElementsOfSeq DEF Ranged
<1>2. HighestKey(s[i]) < LowestKey(s[i]) /\ LowestKey(s[i]) <= HighestKey(s[i])
  BY DEF InOrder
<1>. QED
  BY <1>1, <1>2

\* Without its last and without its first element.
LEMMA ToSetEnds ==
  ASSUME NEW E, NEW s \in Seq(E) \ {<<>>}
  PROVE  /\ ToSet(s) = ToSet(Front(s)) \cup {Last(s)}
         /\ ToSet(s) = {s[1]} \cup ToSet(Tail(s))
         /\ Front(s) \in Seq(E) /\ Len(Front(s)) = Len(s) - 1
         /\ Tail(s) \in Seq(E) /\ Len(Tail(s)) = Len(s) - 1
<1>1. PICK n \in Nat : n = Len(s) /\ n > 0
  BY ElementsOfSeq
<1>2. \A i \in 1..n : s[i] \in E
  BY <1>1, ElementsOfSeq
<1>3. n - 1 \in Nat /\ \A i \in 1..n : i = n \/ i \in 1..(n - 1)
  BY <1>1
<1>4. \A i \in 1..(n - 1) : i \in 1..n /\ i + 1 \in 1..n
  BY <1>1
<1>5. \A i \in 1..n : i = 1 \/ (i - 1 \in 1..(n - 1) /\ (i - 1) + 1 = i)
  BY <1>1
<1>6. 1 \in 1..n /\ n \in 1..n
  BY <1>1
<1>. DEFINE f == Front(s)
            t == Tail(s)
<1>7. f \in Seq(E) /\ Len(f) = n - 1 /\ \A i \in 1..(n - 1) : f[i] = s[i]
  <2>1. f = SubSeq(s, 1, n - 1)
    BY <1>1 DEF Front
  <2>2. \A i \in 1..(n - 1) : s[i] \in E
    BY <1>2, <1>4
  <2>3. /\ SubSeq(s, 1, n - 1) \in Seq(E)
        /\ Len(SubSeq(s, 1, n - 1)) = IF 1 <= n - 1 THEN n - 1 - 1 + 1 ELSE 0
        /\ \A i \in 1..(n - 1 - 1 + 1) : SubSeq(s, 1, n - 1)[i] = s[1 + i - 1]
    BY <1>3, <2>2, SubSeqProperties
  <2>4. \A i \in 1..(n - 1) : i \in 1..(n - 1 - 1 + 1) /\ 1 + i - 1 = i
    BY <1>3
  <2>. HIDE DEF f
  <2>. QED
    BY <1>1, <2>1, <2>3, <2>4
<1>8. t \in Seq(E) /\ Len(t) = n - 1 /\ \A i \in 1..(n - 1) : t[i] = s[i + 1]
  BY <1>1, HeadTailProperties
<1>. HIDE DEF f, t
<1>9. \A x : x \in ToSet(s) <=> \E i \in 1..n : s[i] = x
  BY <1>1, ToSetIs
<1>10. ToSet(s) = ToSet(f) \cup {Last(s)}
  <2>1. \A x : x \in ToSet(f) <=> \E i \in 1..(n - 1) : f[i] = x
    BY <1>7, ToSetIs
  <2>2. Last(s) = s[n]
    BY <1>1 DEF Last
  <2>. QED
    BY <1>3, <1>4, <1>6, <1>7, <1>9, <2>1, <2>2
<1>11. ToSet(s) = {s[1]} \cup ToSet(t)
  <2>1. \A x : x \in ToSet(t) <=> \E i \in 1..(n - 1) : t[i] = x
    BY <1>8, ToSetIs
  <2>2. ASSUME NEW x \in ToSet(s)
        PROVE  x \in {s[1]} \cup ToSet(t)
    <3>1. PICK i \in 1..n : s[i] = x
      BY <1>9
    <3>2. i = 1 \/ (i - 1 \in 1..(n - 1) /\ t[i - 1] = s[i])
      BY <1>5, <1>8
    <3>. QED
      BY <2>1, <3>1, <3>2
  <2>3. s[1] \in ToSet(s)
    BY <1>6, <1>9
  <2>4. ASSUME NEW x \in ToSet(t)
        PROVE  x \in ToSet(s)
    BY <1>4, <1>8, <1>9, <2>1
  <2>. QED
    BY <2>2, <2>3, <2>4
<1>. QED
  BY <1>1, <1>7, <1>8, <1>10, <1>11 DEF f, t
-----------------------------------------------------------------------------
(***************************************************************************)
(* What repairing a child that is too small does to it and to the sibling  *)
(* it is repaired with, children h and h + 1 of the list: their slots are  *)
(* shared out anew, or all are in one node.                                *)
(***************************************************************************)
SlotsOfTwo(children, h) ==
  ToSet(Slots(children[h].child_hash)) \cup ToSet(Slots(children[h + 1].child_hash))

\* Child i has one slot more, its sibling one less, but no fewer than the minimum.
Lent(S, l, children, i, h, x, y, c) ==
  /\ {x, y} \subseteq BalancedOver(S) /\ Level(x) + 1 = l /\ Level(y) + 1 = l
  /\ ToSet(Slots(x)) \cup ToSet(Slots(y)) = SlotsOfTwo(children, h)
  /\ LET a == NumEntries(children[h].child_hash)
         b == NumEntries(children[h + 1].child_hash)
     IN  IF i = h
         THEN NumEntries(x) = a + 1 /\ NumEntries(y) = b - 1 /\ b > c.min_fanout
         ELSE NumEntries(x) = a - 1 /\ NumEntries(y) = b + 1 /\ a > c.min_fanout

\* The sibling has no slot to spare.
Merged(S, l, children, i, h, m, c) ==
  /\ m \in BalancedOver(S) /\ Level(m) + 1 = l
  /\ ToSet(Slots(m)) = SlotsOfTwo(children, h)
  /\ LET a == NumEntries(children[h].child_hash)
         b == NumEntries(children[h + 1].child_hash)
     IN  NumEntries(m) = a + b /\ IF i = h THEN b <= c.min_fanout ELSE a <= c.min_fanout

\* Children h and h + 1 have been repaired, whichever of the two child i is.
Repaired(S, l, children, i, h, r, c) ==
  \/ \E x, y : /\ Lent(S, l, children, i, h, x, y, c)
              /\ r = WithNeighbours(children, h, h + 1, x, y)
  \/ \E m : Merged(S, l, children, i, h, m, c) /\ r = OneForTwo(children, h, EntryFor(m))

\* A sequence lends its last element to the one after it.
LEMMA LendLast ==
  ASSUME NEW E, NEW s \in Seq(E), Len(s) > 1, NEW t \in Seq(E)
  PROVE  LET u == <<Last(s)>> \o t
         IN  /\ Front(s) \in Seq(E) \ {<<>>} /\ Len(Front(s)) = Len(s) - 1
             /\ u \in Seq(E) \ {<<>>} /\ Len(u) = Len(t) + 1
             /\ ToSet(Front(s)) \cup ToSet(u) = ToSet(s) \cup ToSet(t)
<1>1. s # <<>> /\ Len(s) \in Nat /\ Len(t) \in Nat
  BY ElementsOfSeq
<1>2. /\ ToSet(s) = ToSet(Front(s)) \cup {Last(s)}
      /\ Front(s) \in Seq(E) /\ Len(Front(s)) = Len(s) - 1
  BY <1>1, ToSetEnds
<1>3. Last(s) \in E
  BY <1>1, LastOfSeq
<1>. DEFINE one == <<Last(s)>>
<1>4. one \in Seq(E) /\ Len(one) = 1 /\ ToSet(one) = {Last(s)}
  BY <1>3 DEF ToSet
<1>. HIDE DEF one
<1>5. one \o t \in Seq(E) /\ Len(one \o t) = 1 + Len(t) /\ ToSet(one \o t) = {Last(s)} \cup ToSet(t)
  <2>1. one \o t \in Seq(E) /\ Len(one \o t) = Len(one) + Len(t)
    BY <1>4, ConcatSeq
  <2>2. ToSet(one \o t) = ToSet(one) \cup ToSet(t)
    BY <1>4, ToSetConcat
  <2>. QED
    BY <1>4, <2>1, <2>2
<1>6. Front(s) # <<>> /\ one \o t # <<>>
  <2>1. Len(Front(s)) > 0 /\ Len(one \o t) > 0
    BY <1>1, <1>2, <1>5
  <2>. QED
    BY <1>2, <1>5, <2>1, ElementsOfSeq
<1>7. ToSet(Front(s)) \cup ToSet(one \o t) = ToSet(s) \cup ToSet(t)
  BY <1>2, <1>5
<1>. QED
  BY <1>1, <1>2, <1>5, <1>6, <1>7 DEF one

\* A sequence lends its first element to the one before it.
LEMMA LendFirst ==
  ASSUME NEW E, NEW s \in Seq(E), Len(s) > 1, NEW t \in Seq(E)
  PROVE  LET u == Append(t, Head(s))
         IN  /\ Tail(s) \in Seq(E) \ {<<>>} /\ Len(Tail(s)) = Len(s) - 1
             /\ u \in Seq(E) \ {<<>>} /\ Len(u) = Len(t) + 1
             /\ ToSet(u) \cup ToSet(Tail(s)) = ToSet(t) \cup ToSet(s)
<1>1. s # <<>> /\ Len(s) \in Nat /\ Len(t) \in Nat /\ Head(s) = s[1]
  BY ElementsOfSeq
<1>2. /\ ToSet(s) = {s[1]} \cup ToSet(Tail(s))
      /\ Tail(s) \in Seq(E) /\ Len(Tail(s)) = Len(s) - 1
  BY <1>1, ToSetEnds
<1>3. Head(s) \in E
  BY <1>1, HeadTailProperties
<1>. DEFINE one == <<Head(s)>>
<1>4. one \in Seq(E) /\ Len(one) = 1 /\ ToSet(one) = {Head(s)}
  BY <1>3 DEF ToSet
<1>5. Append(t, Head(s)) = t \o one
  BY <1>3, AppendIsConcat
<1>. HIDE DEF one
<1>6. t \o one \in Seq(E) /\ Len(t \o one) = Len(t) + 1 /\ ToSet(t \o one) = ToSet(t) \cup {Head(s)}
  <2>1. t \o one \in Seq(E) /\ Len(t \o one) = Len(t) + Len(one)
    BY <1>4, ConcatSeq
  <2>2. ToSet(t \o one) = ToSet(t) \cup ToSet(one)
    BY <1>4, ToSetConcat
  <2>. QED
    BY <1>4, <2>1, <2>2
<1>7. Tail(s) # <<>> /\ t \o one # <<>>
  <2>1. Len(Tail(s)) > 0 /\ Len(t \o one) > 0
    BY <1>1, <1>2, <1>6
  <2>. QED
    BY <1>2, <1>6, <2>1, ElementsOfSeq
<1>8. ToSet(t \o one) \cup ToSet(Tail(s)) = ToSet(t) \cup ToSet(s)
  BY <1>1, <1>2, <1>6
<1>. QED
  BY <1>1, <1>2, <1>5, <1>6, <1>7, <1>8

\* Borrowing from the left sibling.
LEMMA BorrowFromLeftIs ==
  ASSUME NEW S, Sound(S), NEW l, NEW children \in Seq(EntriesBelow(S, l)),
         NEW c \in Configs, NEW i \in DOMAIN children, NEW h \in DOMAIN children, i = h + 1,
         CanLend(children, h, c)
  PROVE  \E x, y : /\ Lent(S, l, children, i, h, x, y, c)
                   /\ BorrowFromLeft(children, i) = WithNeighbours(children, h, i, x, y)
<1>. DEFINE left  == children[h].child_hash
            under == children[i].child_hash
            A == Slots(left)
            B == Slots(under)
<1>1. i # h /\ h = i - 1
  BY ElementsOfSeq
<1>2. /\ left \in BalancedOver(S) /\ Level(left) + 1 = l
      /\ A \in Seq(SlotsOver(left, S)) /\ A \in Seq(SlotsOver(under, S))
  BY ChildSlots
<1>3. /\ under \in BalancedOver(S) /\ Level(under) + 1 = l
      /\ B \in Seq(SlotsOver(left, S)) /\ B \in Seq(SlotsOver(under, S))
  BY ChildSlots
<1>4. NumEntries(left) > c.min_fanout /\ Len(A) > 1
  <2>1. NumEntries(left) > c.min_fanout
    BY DEF CanLend
  <2>2. Len(A) \in Nat
    BY <1>2, ElementsOfSeq
  <2>. QED
    BY <2>1, <2>2, ConfigsAssumption DEF NumEntries
<1>5. SlotsOfTwo(children, h) = ToSet(A) \cup ToSet(B)
  BY DEF SlotsOfTwo
<1>6. NumEntries(left) = Len(A) /\ NumEntries(under) = Len(B)
  BY DEF NumEntries
<1>7. BorrowFromLeft(children, i)
        = WithNeighbours(children, h, i, WithSlots(left, Front(A)), WithSlots(under, <<Last(A)>> \o B))
  BY <1>1 DEF WithNeighbours, BorrowFromLeft
<1>. HIDE DEF A, B
<1>8. Front(A) \in Seq(SlotsOver(left, S)) \ {<<>>} /\ Len(Front(A)) = Len(A) - 1
  BY <1>2, <1>3, <1>4, LendLast
<1>. DEFINE F == Front(A)
            G == <<Last(A)>> \o B
<1>9. /\ G \in Seq(SlotsOver(under, S)) \ {<<>>} /\ Len(G) = Len(B) + 1
      /\ ToSet(F) \cup ToSet(G) = ToSet(A) \cup ToSet(B)
  BY <1>2, <1>3, <1>4, LendLast
<1>. HIDE DEF F, G, left, under
<1>. DEFINE x == WithSlots(left, F)
            y == WithSlots(under, G)
<1>10. x \in BalancedOver(S) /\ Level(x) + 1 = l /\ Slots(x) = F
  BY <1>2, <1>8, WithSlotsOver DEF F
<1>11. y \in BalancedOver(S) /\ Level(y) + 1 = l /\ Slots(y) = G
  BY <1>3, <1>9, WithSlotsOver
<1>12. NumEntries(x) = Len(A) - 1 /\ NumEntries(y) = Len(B) + 1
  BY <1>8, <1>9, <1>10, <1>11 DEF NumEntries, F
<1>. HIDE DEF x, y
<1>13. Lent(S, l, children, i, h, x, y, c)
  BY <1>1, <1>4, <1>5, <1>6, <1>9, <1>10, <1>11, <1>12 DEF Lent, left, under
<1>14. BorrowFromLeft(children, i) = WithNeighbours(children, h, i, x, y)
  BY <1>7 DEF x, y, F, G
<1>. QED
  BY <1>13, <1>14

\* Borrowing from the right sibling.
LEMMA BorrowFromRightIs ==
  ASSUME NEW S, Sound(S), NEW l, NEW children \in Seq(EntriesBelow(S, l)),
         NEW c \in Configs, NEW i \in DOMAIN children, NEW j \in DOMAIN children, j = i + 1,
         CanLend(children, j, c)
  PROVE  \E x, y : /\ Lent(S, l, children, i, i, x, y, c)
                   /\ BorrowFromRight(children, i) = WithNeighbours(children, i, j, x, y)
<1>. DEFINE under == children[i].child_hash
            right == children[j].child_hash
            A == Slots(under)
            B == Slots(right)
<1>2. /\ under \in BalancedOver(S) /\ Level(under) + 1 = l
      /\ A \in Seq(SlotsOver(under, S)) /\ A \in Seq(SlotsOver(right, S))
  BY ChildSlots
<1>3. /\ right \in BalancedOver(S) /\ Level(right) + 1 = l
      /\ B \in Seq(SlotsOver(under, S)) /\ B \in Seq(SlotsOver(right, S))
  BY ChildSlots
<1>4. NumEntries(right) > c.min_fanout /\ Len(B) > 1
  <2>1. NumEntries(right) > c.min_fanout
    BY DEF CanLend
  <2>2. Len(B) \in Nat
    BY <1>3, ElementsOfSeq
  <2>. QED
    BY <2>1, <2>2, ConfigsAssumption DEF NumEntries
<1>5. SlotsOfTwo(children, i) = ToSet(A) \cup ToSet(B)
  BY DEF SlotsOfTwo
<1>6. NumEntries(under) = Len(A) /\ NumEntries(right) = Len(B)
  BY DEF NumEntries
<1>7. BorrowFromRight(children, i)
        = WithNeighbours(children, i, j, WithSlots(under, Append(A, Head(B))), WithSlots(right, Tail(B)))
  BY DEF WithNeighbours, BorrowFromRight
<1>. HIDE DEF A, B
<1>. DEFINE F == Append(A, Head(B))
            G == Tail(B)
<1>8. F \in Seq(SlotsOver(under, S)) \ {<<>>} /\ Len(F) = Len(A) + 1
  BY <1>2, <1>3, <1>4, LendFirst
<1>9. /\ G \in Seq(SlotsOver(right, S)) \ {<<>>} /\ Len(G) = Len(B) - 1
      /\ ToSet(F) \cup ToSet(G) = ToSet(A) \cup ToSet(B)
  BY <1>2, <1>3, <1>4, LendFirst
<1>. HIDE DEF F, G, under, right
<1>. DEFINE x == WithSlots(under, F)
            y == WithSlots(right, G)
<1>10. x \in BalancedOver(S) /\ Level(x) + 1 = l /\ Slots(x) = F
  BY <1>2, <1>8, WithSlotsOver
<1>11. y \in BalancedOver(S) /\ Level(y) + 1 = l /\ Slots(y) = G
  BY <1>3, <1>9, WithSlotsOver
<1>12. NumEntries(x) = Len(A) + 1 /\ NumEntries(y) = Len(B) - 1
  BY <1>8, <1>9, <1>10, <1>11 DEF NumEntries
<1>. HIDE DEF x, y
<1>13. Lent(S, l, children, i, i, x, y, c)
  BY <1>4, <1>5, <1>6, <1>9, <1>10, <1>11, <1>12 DEF Lent, under, right
<1>14. BorrowFromRight(children, i) = WithNeighbours(children, i, j, x, y)
  BY <1>7 DEF x, y, F, G
<1>. QED
  BY <1>13, <1>14

\* Two neighbours in one node, with the entry a parent keeps for it.
LEMMA MergeWithNextIs ==
  ASSUME NEW S, Sound(S), NEW l, NEW children \in Seq(EntriesBelow(S, l)),
         NEW i \in DOMAIN children, NEW j \in DOMAIN children, j = i + 1
  PROVE  \E m : /\ m \in BalancedOver(S) /\ Level(m) + 1 = l
                /\ ToSet(Slots(m)) = SlotsOfTwo(children, i)
                /\ NumEntries(m) = NumEntries(children[i].child_hash)
                                     + NumEntries(children[j].child_hash)
                /\ MergeWithNext(children, i) = OneForTwo(children, i, EntryFor(m))
<1>. DEFINE left   == children[i].child_hash
            right  == children[j].child_hash
            A      == Slots(left)
            B      == Slots(right)
            merged == WithSlots(left, A \o B)
            entry  == [EntryFor(merged) EXCEPT
                         !.num_items_subtree = children[i].num_items_subtree
                                                 + children[j].num_items_subtree]
<1>2. left \in BalancedOver(S) /\ Level(left) + 1 = l /\ A \in Seq(SlotsOver(left, S)) \ {<<>>}
  BY ChildSlots
<1>3. right \in BalancedOver(S) /\ Level(right) + 1 = l /\ B \in Seq(SlotsOver(left, S)) \ {<<>>}
  BY ChildSlots
<1>4. children[i].num_items_subtree + children[j].num_items_subtree = ItemCount(merged)
  <2>1. /\ children[i] \in EntriesBelow(S, l) /\ children[i] = EntryFor(left)
        /\ children[j] \in EntriesBelow(S, l) /\ children[j] = EntryFor(right)
    BY ElementsOfSeq DEF EntriesBelow
  <2>. HIDE DEF left, right
  <2>2. Level(left) = Level(right)
    BY <1>2, <1>3, NodeKinds
  <2>3. ItemCount(merged) = ItemCount(left) + ItemCount(right)
    BY <1>2, <1>3, <2>2, MergedItems
  <2>4. /\ children[i].num_items_subtree = ItemCount(left)
        /\ children[j].num_items_subtree = ItemCount(right)
    BY <2>1 DEF EntryFor
  <2>. QED
    BY <2>3, <2>4
<1>5. MergeWithNext(children, i) = OneForTwo(children, i, entry)
  BY DEF MergeWithNext, OneForTwo
<1>6. SlotsOfTwo(children, i) = ToSet(A) \cup ToSet(B)
  BY DEF SlotsOfTwo
<1>7. NumEntries(left) = Len(A) /\ NumEntries(right) = Len(B)
  BY DEF NumEntries
<1>. HIDE DEF A, B, left, right
<1>8. entry = EntryFor(merged)
  BY <1>4 DEF EntryFor
<1>9. A \o B \in Seq(SlotsOver(left, S)) \ {<<>>} /\ Len(A \o B) = Len(A) + Len(B)
  BY <1>2, <1>3, ConcatEnds, ConcatSeq
<1>10. ToSet(A \o B) = ToSet(A) \cup ToSet(B)
  BY <1>2, <1>3, ToSetConcat
<1>11. merged \in BalancedOver(S) /\ Level(merged) + 1 = l /\ Slots(merged) = A \o B
  BY <1>2, <1>9, WithSlotsOver
<1>. HIDE DEF entry, merged
<1>12. NumEntries(merged) = Len(A) + Len(B)
  BY <1>9, <1>11 DEF NumEntries
<1>. QED
  BY <1>5, <1>6, <1>7, <1>8, <1>10, <1>11, <1>12 DEF left, right

\* Child i is repaired with the sibling before or after it.
LEMMA HandleUnderflowIs ==
  ASSUME NEW S, Sound(S), NEW l, NEW children \in Seq(EntriesBelow(S, l)),
         HasSibling(children), NEW c \in Configs, NEW i \in DOMAIN children
  PROVE  \E h \in DOMAIN children :
           /\ h + 1 \in DOMAIN children /\ i \in {h, h + 1}
           /\ Repaired(S, l, children, i, h, HandleUnderflow(children, i, c), c)
<1>1. CASE CanLend(children, i - 1, c)
  <2>1. HandleUnderflow(children, i, c) = BorrowFromLeft(children, i)
    BY <1>1 DEF HandleUnderflow
  <2>2. PICK h \in DOMAIN children : h = i - 1 /\ i = h + 1
    BY <1>1, ElementsOfSeq DEF CanLend
  <2>3. CanLend(children, h, c)
    BY <1>1, <2>2
  <2>4. \E x, y : /\ Lent(S, l, children, i, h, x, y, c)
                  /\ BorrowFromLeft(children, i) = WithNeighbours(children, h, i, x, y)
    BY <2>2, <2>3, BorrowFromLeftIs
  <2>. QED
    BY <2>1, <2>2, <2>4 DEF Repaired
<1>2. CASE ~CanLend(children, i - 1, c) /\ CanLend(children, i + 1, c)
  <2>1. HandleUnderflow(children, i, c) = BorrowFromRight(children, i)
    BY <1>2 DEF HandleUnderflow
  <2>2. PICK j \in DOMAIN children : j = i + 1
    BY <1>2 DEF CanLend
  <2>3. CanLend(children, j, c)
    BY <1>2, <2>2
  <2>4. \E x, y : /\ Lent(S, l, children, i, i, x, y, c)
                  /\ BorrowFromRight(children, i) = WithNeighbours(children, i, j, x, y)
    BY <2>2, <2>3, BorrowFromRightIs
  <2>. QED
    BY <2>1, <2>2, <2>4 DEF Repaired
<1>3. CASE ~CanLend(children, i - 1, c) /\ ~CanLend(children, i + 1, c)
  <2>. DEFINE h == IF i > 1 THEN i - 1 ELSE i
  <2>1. HandleUnderflow(children, i, c) = MergeWithNext(children, h)
    BY <1>3 DEF HandleUnderflow
  <2>2. h \in DOMAIN children /\ h + 1 \in DOMAIN children /\ i \in {h, h + 1}
    BY ElementsOfSeq DEF HasSibling
  <2>3. \A j \in DOMAIN children : NumEntries(children[j].child_hash) \in Nat
    <3>1. \A j \in DOMAIN children : \E E : Slots(children[j].child_hash) \in Seq(E)
      BY ChildSlots
    <3>. QED
      BY <3>1, ElementsOfSeq DEF NumEntries
  <2>4. IF i = h THEN NumEntries(children[h + 1].child_hash) <= c.min_fanout
                 ELSE NumEntries(children[h].child_hash) <= c.min_fanout
    <3>1. c.min_fanout \in Nat
      BY ConfigsAssumption
    <3>2. CASE i > 1
      <4>1. i # h /\ h = i - 1
        BY <3>2, ElementsOfSeq
      <4>. HIDE DEF h
      <4>2. ~(NumEntries(children[h].child_hash) > c.min_fanout)
        BY <1>3, <2>2, <4>1 DEF CanLend
      <4>3. NumEntries(children[h].child_hash) \in Nat
        BY <2>2, <2>3
      <4>. QED
        BY <3>1, <4>1, <4>2, <4>3
    <3>3. CASE ~(i > 1)
      <4>1. i = h
        BY <3>3
      <4>. HIDE DEF h
      <4>2. ~(NumEntries(children[h + 1].child_hash) > c.min_fanout)
        BY <1>3, <2>2, <4>1 DEF CanLend
      <4>3. NumEntries(children[h + 1].child_hash) \in Nat
        BY <2>2, <2>3
      <4>. QED
        BY <3>1, <4>1, <4>2, <4>3
    <3>. QED
      BY <3>2, <3>3
  <2>. HIDE DEF h
  <2>5. PICK m :
          /\ m \in BalancedOver(S) /\ Level(m) + 1 = l
          /\ ToSet(Slots(m)) = SlotsOfTwo(children, h)
          /\ NumEntries(m) = NumEntries(children[h].child_hash)
                               + NumEntries(children[h + 1].child_hash)
          /\ MergeWithNext(children, h) = OneForTwo(children, h, EntryFor(m))
    BY <2>2, MergeWithNextIs
  <2>6. Merged(S, l, children, i, h, m, c)
    BY <2>4, <2>5 DEF Merged
  <2>. QED
    BY <2>1, <2>2, <2>5, <2>6 DEF Repaired
<1>. QED
  BY <1>1, <1>2, <1>3

\* What the children of a node are after an insert below one of them.
LEMMA AfterInsertIs ==
  ASSUME NEW S, NEW l, NEW children \in Seq(EntriesBelow(S, l)), NEW i \in DOMAIN children,
         NEW update \in Seq(EntriesBelow(S, l)), Len(update) \in 1..2
  PROVE  LET r == AfterInsert(children, i, update)
         IN  /\ Len(r) = Len(children) + Len(update) - 1
             /\ ToSet(r) \subseteq ToSet(children) \cup ToSet(update)
             /\ Distinct(children) =>
                  ToSet(r) = (ToSet(children) \ {children[i]}) \cup ToSet(update)
<1>. DEFINE E == EntriesBelow(S, l)
            once == [children EXCEPT ![i] = update[1]]
            r == AfterInsert(children, i, update)
<1>1. /\ children \in Seq(E) /\ update \in Seq(E) /\ 1 \in DOMAIN update
      /\ DOMAIN children = 1..Len(children) /\ Len(children) \in Nat
      /\ DOMAIN update = 1..Len(update)
  BY ElementsOfSeq
<1>2. update[1] \in E /\ update[1] \in ToSet(update)
  BY <1>1, ElementsOfSeq, ToSetIs
<1>3. /\ once \in Seq(E) /\ Len(once) = Len(children)
      /\ ToSet(once) \subseteq ToSet(children) \cup {update[1]}
      /\ Distinct(children) => ToSet(once) = (ToSet(children) \ {children[i]}) \cup {update[1]}
  <2>. HIDE DEF E
  <2>. DEFINE u == update[1]
  <2>. HIDE DEF u
  <2>1. u \in E
    BY <1>2 DEF u
  <2>2. [children EXCEPT ![i] = u] \in Seq(E) /\ Len([children EXCEPT ![i] = u]) = Len(children)
    BY <1>1, <2>1, ExceptSeq
  <2>3. LET o == [children EXCEPT ![i] = u]
        IN  /\ ToSet(o) \subseteq ToSet(children) \cup {u}
            /\ Distinct(children) => ToSet(o) = (ToSet(children) \ {children[i]}) \cup {u}
    BY <1>1, <2>1, ToSetReplace
  <2>. QED
    BY <2>2, <2>3 DEF u
<1>4. CASE Len(update) = 1
  <2>1. AfterInsert(children, i, update) = once
    BY <1>4 DEF AfterInsert
  <2>3. ToSet(update) = {update[1]}
    BY <1>1, <1>4, ToSetIs
  <2>. HIDE DEF once
  <2>2. Len(AfterInsert(children, i, update)) = Len(children) + Len(update) - 1
    BY <1>1, <1>3, <1>4, <2>1
  <2>. QED
    BY <1>2, <1>3, <2>1, <2>2, <2>3
<1>5. CASE Len(update) = 2
  <2>. DEFINE v == update[2]
              b == BoundaryPosition(once, v.boundary_key)
  <2>1. AfterInsert(children, i, update) = InsertAt(once, b, v)
    BY <1>5 DEF AfterInsert
  <2>2. v \in E /\ v \in ToSet(update)
    BY <1>1, <1>5, ElementsOfSeq, ToSetIs
  <2>7. ToSet(update) = {update[1], v}
    BY <1>1, <1>5, ToSetIs
  <2>. HIDE DEF once, v
  <2>3. b \in 1..(Len(once) + 1)
    <3>1. E \subseteq InternalEntries(S)
      BY DEF EntriesBelow
    <3>. HIDE DEF E
    <3>2. once \in Seq(InternalEntries(S))
      BY <1>3, <3>1, SeqMonotonic
    <3>. QED
      BY <3>2, BoundaryPositionRange
  <2>. HIDE DEF b, E
  <2>8. once \in Seq(E) /\ v \in E
    BY <1>3, <2>2
  <2>. HIDE DEF r
  <2>4. Len(InsertAt(once, b, v)) = Len(once) + 1
    BY <2>3, <2>8, InsertAtSeq
  <2>5. ToSet(InsertAt(once, b, v)) = ToSet(once) \cup {v}
    BY <2>3, <2>8, ToSetInsertAt
  <2>6. Len(r) = Len(children) + Len(update) - 1
    BY <1>1, <1>3, <1>5, <2>1, <2>4 DEF r
  <2>. QED
    BY <1>2, <1>3, <2>1, <2>2, <2>5, <2>6, <2>7 DEF r
<1>. QED
  BY <1>4, <1>5
-----------------------------------------------------------------------------
(***************************************************************************)
(* What a tree stores, for nodes of any size and trees of any height.      *)
(***************************************************************************)
(***************************************************************************)
(* The nodes below a node, level by level.                                 *)
(***************************************************************************)
\* The recursion that defines them has a solution: its finite beginnings
\* exist, agree, and together make the function.
LEMMA BelowExists ==
  ASSUME NEW n
  PROVE  Descendants(n) = [l \in Nat |-> IF l = 0 THEN {n} ELSE ChildrenOf(Descendants(n)[l - 1])]
<1>. DEFINE Begins(g, m) ==
              g = [l \in 0..m |-> IF l = 0 THEN {n} ELSE ChildrenOf(g[l - 1])]
            Whole(g) ==
              g = [l \in Nat |-> IF l = 0 THEN {n} ELSE ChildrenOf(g[l - 1])]
<1>1. ASSUME NEW g, NEW m \in Nat, Begins(g, m), NEW l \in 0..m
      PROVE  g[l] = IF l = 0 THEN {n} ELSE ChildrenOf(g[l - 1])
  BY <1>1
<1>. HIDE DEF Begins
<1>2. \A m \in Nat : \E g : Begins(g, m)
  <2>. DEFINE T == {m \in Nat : ~\E g : Begins(g, m)}
  <2>. SUFFICES ASSUME T # {}
                PROVE  FALSE
    OBVIOUS
  <2>1. PICK m \in T : \A u \in T : m =< u
    <3>. HIDE DEF T
    <3>1. T \subseteq Nat
      BY DEF T
    <3>. QED
      BY <3>1, LeastNatural
  <2>2. m # 0
    <3>. DEFINE g == [l \in 0..0 |-> {n}]
    <3>1. Begins(g, 0)
      BY DEF Begins
    <3>. QED
      BY <3>1
  <2>3. m - 1 \in Nat /\ m - 1 \notin T
    BY <2>1, <2>2
  <2>4. PICK g : Begins(g, m - 1)
    BY <2>3
  <2>. DEFINE h == [l \in 0..m |-> IF l = m THEN ChildrenOf(g[m - 1]) ELSE g[l]]
  <2>5. Begins(h, m)
    <3>1. ASSUME NEW l \in 0..m
          PROVE  h[l] = IF l = 0 THEN {n} ELSE ChildrenOf(h[l - 1])
      <4>1. CASE l = m
        <5>1. h[m] = ChildrenOf(g[m - 1])
          BY <2>1
        <5>2. h[m - 1] = g[m - 1]
          BY <2>3
        <5>. HIDE DEF h
        <5>. QED
          BY <2>2, <4>1, <5>1, <5>2
      <4>2. CASE l # m
        <5>1. l \in 0..(m - 1)
          BY <2>1, <4>2
        <5>2. h[l] = g[l]
          BY <4>2
        <5>3. l # 0 => h[l - 1] = g[l - 1]
          BY <2>3, <5>1
        <5>4. g[l] = IF l = 0 THEN {n} ELSE ChildrenOf(g[l - 1])
          BY <1>1, <2>3, <2>4, <5>1
        <5>. HIDE DEF h
        <5>. QED
          BY <5>2, <5>3, <5>4
      <4>. QED
        BY <4>1, <4>2
    <3>2. h = [l \in 0..m |-> h[l]]
      OBVIOUS
    <3>. HIDE DEF h
    <3>. QED
      BY <3>1, <3>2 DEF Begins
  <2>. QED
    BY <2>1, <2>5
<1>3. ASSUME NEW m \in Nat, NEW k \in Nat, NEW g, NEW h, Begins(g, m), Begins(h, k)
      PROVE  \A l \in Nat : l <= m /\ l <= k => g[l] = h[l]
  <2>. DEFINE T == {l \in Nat : l <= m /\ l <= k /\ g[l] # h[l]}
  <2>. SUFFICES ASSUME T # {}
                PROVE  FALSE
    OBVIOUS
  <2>1. PICK l \in T : \A u \in T : l =< u
    <3>. HIDE DEF T
    <3>1. T \subseteq Nat
      BY DEF T
    <3>. QED
      BY <3>1, LeastNatural
  <2>2. l \in 0..m /\ l \in 0..k
    BY <2>1
  <2>3. /\ g[l] = IF l = 0 THEN {n} ELSE ChildrenOf(g[l - 1])
        /\ h[l] = IF l = 0 THEN {n} ELSE ChildrenOf(h[l - 1])
    BY <1>1, <1>3, <2>2
  <2>4. l # 0 => g[l - 1] = h[l - 1]
    BY <2>1
  <2>5. g[l] # h[l]
    BY <2>1
  <2>. HIDE DEF T
  <2>. QED
    BY <2>3, <2>4, <2>5
<1>. DEFINE part(l) == CHOOSE g : Begins(g, l)
            f == [l \in Nat |-> part(l)[l]]
<1>4. \A l \in Nat : Begins(part(l), l)
  BY <1>2
<1>. HIDE DEF part
<1>5. Whole(f)
  <2>1. ASSUME NEW l \in Nat
        PROVE  f[l] = IF l = 0 THEN {n} ELSE ChildrenOf(f[l - 1])
    <3>1. l \in 0..l /\ part(l)[l] = IF l = 0 THEN {n} ELSE ChildrenOf(part(l)[l - 1])
      BY <1>1, <1>4
    <3>2. CASE l = 0
      BY <3>1, <3>2
    <3>3. CASE l # 0
      <4>1. l - 1 \in Nat /\ l - 1 <= l /\ l - 1 <= l - 1
        BY <3>3
      <4>2. part(l)[l - 1] = part(l - 1)[l - 1]
        BY <1>3, <1>4, <4>1
      <4>3. f[l] = part(l)[l] /\ f[l - 1] = part(l - 1)[l - 1]
        BY <4>1
      <4>. HIDE DEF f
      <4>. QED
        BY <3>1, <3>3, <4>2, <4>3
    <3>. QED
      BY <3>2, <3>3
  <2>2. f = [l \in Nat |-> f[l]]
    OBVIOUS
  <2>. HIDE DEF f
  <2>. QED
    BY <2>1, <2>2
<1>. HIDE DEF f
<1>6. Descendants(n) = CHOOSE g : Whole(g)
  BY Zenon DEF Descendants
<1>7. Whole(CHOOSE g : Whole(g))
  BY <1>5, Zenon
<1>. QED
  BY <1>6, <1>7, Zenon


\* The levels below a node start with it and go on with the children.
LEMMA BelowStep ==
  ASSUME NEW n
  PROVE  /\ Descendants(n)[0] = {n}
         /\ \A l \in Nat : Descendants(n)[l + 1] = ChildrenOf(Descendants(n)[l])
<1>1. Descendants(n)[0] = {n}
  BY BelowExists
<1>2. ASSUME NEW l \in Nat
      PROVE  Descendants(n)[l + 1] = ChildrenOf(Descendants(n)[l])
  <2>1. l + 1 \in Nat /\ l + 1 # 0 /\ (l + 1) - 1 = l
    OBVIOUS
  <2>. QED
    BY <2>1, BelowExists
<1>. QED
  BY <1>1, <1>2

\* The children of several sets of nodes are those of all their nodes.
LEMMA ChildrenOfUnion ==
  ASSUME NEW F
  PROVE  ChildrenOf(UNION F) = UNION {ChildrenOf(M) : M \in F}
BY DEF ChildrenOf

\* The levels below a node are those below its children, taken together.
LEMMA BelowShift ==
  ASSUME NEW n
  PROVE  \A l \in Nat : Descendants(n)[l + 1] = UNION {Descendants(c)[l] : c \in ChildrenOf({n})}
<1>. DEFINE C == ChildrenOf({n})
            T == {l \in Nat : Descendants(n)[l + 1] # UNION {Descendants(c)[l] : c \in C}}
<1>. HIDE DEF C
<1>. SUFFICES ASSUME T # {}
              PROVE  FALSE
  BY DEF C
<1>1. PICK l \in T : \A u \in T : l =< u
  <2>. HIDE DEF T
  <2>1. T \subseteq Nat
    BY DEF T
  <2>. QED
    BY <2>1, LeastNatural
<1>2. l # 0
  <2>1. Descendants(n)[0 + 1] = C
    BY BelowStep DEF C
  <2>2. \A c : Descendants(c)[0] = {c}
    BY BelowStep
  <2>3. UNION {Descendants(c)[0] : c \in C} = C
    BY <2>2
  <2>. QED
    BY <1>1, <2>1, <2>3
<1>3. l - 1 \in Nat /\ l - 1 \notin T /\ (l - 1) + 1 = l /\ l \in Nat
  BY <1>1, <1>2
<1>4. Descendants(n)[l] = UNION {Descendants(c)[l - 1] : c \in C}
  BY <1>3
<1>5. Descendants(n)[l + 1] = ChildrenOf(Descendants(n)[l])
  BY <1>3, BelowStep
<1>6. ASSUME NEW c
      PROVE  Descendants(c)[l] = ChildrenOf(Descendants(c)[l - 1])
  <2>1. Descendants(c)[(l - 1) + 1] = ChildrenOf(Descendants(c)[l - 1])
    BY <1>3, BelowStep
  <2>. QED
    BY <1>3, <2>1
<1>7. ChildrenOf(UNION {Descendants(c)[l - 1] : c \in C})
        = UNION {ChildrenOf(M) : M \in {Descendants(c)[l - 1] : c \in C}}
  BY ChildrenOfUnion
<1>8. UNION {ChildrenOf(M) : M \in {Descendants(c)[l - 1] : c \in C}} = UNION {Descendants(c)[l] : c \in C}
  BY <1>6
<1>. QED
  BY <1>1, <1>4, <1>5, <1>7, <1>8
-----------------------------------------------------------------------------
(***************************************************************************)
(* What is stored by slots, in whatever order, and by a node.              *)
(***************************************************************************)
StoredAll(X) == UNION {StoredAt(slot) : slot \in X}

\* A union of slots stores what each part does.
LEMMA StoredUnion ==
  ASSUME NEW X, NEW Y
  PROVE  StoredAll(X \cup Y) = StoredAll(X) \cup StoredAll(Y)
BY DEF StoredAll

\* One slot stores what is at it, no slot nothing, and a slot as much as the slots do.
LEMMA StoredSingle ==
  ASSUME NEW s
  PROVE  /\ StoredAll({}) = {}
         /\ StoredAll({s}) = StoredAt(s)
         /\ \A X : s \in X => StoredAt(s) \subseteq StoredAll(X)
BY DEF StoredAll

\* The slots of a sequence are what counts.
LEMMA StoredBySet ==
  ASSUME NEW s
  PROVE  StoredBy(s) = StoredAll(ToSet(s))
BY DEF StoredBy, StoredAll

\* A leaf's slots are what they store.
LEMMA StoredByLeaf ==
  ASSUME NEW S, NEW X \in SUBSET LeafEntries(S)
  PROVE  StoredAll(X) = X
<1>1. \A e \in X : StoredAt(e) = {e}
  BY SlotKinds DEF StoredAt
<1>. QED
  BY <1>1 DEF StoredAll

\* The entry for a node stores what the node does.
LEMMA StoredAtEntry ==
  ASSUME NEW n
  PROVE  StoredAt(EntryFor(n)) = StoredIn(n)
<1>1. "key" \notin DOMAIN EntryFor(n) /\ EntryFor(n).child_hash = n
  BY DEF EntryFor
<1>. QED
  BY <1>1 DEF StoredAt

\* A node stores what its slots do.
LEMMA StoredInSlots ==
  ASSUME NEW S, Sound(S), NEW n \in BalancedOver(S)
  PROVE  StoredIn(n) = StoredBy(Slots(n))
<1>1. CASE n.kind = "Leaf"
  <2>1. n.entries \in Seq(LeafEntries(S)) /\ Level(n) = 0 /\ Slots(n) = n.entries
    BY <1>1, NodeKinds DEF Level, Slots
  <2>2. StoredIn(n) = ToSet(n.entries)
    <3>1. Descendants(n)[Level(n)] = {n}
      BY <2>1, BelowStep
    <3>. QED
      BY <3>1 DEF StoredIn
  <2>3. ToSet(n.entries) \in SUBSET LeafEntries(S)
    BY <2>1, ToSetIs
  <2>4. StoredAll(ToSet(n.entries)) = ToSet(n.entries)
    BY <2>3, StoredByLeaf
  <2>. QED
    BY <2>1, <2>2, <2>4, StoredBySet
<1>2. CASE n.kind = "Internal"
  <2>. DEFINE C == ChildrenOf({n})
              X == ToSet(n.children)
              l == n.level - 1
  <2>1. /\ n.children \in Seq(EntriesBelow(S, n.level)) \ {<<>>}
        /\ Level(n) = n.level /\ Slots(n) = n.children /\ n.level \in Nat \ {0}
    BY <1>2, NodeKinds DEF Level, Slots
  <2>2. l \in Nat /\ l + 1 = Level(n)
    BY <2>1
  <2>3. X \subseteq EntriesBelow(S, n.level)
    BY <2>1, ToSetIs
  <2>4. \A e \in X : Level(e.child_hash) = l /\ "key" \notin DOMAIN e
    <3>. SUFFICES ASSUME NEW e \in X
                  PROVE  Level(e.child_hash) = l /\ "key" \notin DOMAIN e
      OBVIOUS
    <3>1. e \in EntriesBelow(S, n.level)
      BY <2>3
    <3>2. e \in InternalEntries(S) /\ Level(e.child_hash) + 1 = n.level
      BY <3>1 DEF EntriesBelow
    <3>3. Level(e.child_hash) \in Nat
      BY <3>2, ChildOver, NodeKinds
    <3>4. "key" \notin DOMAIN e
      BY <3>2, SlotKinds
    <3>. QED
      BY <3>2, <3>3, <3>4
  <2>5. C = {e.child_hash : e \in X}
    BY DEF ChildrenOf
  <2>. HIDE DEF l, C, X
  <2>6. Descendants(n)[Level(n)] = UNION {Descendants(c)[l] : c \in C}
    BY <2>2, BelowShift DEF C
  <2>7. StoredIn(n) = UNION {UNION {ToSet(leaf.entries) : leaf \in Descendants(c)[l]} : c \in C}
    BY <2>6 DEF StoredIn
  <2>8. \A e \in X : StoredAt(e) = UNION {ToSet(leaf.entries) : leaf \in Descendants(e.child_hash)[l]}
    BY <2>4 DEF StoredAt, StoredIn
  <2>9. StoredIn(n) = StoredAll(X)
    BY <2>5, <2>7, <2>8 DEF StoredAll
  <2>. QED
    BY <2>1, <2>9, StoredBySet DEF X
<1>. QED
  BY <1>1, <1>2, NodeKinds DEF IsNode
-----------------------------------------------------------------------------
(***************************************************************************)
(* The entries below a slot have keys of its range, no two the same key.   *)
(***************************************************************************)
OneEach(entries) == \A x, y \in entries : x.key = y.key => x = y

Keeps(S, slot) ==
  /\ StoredAt(slot) \subseteq LeafEntries(S)
  /\ \A x \in StoredAt(slot) : LowestKey(slot) <= x.key /\ x.key <= HighestKey(slot)
  /\ OneEach(StoredAt(slot))

\* An entry of a leaf keeps itself.
LEMMA LeafKeeps ==
  ASSUME NEW S, NEW e \in LeafEntries(S)
  PROVE  Keeps(S, e)
<1>1. StoredAt(e) = {e}
  BY SlotKinds DEF StoredAt
<1>2. LowestKey(e) = e.key /\ HighestKey(e) = e.key /\ e.key \in Int
  BY LeafSlot, KeysAssumption
<1>. QED
  BY <1>1, <1>2 DEF Keeps, OneEach

\* What is stored is stored at one of the slots.
LEMMA StoredWhere ==
  ASSUME NEW E, NEW s \in Seq(E), NEW x
  PROVE  x \in StoredBy(s) <=> \E i \in DOMAIN s : x \in StoredAt(s[i])
<1>1. \A e : e \in ToSet(s) <=> \E i \in DOMAIN s : s[i] = e
  BY ElementsOfSeq, ToSetIs
<1>. QED
  BY <1>1 DEF StoredBy

\* Slots that are in order keep what they store as each of them does.
LEMMA SequenceKeeps ==
  ASSUME NEW S, NEW E, Ranged(E), NEW s \in Seq(E) \ {<<>>}, InOrder(s),
         \A e \in E : Keeps(S, e)
  PROVE  /\ StoredBy(s) \subseteq LeafEntries(S)
         /\ \A x \in StoredBy(s) : LowestKey(s[1]) <= x.key /\ x.key <= HighestKey(Last(s))
         /\ OneEach(StoredBy(s))
<1>1. ASSUME NEW x \in StoredBy(s)
      PROVE  \E i \in DOMAIN s : /\ x \in StoredAt(s[i]) /\ x \in LeafEntries(S) /\ x.key \in Int
                                 /\ LowestKey(s[i]) <= x.key /\ x.key <= HighestKey(s[i])
  <2>1. PICK i \in DOMAIN s : x \in StoredAt(s[i])
    BY StoredWhere
  <2>2. s[i] \in E
    BY ElementsOfSeq
  <2>3. Keeps(S, s[i])
    BY <2>2
  <2>4. x \in LeafEntries(S) /\ LowestKey(s[i]) <= x.key /\ x.key <= HighestKey(s[i])
    BY <2>1, <2>3 DEF Keeps
  <2>5. x.key \in Int
    BY <2>4, LeafSlot, KeysAssumption
  <2>. QED
    BY <2>1, <2>4, <2>5
<1>2. ASSUME NEW x \in StoredBy(s)
      PROVE  LowestKey(s[1]) <= x.key /\ x.key <= HighestKey(Last(s))
  <2>1. PICK i \in DOMAIN s : /\ x.key \in Int
                              /\ LowestKey(s[i]) <= x.key /\ x.key <= HighestKey(s[i])
    BY <1>1
  <2>2. /\ LowestKey(s[i]) \in Int /\ HighestKey(s[i]) \in Int
        /\ LowestKey(s[1]) <= LowestKey(s[i]) /\ HighestKey(s[i]) <= HighestKey(Last(s))
    BY OrderEnds
  <2>3. LowestKey(s[1]) \in Int /\ HighestKey(Last(s)) \in Int
    <3>1. 1 \in DOMAIN s /\ Len(s) \in DOMAIN s /\ Last(s) = s[Len(s)]
      BY OrderEnds DEF Last
    <3>. QED
      BY <3>1, OrderEnds
  <2>. QED
    BY <2>1, <2>2, <2>3
<1>3. ASSUME NEW x \in StoredBy(s), NEW y \in StoredBy(s), x.key = y.key
      PROVE  x = y
  <2>1. PICK i \in DOMAIN s : /\ x \in StoredAt(s[i]) /\ x.key \in Int
                              /\ LowestKey(s[i]) <= x.key /\ x.key <= HighestKey(s[i])
    BY <1>1
  <2>2. PICK j \in DOMAIN s : /\ y \in StoredAt(s[j]) /\ y.key \in Int
                              /\ LowestKey(s[j]) <= y.key /\ y.key <= HighestKey(s[j])
    BY <1>1
  <2>3. /\ LowestKey(s[i]) \in Int /\ HighestKey(s[i]) \in Int
        /\ LowestKey(s[j]) \in Int /\ HighestKey(s[j]) \in Int
    BY OrderEnds
  <2>4. /\ i < j => HighestKey(s[i]) < LowestKey(s[j])
        /\ j < i => HighestKey(s[j]) < LowestKey(s[i])
    BY DEF InOrder
  <2>5. i \in Int /\ j \in Int
    BY ElementsOfSeq
  <2>6. i = j
    BY <1>3, <2>1, <2>2, <2>3, <2>4, <2>5
  <2>7. s[i] \in E
    BY ElementsOfSeq
  <2>8. OneEach(StoredAt(s[i]))
    BY <2>7 DEF Keeps
  <2>. QED
    BY <1>3, <2>1, <2>2, <2>6, <2>8 DEF OneEach
<1>4. StoredBy(s) \subseteq LeafEntries(S)
  BY <1>1
<1>. QED
  BY <1>2, <1>3, <1>4 DEF OneEach

\* So does the entry for a node of any height.
LEMMA EntryKeeps ==
  ASSUME NEW S, Sound(S), Ordered(S)
  PROVE  \A l : \A e \in EntriesBelow(S, l) : Keeps(S, e)
<1>. DEFINE Entries == {e \in InternalEntries(S) : e = EntryFor(e.child_hash)}
            T == {v \in Nat : \E e \in Entries : Level(e.child_hash) = v /\ ~Keeps(S, e)}
<1>1. ASSUME NEW e \in Entries
      PROVE  /\ e.child_hash \in BalancedOver(S) /\ Level(e.child_hash) \in Nat
             /\ InOrder(Slots(e.child_hash)) /\ e = EntryFor(e.child_hash)
  <2>1. e.child_hash \in NodesIn(S)
    BY DEF InternalEntries
  <2>. QED
    BY <2>1, ChildOver, NodeKinds DEF Ordered
<1>2. T = {}
  <2>. SUFFICES ASSUME T # {}
                PROVE  FALSE
    OBVIOUS
  <2>1. PICK v \in T : \A u \in T : v =< u
    <3>. HIDE DEF T
    <3>1. T \subseteq Nat
      BY DEF T
    <3>. QED
      BY <3>1, LeastNatural
  <2>2. PICK e \in Entries : Level(e.child_hash) = v /\ ~Keeps(S, e)
    BY <2>1
  <2>. DEFINE n == e.child_hash
              s == Slots(n)
              E == SlotsOver(n, S)
  <2>3. n \in BalancedOver(S) /\ InOrder(s) /\ e = EntryFor(n) /\ s \in Seq(E) \ {<<>>} /\ Ranged(E)
    BY <1>1, NodeKinds, SlotsRanged
  <2>4. ASSUME NEW d \in E
        PROVE  Keeps(S, d)
    <3>1. CASE n.kind = "Leaf"
      <4>1. d \in LeafEntries(S)
        BY <3>1 DEF SlotsOver
      <4>. QED
        BY <4>1, LeafKeeps
    <3>2. CASE n.kind # "Leaf"
      <4>1. d \in EntriesBelow(S, n.level) /\ Level(n) = n.level
        BY <3>2 DEF SlotsOver, Level
      <4>2. d \in Entries /\ Level(d.child_hash) + 1 = n.level
        BY <4>1 DEF EntriesBelow
      <4>3. Level(d.child_hash) \in Nat
        BY <1>1, <4>2
      <4>4. Level(d.child_hash) < v /\ v \in Nat
        BY <2>1, <2>2, <4>1, <4>2, <4>3
      <4>5. Level(d.child_hash) \notin T
        BY <2>1, <4>3, <4>4
      <4>. QED
        BY <4>2, <4>3, <4>5
    <3>. QED
      BY <3>1, <3>2
  <2>5. StoredAt(e) = StoredBy(s)
    <3>1. StoredAt(e) = StoredIn(n)
      BY <2>3, StoredAtEntry
    <3>2. StoredIn(n) = StoredBy(s)
      BY <2>3, StoredInSlots
    <3>. QED
      BY <3>1, <3>2
  <2>6. LowestKey(e) = LowestKey(s[1]) /\ HighestKey(e) = HighestKey(Last(s))
    BY <2>3, EntryRange
  <2>. HIDE DEF n, s, E
  <2>7. /\ StoredBy(s) \subseteq LeafEntries(S)
        /\ \A x \in StoredBy(s) : LowestKey(s[1]) <= x.key /\ x.key <= HighestKey(Last(s))
        /\ OneEach(StoredBy(s))
    BY <2>3, <2>4, SequenceKeeps
  <2>8. Keeps(S, e)
    BY <2>5, <2>6, <2>7 DEF Keeps
  <2>. QED
    BY <2>2, <2>8
<1>3. ASSUME NEW l, NEW e \in EntriesBelow(S, l)
      PROVE  Keeps(S, e)
  <2>1. e \in Entries
    BY DEF EntriesBelow
  <2>2. Level(e.child_hash) \in Nat /\ Level(e.child_hash) \notin T
    BY <1>1, <1>2, <2>1
  <2>. QED
    BY <2>1, <2>2
<1>. QED
  BY <1>3

\* What a node stores are entries, no two of one key.
LEMMA NodeKeeps ==
  ASSUME NEW S, Sound(S), Ordered(S), NEW n \in NodesIn(S)
  PROVE  StoredIn(n) \subseteq LeafEntries(S) /\ OneEach(StoredIn(n))
<1>. DEFINE e == EntryFor(n)
<1>1. n \in S /\ IsNode(n)
  BY DEF NodesIn
<1>2. n \in BalancedOver(S)
  BY <1>1 DEF Sound, IsNode, DataChunks, Data
<1>3. e \in EntriesBelow(S, Level(n) + 1)
  BY <1>1, <1>2, EntryForOver
<1>4. Keeps(S, e)
  BY <1>3, EntryKeeps
<1>. QED
  BY <1>4, StoredAtEntry DEF Keeps
-----------------------------------------------------------------------------
(***************************************************************************)
(* Finding a key, and changing what is stored for it.                      *)
(***************************************************************************)
Others(entries, k) == {e \in entries : e.key # k}

AllKeep(S, E) == \A e \in E : Keeps(S, e)

\* What is stored for a key is at the slot the key belongs to.
LEMMA MeantStores ==
  ASSUME NEW S, NEW E, Ranged(E), NEW s \in Seq(E), InOrder(s),
         AllKeep(S, E), NEW k \in Int, NEW i \in DOMAIN s, Meant(s, i, k),
         NEW j \in DOMAIN s, NEW x \in StoredAt(s[j]), x.key = k
  PROVE  j = i
<1>1. s[j] \in E /\ s[i] \in E /\ i \in 1..Len(s) /\ j \in 1..Len(s) /\ Len(s) \in Nat
  BY ElementsOfSeq
<1>2. LowestKey(s[j]) <= k /\ k <= HighestKey(s[j])
  BY <1>1 DEF Keeps, AllKeep
<1>3. LowestKey(s[j]) \in Int /\ HighestKey(s[j]) \in Int /\ HighestKey(s[i]) \in Int
  BY <1>1 DEF Ranged
<1>4. ~(j < i)
  BY <1>1, <1>2, <1>3 DEF Meant
<1>5. ~(i < j)
  <2>. SUFFICES ASSUME i < j
                PROVE  FALSE
    OBVIOUS
  <2>1. k <= HighestKey(s[i])
    BY <1>1 DEF Meant
  <2>2. HighestKey(s[i]) < LowestKey(s[j])
    BY DEF InOrder
  <2>. QED
    BY <1>2, <1>3, <2>1, <2>2
<1>. QED
  BY <1>1, <1>4, <1>5

\* So searching that slot finds what there is.
LEMMA MeantHas ==
  ASSUME NEW S, NEW E, Ranged(E), NEW s \in Seq(E), InOrder(s),
         AllKeep(S, E), NEW k \in Int, NEW i \in DOMAIN s, Meant(s, i, k)
  PROVE  {x \in StoredBy(s) : x.key = k} = {x \in StoredAt(s[i]) : x.key = k}
<1>1. ASSUME NEW x \in StoredBy(s), x.key = k
      PROVE  x \in StoredAt(s[i])
  <2>1. PICK j \in DOMAIN s : x \in StoredAt(s[j])
    BY StoredWhere
  <2>2. j = i
    BY <1>1, <2>1, MeantStores
  <2>. QED
    BY <2>1, <2>2
<1>2. StoredAt(s[i]) \subseteq StoredBy(s)
  BY StoredWhere
<1>. QED
  BY <1>1, <1>2

\* Putting new slots in the place of that slot does to what all of them store
\* what it does to what this one stores.
LEMMA PlaceStores ==
  ASSUME NEW S, NEW E, Ranged(E), NEW s \in Seq(E), InOrder(s),
         AllKeep(S, E), NEW k \in Int, NEW i \in DOMAIN s, Meant(s, i, k),
         NEW X, NEW new, StoredAll(X) = Others(StoredAt(s[i]), k) \cup new
  PROVE  StoredAll((ToSet(s) \ {s[i]}) \cup X) = Others(StoredBy(s), k) \cup new
<1>. DEFINE Y == ToSet(s) \ {s[i]}
<1>1. s[i] \in ToSet(s)
  BY ElementsOfSeq, ToSetIs
<1>2. StoredBy(s) = StoredAll(Y) \cup StoredAt(s[i])
  <2>1. ToSet(s) = Y \cup {s[i]}
    BY <1>1
  <2>2. StoredAll(Y \cup {s[i]}) = StoredAll(Y) \cup StoredAll({s[i]})
    BY StoredUnion
  <2>3. StoredAll({s[i]}) = StoredAt(s[i])
    BY StoredSingle
  <2>4. StoredBy(s) = StoredAll(ToSet(s))
    BY StoredBySet
  <2>. HIDE DEF Y
  <2>. QED
    BY <2>1, <2>2, <2>3, <2>4
<1>3. \A x \in StoredAll(Y) : x.key # k
  <2>. SUFFICES ASSUME NEW x \in StoredAll(Y), x.key = k
                PROVE  FALSE
    OBVIOUS
  <2>1. PICK e \in Y : x \in StoredAt(e)
    BY DEF StoredAll
  <2>2. PICK j \in DOMAIN s : s[j] = e
    BY ElementsOfSeq, ToSetIs
  <2>3. x \in StoredAt(s[j])
    BY <2>1, <2>2
  <2>. HIDE DEF Y
  <2>4. j = i
    BY <2>2, <2>3, MeantStores
  <2>. QED
    BY <2>2, <2>4 DEF Y
<1>4. StoredAll(Y \cup X) = StoredAll(Y) \cup StoredAll(X)
  BY StoredUnion
<1>. HIDE DEF Y
<1>. QED
  BY <1>2, <1>3, <1>4 DEF Others, Y

\* A leaf finds the key where it is.
LEMMA LeafHas ==
  ASSUME NEW S, Sound(S), NEW entries \in Seq(LeafEntries(S)), InOrder(entries), NEW k \in Keys,
         HasKey(entries, k)
  PROVE  LET p == KeyPosition(entries, k)
         IN  p \in DOMAIN entries /\ entries[p].key = k
<1>. DEFINE p == KeyPosition(entries, k)
<1>1. PICK i \in DOMAIN entries : entries[i].key = k
  BY DEF HasKey
<1>2. p \in 1..Len(entries) /\ DOMAIN entries = 1..Len(entries) /\ Len(entries) \in Nat
  BY KeyPositionRange, KeysAssumption, ElementsOfSeq
<1>3. \A j \in DOMAIN entries : entries[j].key < k <=> j < p
  BY KeyPositionIs, KeysAssumption
<1>4. \A j \in DOMAIN entries : entries[j] \in LeafEntries(S)
  BY ElementsOfSeq
<1>5. /\ LowestKey(entries[i]) = k /\ HighestKey(entries[i]) = k
      /\ HighestKey(entries[p]) = entries[p].key /\ entries[p].key \in Int /\ k \in Int
  BY <1>1, <1>2, <1>4, LeafSlot, KeysAssumption
<1>. HIDE DEF p
<1>6. i >= p
  BY <1>1, <1>2, <1>3, <1>5
<1>7. ~(entries[p].key < k)
  BY <1>2, <1>3
<1>8. p < i => entries[p].key < k
  BY <1>2, <1>5 DEF InOrder
<1>9. p = i
  BY <1>2, <1>6, <1>7, <1>8
<1>. QED
  BY <1>1, <1>9 DEF p

\* A leaf has one entry for a key.
LEMMA LeafOneEach ==
  ASSUME NEW S, Sound(S), NEW entries \in Seq(LeafEntries(S)), InOrder(entries)
  PROVE  OneEach(ToSet(entries))
<1>1. CASE entries = <<>>
  <2>1. ToSet(entries) = {}
    BY <1>1 DEF ToSet
  <2>. QED
    BY <2>1 DEF OneEach
<1>2. CASE entries # <<>>
  <2>1. \A e \in LeafEntries(S) : Keeps(S, e)
    BY LeafKeeps
  <2>2. Ranged(LeafEntries(S)) /\ entries \in Seq(LeafEntries(S)) \ {<<>>}
    BY <1>2, SlotsRanged
  <2>3. OneEach(StoredBy(entries))
    BY <2>1, <2>2, SequenceKeeps
  <2>4. ToSet(entries) \in SUBSET LeafEntries(S)
    BY ToSetIs
  <2>5. StoredBy(entries) = ToSet(entries)
    BY <2>4, StoredByLeaf, StoredBySet
  <2>. QED
    BY <2>3, <2>5
<1>. QED
  BY <1>1, <1>2

\* Setting a key in a leaf replaces what there was for it by the new entry,
\* and changes nothing if that was the entry.
LEMMA UpsertStores ==
  ASSUME NEW S, Sound(S), NEW entries \in Seq(LeafEntries(S)), InOrder(entries),
         NEW k \in Keys, NEW repr, [key |-> k, value |-> repr] \in LeafEntries(S)
  PROVE  LET e == [key |-> k, value |-> repr]
         IN  /\ ToSet(Upsert(entries, k, repr)) = Others(ToSet(entries), k) \cup {e}
             /\ e \in ToSet(entries) => Upsert(entries, k, repr) = entries
<1>. DEFINE e == [key |-> k, value |-> repr]
            E == LeafEntries(S)
            p == KeyPosition(entries, k)
<1>1. CASE HasKey(entries, k)
  <2>1. p \in DOMAIN entries /\ entries[p].key = k
    BY <1>1, LeafHas
  <2>2. entries[p] \in E /\ entries[p] \in ToSet(entries)
    BY <2>1, ElementsOfSeq, ToSetIs
  <2>3. [entries[p] EXCEPT !.value = repr] = e
    <3>1. entries[p] = [key |-> entries[p].key, value |-> entries[p].value]
      BY <2>2 DEF LeafEntries
    <3>. DEFINE old == entries[p].value
    <3>2. entries[p] = [key |-> k, value |-> old]
      BY <2>1, <3>1
    <3>. HIDE DEF old, p
    <3>. QED
      BY <3>2
  <2>4. Upsert(entries, k, repr) = [entries EXCEPT ![p] = e]
    BY <1>1, <2>3 DEF Upsert
  <2>5. Distinct(entries)
    BY SlotsRanged, OrderDistinct
  <2>. HIDE DEF e, E, p
  <2>6. ToSet([entries EXCEPT ![p] = e]) = (ToSet(entries) \ {entries[p]}) \cup {e}
    <3>1. e \in E /\ entries \in Seq(E)
      BY DEF e, E
    <3>. QED
      BY <2>1, <2>5, <3>1, ToSetReplace
  <2>7. OneEach(ToSet(entries))
    BY LeafOneEach
  <2>8. Others(ToSet(entries), k) = ToSet(entries) \ {entries[p]}
    BY <2>1, <2>2, <2>7 DEF OneEach, Others
  <2>9. ASSUME e \in ToSet(entries)
        PROVE  [entries EXCEPT ![p] = e] = entries
    <3>1. e = entries[p]
      BY <2>1, <2>2, <2>7, <2>9 DEF OneEach, e
    <3>. QED
      BY <2>1, <3>1
  <2>. QED
    BY <2>4, <2>6, <2>8, <2>9 DEF e
<1>2. CASE ~HasKey(entries, k)
  <2>1. Upsert(entries, k, repr) = InsertAt(entries, p, e)
    BY <1>2 DEF Upsert
  <2>2. p \in 1..(Len(entries) + 1) /\ e \in E
    BY KeyPositionRange, KeysAssumption
  <2>. HIDE DEF p
  <2>3. ToSet(InsertAt(entries, p, e)) = ToSet(entries) \cup {e}
    BY <2>2, ToSetInsertAt
  <2>4. \A x \in ToSet(entries) : x.key # k
    BY <1>2 DEF HasKey, ToSet
  <2>. QED
    BY <2>1, <2>3, <2>4 DEF Others
<1>. QED
  BY <1>1, <1>2

\* Removing a key from a leaf leaves what there is for the others.
LEMMA RemoveKeyStores ==
  ASSUME NEW S, Sound(S), NEW entries \in Seq(LeafEntries(S)), InOrder(entries),
         NEW k \in Keys, HasKey(entries, k)
  PROVE  ToSet(RemoveKey(entries, k)) = Others(ToSet(entries), k)
<1>. DEFINE p == KeyPosition(entries, k)
<1>1. p \in DOMAIN entries /\ entries[p].key = k
  BY LeafHas
<1>2. p \in 1..Len(entries) /\ entries[p] \in ToSet(entries)
  BY <1>1, ElementsOfSeq, ToSetIs
<1>3. Distinct(entries) /\ OneEach(ToSet(entries))
  BY SlotsRanged, OrderDistinct, LeafOneEach
<1>. HIDE DEF p
<1>4. ToSet(RemoveAt(entries, p)) = ToSet(entries) \ {entries[p]}
  BY <1>2, <1>3, ToSetRemoveAt
<1>5. Others(ToSet(entries), k) = ToSet(entries) \ {entries[p]}
  BY <1>1, <1>2, <1>3 DEF OneEach, Others
<1>. QED
  BY <1>4, <1>5 DEF RemoveKey, p
-----------------------------------------------------------------------------
(***************************************************************************)
(* What a node or the children of a node store when they are cut in two,   *)
(* shared out anew or put together: the same.                              *)
(***************************************************************************)
\* One entry for a node stores what its slots do, two what those of both do.
LEMMA StoredByEntries ==
  ASSUME NEW S, Sound(S), NEW x \in BalancedOver(S), NEW y \in BalancedOver(S)
  PROVE  /\ StoredAll({EntryFor(x)}) = StoredAll(ToSet(Slots(x)))
         /\ StoredAll({EntryFor(x), EntryFor(y)}) = StoredAll(ToSet(Slots(x)) \cup ToSet(Slots(y)))
<1>1. ASSUME NEW z \in BalancedOver(S)
      PROVE  StoredAll({EntryFor(z)}) = StoredAll(ToSet(Slots(z)))
  <2>1. StoredAll({EntryFor(z)}) = StoredIn(z)
    BY StoredSingle, StoredAtEntry
  <2>2. StoredIn(z) = StoredAll(ToSet(Slots(z)))
    BY StoredInSlots, StoredBySet
  <2>. QED
    BY <2>1, <2>2
<1>2. StoredAll({EntryFor(x), EntryFor(y)})
        = StoredAll(ToSet(Slots(x)) \cup ToSet(Slots(y)))
  <2>1. {EntryFor(x), EntryFor(y)} = {EntryFor(x)} \cup {EntryFor(y)}
    OBVIOUS
  <2>2. StoredAll({EntryFor(x)} \cup {EntryFor(y)})
          = StoredAll({EntryFor(x)}) \cup StoredAll({EntryFor(y)})
    BY StoredUnion
  <2>3. StoredAll(ToSet(Slots(x)) \cup ToSet(Slots(y)))
          = StoredAll(ToSet(Slots(x))) \cup StoredAll(ToSet(Slots(y)))
    BY StoredUnion
  <2>4. /\ StoredAll({EntryFor(x)}) = StoredAll(ToSet(Slots(x)))
        /\ StoredAll({EntryFor(y)}) = StoredAll(ToSet(Slots(y)))
    BY <1>1
  <2>. QED
    BY <2>1, <2>2, <2>3, <2>4
<1>. QED
  BY <1>1, <1>2

\* The halves of a node that is split store what it would.
LEMMA SplitStores ==
  ASSUME NEW S, Sound(S), NEW n \in BalancedOver(S), NEW c \in Configs
  PROVE  LET nodes == Split(n, c)
         IN  StoredBy([i \in DOMAIN nodes |-> EntryFor(nodes[i])]) = StoredBy(Slots(n))
<1>. DEFINE slots == Slots(n)
            E     == SlotsOver(n, S)
            mid   == Len(slots) \div 2
            a     == SubSeq(slots, 1, mid)
            b     == SubSeq(slots, mid + 1, Len(slots))
            Entries(nodes) == [i \in DOMAIN nodes |-> EntryFor(nodes[i])]
<1>1. slots \in Seq(E) \ {<<>>} /\ Len(slots) \in Nat
  BY NodeKinds, ElementsOfSeq
<1>2. CASE Len(slots) <= c.target_fanout
  <2>1. c.target_fanout \in Nat
    BY ConfigsAssumption
  <2>2. Split(n, c) = <<n>>
    BY <1>1, <1>2, <2>1 DEF Split
  <2>3. ToSet(Entries(<<n>>)) = {EntryFor(n)}
    BY DEF ToSet
  <2>4. StoredAll({EntryFor(n)}) = StoredAll(ToSet(slots))
    BY StoredByEntries
  <2>. QED
    BY <2>2, <2>3, <2>4, StoredBySet
<1>3. CASE ~(Len(slots) <= c.target_fanout)
  <2>1. c.target_fanout \in Nat /\ c.target_fanout >= 2
    BY ConfigsAssumption
  <2>2. /\ Len(slots) > c.target_fanout /\ Len(slots) > 2
        /\ mid \in 1..Len(slots) /\ mid + 1 \in 1..Len(slots) /\ mid \in 0..Len(slots)
    BY <1>1, <1>3, <2>1
  <2>3. Split(n, c) = <<WithSlots(n, a), WithSlots(n, b)>>
    BY <2>2 DEF Split
  <2>. HIDE DEF slots, mid, E
  <2>4. a \in Seq(E) \ {<<>>} /\ b \in Seq(E) \ {<<>>}
    <3>1. a \in Seq(E) /\ Len(a) = mid
      BY <1>1, <2>2, SubSeqSeq
    <3>2. b \in Seq(E) /\ Len(b) = Len(slots) - (mid + 1) + 1
      BY <1>1, <2>2, SubSeqSeq
    <3>3. Len(a) > 0 /\ Len(b) > 0
      BY <1>1, <2>2, <3>1, <3>2
    <3>. HIDE DEF a, b
    <3>. QED
      BY <3>1, <3>2, <3>3, ElementsOfSeq
  <2>5. ToSet(a) \cup ToSet(b) = ToSet(slots)
    BY <1>1, <2>2, ToSetHalves
  <2>. HIDE DEF a, b
  <2>6. WithSlots(n, a) \in BalancedOver(S) /\ Slots(WithSlots(n, a)) = a
    BY <2>4, WithSlotsOver DEF E
  <2>7. WithSlots(n, b) \in BalancedOver(S) /\ Slots(WithSlots(n, b)) = b
    BY <2>4, WithSlotsOver DEF E
  <2>8. ToSet(Entries(<<WithSlots(n, a), WithSlots(n, b)>>))
          = {EntryFor(WithSlots(n, a)), EntryFor(WithSlots(n, b))}
    BY DEF ToSet
  <2>9. StoredAll({EntryFor(WithSlots(n, a)), EntryFor(WithSlots(n, b))})
          = StoredAll(ToSet(a) \cup ToSet(b))
    BY <2>6, <2>7, StoredByEntries
  <2>. QED
    BY <2>3, <2>5, <2>8, <2>9, StoredBySet DEF slots
<1>. QED
  BY <1>2, <1>3

\* Repairing a child that is too small moves entries, and stores what there was.
LEMMA RepairStores ==
  ASSUME NEW S, Sound(S), NEW l, NEW children \in Seq(EntriesBelow(S, l)), InOrder(children),
         HasSibling(children), NEW c \in Configs, NEW i \in DOMAIN children
  PROVE  StoredBy(HandleUnderflow(children, i, c)) = StoredBy(children)
<1>. DEFINE E == EntriesBelow(S, l)
            r == HandleUnderflow(children, i, c)
<1>1. Distinct(children)
  BY SlotsRanged, OrderDistinct
<1>2. PICK h \in DOMAIN children : h + 1 \in DOMAIN children /\ Repaired(S, l, children, i, h, r, c)
  BY HandleUnderflowIs
<1>. DEFINE j == h + 1
            others == ToSet(children) \ {children[h], children[j]}
            m == children[h].child_hash
            n == children[j].child_hash
<1>3. h \in 1..Len(children) /\ j \in 1..Len(children) /\ h # j
  BY <1>2, ElementsOfSeq
<1>4. children[h] \in E /\ children[j] \in E
  BY <1>3, ElementsOfSeq
<1>5. ToSet(children) = others \cup {children[h], children[j]}
  BY <1>3, ToSetIs
<1>6. /\ m \in BalancedOver(S) /\ n \in BalancedOver(S)
      /\ children[h] = EntryFor(m) /\ children[j] = EntryFor(n)
  BY <1>4, ChildOver DEF EntriesBelow
<1>. HIDE DEF others, j
<1>7. StoredBy(children) = StoredAll(others) \cup StoredAll(SlotsOfTwo(children, h))
  <2>. HIDE DEF m, n
  <2>1. StoredAll({EntryFor(m), EntryFor(n)}) = StoredAll(ToSet(Slots(m)) \cup ToSet(Slots(n)))
    BY <1>6, StoredByEntries
  <2>2. SlotsOfTwo(children, h) = ToSet(Slots(m)) \cup ToSet(Slots(n))
    BY DEF SlotsOfTwo, m, n, j
  <2>3. StoredAll(others \cup {children[h], children[j]})
          = StoredAll(others) \cup StoredAll({children[h], children[j]})
    BY StoredUnion
  <2>4. StoredBy(children) = StoredAll(ToSet(children))
    BY StoredBySet
  <2>. QED
    BY <1>5, <1>6, <2>1, <2>2, <2>3, <2>4
<1>8. ASSUME NEW X, ToSet(r) = others \cup X, StoredAll(X) = StoredAll(SlotsOfTwo(children, h))
      PROVE  StoredBy(r) = StoredBy(children)
  <2>1. StoredAll(others \cup X) = StoredAll(others) \cup StoredAll(X)
    BY StoredUnion
  <2>2. StoredBy(r) = StoredAll(ToSet(r))
    BY StoredBySet
  <2>. QED
    BY <1>7, <1>8, <2>1, <2>2
<1>9. CASE \E x, y : /\ Lent(S, l, children, i, h, x, y, c)
                     /\ r = WithNeighbours(children, h, h + 1, x, y)
  <2>1. PICK x, y : /\ Lent(S, l, children, i, h, x, y, c)
                    /\ r = WithNeighbours(children, h, h + 1, x, y)
    BY <1>9
  <2>2. r = WithNeighbours(children, h, j, x, y)
    BY <2>1 DEF j
  <2>3. ToSet(r) = others \cup {EntryFor(x), EntryFor(y)}
    BY <1>1, <1>2, <1>3, <2>2, ToSetWithNeighbours DEF others, j
  <2>4. /\ x \in BalancedOver(S) /\ y \in BalancedOver(S)
        /\ ToSet(Slots(x)) \cup ToSet(Slots(y)) = SlotsOfTwo(children, h)
    BY <2>1 DEF Lent
  <2>5. StoredAll({EntryFor(x), EntryFor(y)}) = StoredAll(SlotsOfTwo(children, h))
    <3>1. StoredAll({EntryFor(x), EntryFor(y)}) = StoredAll(ToSet(Slots(x)) \cup ToSet(Slots(y)))
      BY <2>4, StoredByEntries
    <3>. QED
      BY <2>4, <3>1
  <2>. HIDE DEF r
  <2>. QED
    BY <1>8, <2>3, <2>5 DEF r
<1>10. CASE \E w : Merged(S, l, children, i, h, w, c) /\ r = OneForTwo(children, h, EntryFor(w))
  <2>1. PICK w : Merged(S, l, children, i, h, w, c) /\ r = OneForTwo(children, h, EntryFor(w))
    BY <1>10
  <2>2. ToSet(r) = others \cup {EntryFor(w)}
    BY <1>1, <1>2, <1>3, <2>1, ToSetOneForTwo DEF others, j
  <2>3. w \in BalancedOver(S) /\ ToSet(Slots(w)) = SlotsOfTwo(children, h)
    BY <2>1 DEF Merged
  <2>4. StoredAll({EntryFor(w)}) = StoredAll(SlotsOfTwo(children, h))
    BY <2>3, StoredByEntries
  <2>. HIDE DEF r
  <2>. QED
    BY <1>8, <2>2, <2>4 DEF r
<1>. QED
  BY <1>2, <1>9, <1>10 DEF Repaired
-----------------------------------------------------------------------------
(***************************************************************************)
(* The counter of an entry is the number of leaf entries below it.         *)
(***************************************************************************)
Counts(slot) ==
  IsFiniteSet(StoredAt(slot)) /\ Cardinality(StoredAt(slot)) = slot.num_items_subtree

\* No leaf entry is below two slots.
LEMMA StoredOnce ==
  ASSUME NEW S, NEW E, Ranged(E), NEW s \in Seq(E), InOrder(s), AllKeep(S, E),
         NEW i \in DOMAIN s, NEW j \in DOMAIN s,
         NEW x, x \in StoredAt(s[i]), x \in StoredAt(s[j])
  PROVE  i = j
<1>1. s[i] \in E /\ s[j] \in E /\ i \in Int /\ j \in Int
  BY ElementsOfSeq
<1>2. Keeps(S, s[i]) /\ Keeps(S, s[j])
  BY <1>1 DEF AllKeep
<1>3. /\ LowestKey(s[i]) <= x.key /\ x.key <= HighestKey(s[i])
      /\ LowestKey(s[j]) <= x.key /\ x.key <= HighestKey(s[j])
      /\ x \in LeafEntries(S)
  BY <1>2 DEF Keeps
<1>4. x.key \in Int
  BY <1>3, LeafSlot, KeysAssumption
<1>5. /\ LowestKey(s[i]) \in Int /\ HighestKey(s[i]) \in Int
      /\ LowestKey(s[j]) \in Int /\ HighestKey(s[j]) \in Int
  BY <1>1 DEF Ranged
<1>6. /\ i < j => HighestKey(s[i]) < LowestKey(s[j])
      /\ j < i => HighestKey(s[j]) < LowestKey(s[i])
  BY DEF InOrder
<1>. QED
  BY <1>1, <1>3, <1>4, <1>5, <1>6

\* The items a node counts for its children are as many as the entries below them.
LEMMA SlotsCount ==
  ASSUME NEW S, NEW l, Ranged(EntriesBelow(S, l)), AllKeep(S, EntriesBelow(S, l)),
         NEW s \in Seq(EntriesBelow(S, l)), InOrder(s), \A i \in DOMAIN s : Counts(s[i])
  PROVE  IsFiniteSet(StoredBy(s)) /\ Cardinality(StoredBy(s)) = ChildItems(s)
<1>. DEFINE E == EntriesBelow(S, l)
            N(i) == s[i].num_items_subtree
            P == ItemPairs(s)
            number == [i \in DOMAIN s |-> CHOOSE f \in Bijection(1..N(i), StoredAt(s[i])) : TRUE]
            item == [p \in P |-> number[p[1]][p[2]]]
<1>1. ASSUME NEW i \in DOMAIN s
      PROVE  number[i] \in Bijection(1..N(i), StoredAt(s[i]))
  <2>1. Counts(s[i])
    OBVIOUS
  <2>2. ExistsBijection(1..N(i), StoredAt(s[i]))
    BY <2>1, FS_CardinalityType DEF Counts
  <2>3. Bijection(1..N(i), StoredAt(s[i])) # {}
    BY <2>2 DEF ExistsBijection
  <2>4. number[i] = CHOOSE f \in Bijection(1..N(i), StoredAt(s[i])) : TRUE
    OBVIOUS
  <2>. QED
    BY <2>3, <2>4
<1>2. ASSUME NEW i \in DOMAIN s
      PROVE  /\ number[i] \in [1..N(i) -> StoredAt(s[i])]
             /\ \A a, b \in 1..N(i) : number[i][a] = number[i][b] => a = b
             /\ \A x \in StoredAt(s[i]) : \E a \in 1..N(i) : number[i][a] = x
  <2>1. number[i] \in Bijection(1..N(i), StoredAt(s[i]))
    BY <1>1
  <2>. HIDE DEF number, N
  <2>. QED
    BY <2>1 DEF Bijection, Injection, IsInjective, Surjection
<1>3. \A p : p \in P <=> \E i \in DOMAIN s : \E a \in 1..N(i) : p = <<i, a>>
  BY DEF ItemPairs
<1>. HIDE DEF number, N, P
<1>4. ASSUME NEW i \in DOMAIN s, NEW a \in 1..N(i)
      PROVE  <<i, a>> \in P /\ item[<<i, a>>] = number[i][a]
  BY <1>3
<1>5. ASSUME NEW p \in P
      PROVE  \E i, a : /\ i \in DOMAIN s /\ a \in 1..N(i) /\ p = <<i, a>>
                       /\ item[p] = number[i][a] /\ item[p] \in StoredAt(s[i])
  <2>1. PICK i, a : i \in DOMAIN s /\ a \in 1..N(i) /\ p = <<i, a>>
    BY <1>3
  <2>2. item[p] = number[i][a]
    BY <1>4, <2>1
  <2>3. number[i][a] \in StoredAt(s[i])
    BY <1>2, <2>1
  <2>. QED
    BY <2>1, <2>2, <2>3
<1>6. item = [p \in P |-> item[p]]
  OBVIOUS
<1>. HIDE DEF item, E
<1>7. item \in [P -> StoredBy(s)]
  <2>1. ASSUME NEW p \in P
        PROVE  item[p] \in StoredBy(s)
    BY <1>5, StoredWhere DEF E
  <2>. QED
    BY <1>6, <2>1
<1>8. ASSUME NEW x \in StoredBy(s)
      PROVE  \E p \in P : item[p] = x
  <2>1. PICK i \in DOMAIN s : x \in StoredAt(s[i])
    BY StoredWhere
  <2>2. PICK a \in 1..N(i) : number[i][a] = x
    BY <1>2, <2>1
  <2>. QED
    BY <1>4, <2>2
<1>9. ASSUME NEW p \in P, NEW q \in P, item[p] = item[q]
      PROVE  p = q
  <2>1. PICK i, a : /\ i \in DOMAIN s /\ a \in 1..N(i) /\ p = <<i, a>>
                     /\ item[p] = number[i][a] /\ item[p] \in StoredAt(s[i])
    BY <1>5
  <2>2. PICK j, b : /\ j \in DOMAIN s /\ b \in 1..N(j) /\ q = <<j, b>>
                     /\ item[q] = number[j][b] /\ item[q] \in StoredAt(s[j])
    BY <1>5
  <2>3. i = j
    BY <1>9, <2>1, <2>2, StoredOnce
  <2>4. a = b
    BY <1>2, <1>9, <2>1, <2>2, <2>3
  <2>. QED
    BY <2>1, <2>2, <2>3, <2>4
<1>10. item \in Bijection(P, StoredBy(s))
  BY <1>7, <1>8, <1>9 DEF Bijection, Injection, IsInjective, Surjection
<1>11. IsFiniteSet(P) /\ ChildItems(s) = Cardinality(P)
  <2>1. EntriesBelow(S, l) \subseteq InternalEntries(S)
    BY DEF EntriesBelow
  <2>2. s \in Seq(InternalEntries(S))
    BY <2>1, SeqMonotonic
  <2>. QED
    BY <2>2, ItemPairsFinite DEF ChildItems, ItemPairs, P
<1>. QED
  BY <1>10, <1>11, FS_Bijection DEF ExistsBijection

\* A leaf has as many entries as slots.
LEMMA LeafCounts ==
  ASSUME NEW S, Sound(S), NEW entries \in Seq(LeafEntries(S)), InOrder(entries)
  PROVE  IsFiniteSet(ToSet(entries)) /\ Cardinality(ToSet(entries)) = Len(entries)
<1>1. DOMAIN entries = 1..Len(entries) /\ Len(entries) \in Nat
  BY ElementsOfSeq
<1>2. Distinct(entries)
  BY SlotsRanged, OrderDistinct
<1>3. entries \in [1..Len(entries) -> ToSet(entries)]
  <2>1. \A i \in 1..Len(entries) : entries[i] \in ToSet(entries)
    BY ToSetIs
  <2>2. entries = [i \in 1..Len(entries) |-> entries[i]]
    BY <1>1
  <2>. QED
    BY <2>1, <2>2
<1>4. \A e \in ToSet(entries) : \E i \in 1..Len(entries) : entries[i] = e
  BY ToSetIs
<1>5. entries \in Bijection(1..Len(entries), ToSet(entries))
  BY <1>1, <1>2, <1>3, <1>4 DEF Bijection, Injection, IsInjective, Surjection, Distinct
<1>6. IsFiniteSet(1..Len(entries)) /\ Cardinality(1..Len(entries)) = Len(entries)
  BY <1>1, FS_Interval
<1>. QED
  BY <1>5, <1>6, FS_Bijection DEF ExistsBijection

\* The counter of a node, if the counters of its children are right.
LEMMA NodeCounts ==
  ASSUME NEW S, Sound(S), Ordered(S), NEW n \in NodesIn(S),
         n.kind = "Internal" => \A i \in DOMAIN n.children : Counts(n.children[i])
  PROVE  IsFiniteSet(StoredIn(n)) /\ Cardinality(StoredIn(n)) = ItemCount(n)
<1>1. n \in BalancedOver(S) /\ InOrder(Slots(n)) /\ StoredIn(n) = StoredBy(Slots(n))
  BY StoredNode, StoredInSlots DEF Ordered, NodesIn
<1>2. CASE n.kind = "Leaf"
  <2>1. n.entries \in Seq(LeafEntries(S)) /\ Slots(n) = n.entries /\ ItemCount(n) = Len(n.entries)
    BY <1>1, <1>2, NodeKinds DEF Slots, ItemCount
  <2>2. ToSet(n.entries) \in SUBSET LeafEntries(S)
    BY <2>1, ToSetIs
  <2>3. StoredIn(n) = ToSet(n.entries)
    BY <1>1, <2>1, <2>2, StoredByLeaf, StoredBySet
  <2>. QED
    BY <1>1, <2>1, <2>3, LeafCounts
<1>3. CASE n.kind = "Internal"
  <2>. DEFINE E == EntriesBelow(S, n.level)
  <2>1. /\ n.children \in Seq(E) /\ Slots(n) = n.children
        /\ ItemCount(n) = ChildItems(n.children)
    BY <1>1, <1>3, NodeKinds DEF Slots, ItemCount
  <2>2. Ranged(E) /\ AllKeep(S, E)
    BY SlotsRanged, EntryKeeps DEF AllKeep
  <2>3. IsFiniteSet(StoredBy(n.children)) /\ Cardinality(StoredBy(n.children)) = ChildItems(n.children)
    BY <1>1, <1>3, <2>1, <2>2, SlotsCount
  <2>. QED
    BY <1>1, <2>1, <2>3
<1>. QED
  BY <1>1, <1>2, <1>3, NodeKinds DEF IsNode

\* The counter of every entry is right.
LEMMA EntryCounts ==
  ASSUME NEW S, Sound(S), Ordered(S)
  PROVE  \A l : \A e \in EntriesBelow(S, l) : Counts(e)
<1>. DEFINE Entries == {e \in InternalEntries(S) : e = EntryFor(e.child_hash)}
            T == {v \in Nat : \E e \in Entries : Level(e.child_hash) = v /\ ~Counts(e)}
<1>1. ASSUME NEW e \in Entries
      PROVE  /\ e.child_hash \in BalancedOver(S) /\ e.child_hash \in NodesIn(S)
             /\ Level(e.child_hash) \in Nat /\ e = EntryFor(e.child_hash)
  <2>1. e.child_hash \in NodesIn(S)
    BY DEF InternalEntries
  <2>. QED
    BY <2>1, ChildOver, NodeKinds
<1>2. T = {}
  <2>. SUFFICES ASSUME T # {}
                PROVE  FALSE
    OBVIOUS
  <2>1. PICK v \in T : \A u \in T : v =< u
    <3>. HIDE DEF T
    <3>1. T \subseteq Nat
      BY DEF T
    <3>. QED
      BY <3>1, LeastNatural
  <2>2. PICK e \in Entries : Level(e.child_hash) = v /\ ~Counts(e)
    BY <2>1
  <2>. DEFINE n == e.child_hash
  <2>3. n \in BalancedOver(S) /\ n \in NodesIn(S) /\ e = EntryFor(n)
    BY <1>1
  <2>4. ASSUME n.kind = "Internal", NEW i \in DOMAIN n.children
        PROVE  Counts(n.children[i])
    <3>. DEFINE d == n.children[i]
    <3>1. d \in EntriesBelow(S, n.level) /\ Level(n) = n.level
      BY <2>3, <2>4, NodeKinds, ElementsOfSeq DEF Level
    <3>2. d \in Entries /\ Level(d.child_hash) + 1 = n.level
      BY <3>1 DEF EntriesBelow
    <3>3. Level(d.child_hash) \in Nat
      BY <1>1, <3>2
    <3>4. Level(d.child_hash) < v /\ v \in Nat
      BY <2>1, <2>2, <3>1, <3>2, <3>3
    <3>5. Level(d.child_hash) \notin T
      BY <2>1, <3>3, <3>4
    <3>. QED
      BY <3>2, <3>3, <3>5
  <2>5. StoredAt(e) = StoredIn(n) /\ e.num_items_subtree = ItemCount(n)
    BY <2>3, StoredAtEntry DEF EntryFor
  <2>. HIDE DEF n
  <2>6. IsFiniteSet(StoredIn(n)) /\ Cardinality(StoredIn(n)) = ItemCount(n)
    BY <2>3, <2>4, NodeCounts
  <2>7. Counts(e)
    BY <2>5, <2>6 DEF Counts
  <2>. QED
    BY <2>2, <2>7
<1>3. ASSUME NEW l, NEW e \in EntriesBelow(S, l)
      PROVE  Counts(e)
  <2>1. e \in Entries
    BY DEF EntriesBelow
  <2>2. Level(e.child_hash) \in Nat /\ Level(e.child_hash) \notin T
    BY <1>1, <1>2, <2>1
  <2>. QED
    BY <2>1, <2>2
<1>. QED
  BY <1>3

\* The item count of every stored node is the number of entries it stores.
LEMMA StoredCounted ==
  ASSUME NEW S, Sound(S), Ordered(S), NEW n \in NodesIn(S)
  PROVE  IsFiniteSet(StoredIn(n)) /\ Cardinality(StoredIn(n)) = ItemCount(n)
<1>. DEFINE e == EntryFor(n)
<1>1. n \in BalancedOver(S) /\ n \in S
  BY StoredNode DEF NodesIn
<1>2. e \in EntriesBelow(S, Level(n) + 1)
  BY <1>1, EntryForOver
<1>3. Counts(e)
  BY <1>2, EntryCounts
<1>4. StoredAt(e) = StoredIn(n) /\ e.num_items_subtree = ItemCount(n)
  BY StoredAtEntry DEF EntryFor
<1>. QED
  BY <1>3, <1>4 DEF Counts
-----------------------------------------------------------------------------
\* The nodes of a stored tree are stored, each as far below its root as its level says.
LEMMA DescendantsStored ==
  ASSUME NEW S, Sound(S), NEW n \in NodesIn(S)
  PROVE  \A l \in 0..Level(n) :
           Descendants(n)[l] \subseteq {m \in NodesIn(S) : Level(m) + l = Level(n)}
<1>. DEFINE At(l) == {m \in NodesIn(S) : Level(m) + l = Level(n)}
            T     == {l \in Nat : l <= Level(n) /\ ~(Descendants(n)[l] \subseteq At(l))}
<1>0. Level(n) \in Nat
  BY StoredNode, NodeKinds DEF NodesIn
<1>. SUFFICES ASSUME T # {}
              PROVE  FALSE
  BY <1>0
<1>1. PICK l \in T : \A u \in T : l =< u
  <2>. HIDE DEF T
  <2>1. T \subseteq Nat
    BY DEF T
  <2>. QED
    BY <2>1, LeastNatural
<1>2. l # 0
  <2>1. Descendants(n)[0] = {n}
    BY BelowStep
  <2>2. n \in At(0)
    BY <1>0
  <2>. QED
    BY <1>1, <2>1, <2>2
<1>3. l \in Nat /\ l - 1 \in Nat /\ l - 1 \notin T /\ (l - 1) + 1 = l /\ l <= Level(n)
  BY <1>1, <1>2
<1>4. Descendants(n)[l - 1] \subseteq At(l - 1)
  BY <1>0, <1>3
<1>5. Descendants(n)[l] = ChildrenOf(Descendants(n)[l - 1])
  <2>1. Descendants(n)[(l - 1) + 1] = ChildrenOf(Descendants(n)[l - 1])
    BY <1>3, BelowStep
  <2>. QED
    BY <1>3, <2>1
<1>6. ASSUME NEW m \in At(l - 1), NEW c \in ToSet(m.children)
      PROVE  c.child_hash \in At(l)
  <2>1. m \in BalancedOver(S) /\ Level(m) + (l - 1) = Level(n)
    BY <1>6, StoredNode DEF NodesIn
  <2>2. m.kind = "Internal"
    BY <1>0, <1>3, <2>1, NodeKinds DEF Level, IsNode
  <2>3. c \in EntriesBelow(S, m.level)
    BY <2>1, <2>2, NodeKinds DEF ToSet
  <2>4. c.child_hash \in NodesIn(S) /\ Level(c.child_hash) + 1 = Level(m)
    BY <2>2, <2>3 DEF EntriesBelow, InternalEntries, Level
  <2>5. Level(c.child_hash) \in Nat /\ Level(m) \in Nat
    BY <2>1, <2>4, StoredNode, NodeKinds DEF NodesIn
  <2>. QED
    BY <1>0, <1>3, <2>1, <2>4, <2>5
<1>7. ChildrenOf(Descendants(n)[l - 1]) \subseteq At(l)
  BY <1>4, <1>6 DEF ChildrenOf
<1>. QED
  BY <1>1, <1>5, <1>7

\* So a tree is searchable if all that is stored is.
LEMMA StoredSearchable ==
  ASSUME NEW S, Sound(S), Ordered(S), NEW n \in NodesIn(S)
  PROVE  Searchable(n)
<1>1. NodesUnder(n) \subseteq NodesIn(S)
  BY DescendantsStored DEF NodesUnder
<1>. SUFFICES ASSUME NEW m \in NodesIn(S)
              PROVE  InOrder(Slots(m)) /\ EntriesUpToDate(m) /\ ChildrenOneLevelDown(m)
  BY <1>1 DEF Searchable
<1>2. m \in BalancedOver(S)
  BY StoredNode DEF NodesIn
<1>. QED
  BY <1>2 DEF Ordered, BalancedOver
=============================================================================
