---------------------------- MODULE CursorProofs ----------------------------
(***************************************************************************)
(* A cursor gives what it was opened on, for trees of any size and height, *)
(* whatever happens to the tree and to its store meanwhile.                *)
(***************************************************************************)
EXTENDS CursorReader, WalkProofs

(***************************************************************************)
(* One step of a cursor.                                                   *)
(***************************************************************************)
\* A cursor that is to go on at key k: in a leaf it stands there.
GoesOn(c, k, r, S) ==
  /\ Stacked(c.path, r, S) /\ c.path # <<>>
  /\ Last(c.path).node.kind = "Leaf" => Stands(c.at, Last(c.path).node, k, r)

\* No key lies between k and j.
SameFrom(k, j, r) == \A x \in StoredIn(r) : k <= x.key <=> j <= x.key

\* The next entry, if all of its value is there.
Gives(next, k, r, S) ==
  /\ next.out = "item"
  /\ \E e \in StoredIn(r) :
       /\ next.item = <<e.key, ValueOf(e.value)>> /\ e.key \in Int /\ k <= e.key
       /\ \A x \in StoredIn(r) : (k <= x.key /\ x.key # e.key) <=> e.key + 1 <= x.key
       /\ GoesOn(next.cursor, e.key + 1, r, S)
       /\ Last(next.cursor.path).node.kind = "Leaf"

Fails(next, c, k, r, S, T) ==
  /\ next.out \in {"ChunkNotFound", "InternalError"}
  /\ \E j \in Int : GoesOn(next.cursor, j, r, S) /\ SameFrom(k, j, r)
  /\ ~(ChunksUnder(r) \subseteq T) \/ Last(c.path).node.kind = "Internal"

Ends(next, k, r) ==
  /\ next.out = "done" /\ next.cursor.path = <<>>
  /\ \A x \in StoredIn(r) : ~(k <= x.key)

\* What a cursor that stands before an entry gives.
LEMMA YieldGives ==
  ASSUME NEW S, Fit(S), NEW r \in NodesIn(S), r # None, NEW c, NEW k \in Int,
         Stacked(c.path, r, S), c.path # <<>>, Stands(c.at, Last(c.path).node, k, r),
         c.at \in DOMAIN Last(c.path).node.entries, NEW T
  PROVE  LET next == Yield(c, DefaultArgs, T)
         IN  Gives(next, k, r, S) \/ Fails(next, c, k, r, S, T)
<1>. DEFINE n == Last(c.path).node
            e == n.entries[c.at]
            next == Yield(c, DefaultArgs, T)
            at == c.at
            p == c.path
<1>1. ~EndsAt(e.key, DefaultArgs) /\ Dir(DefaultArgs) = 1
  BY DEF EndsAt, Above, Below, DefaultArgs, Dir
<1>2. n \in Part(r, S)
  BY LastIsPart
<1>3. /\ e \in StoredIn(r) /\ e.key \in Int /\ k <= e.key
      /\ Stands(at + 1, n, e.key + 1, r)
      /\ \A x \in StoredIn(r) : (k <= x.key /\ x.key # e.key) <=> e.key + 1 <= x.key
  BY <1>2, StandsNext
<1>4. n.kind = "Leaf"
  BY DEF Stands
<1>5. CASE ReprChunks(e.value) \subseteq T
  <2>1. next = [cursor |-> [path |-> p, at |-> at + 1], out |-> "item",
                item |-> <<e.key, ValueOf(e.value)>>]
    BY <1>1, <1>5 DEF Yield
  <2>2. /\ next.out = "item" /\ next.item = <<e.key, ValueOf(e.value)>>
        /\ next.cursor.path = p /\ next.cursor.at = at + 1
    BY <2>1
  <2>. HIDE DEF next
  <2>3. GoesOn(next.cursor, e.key + 1, r, S) /\ Last(next.cursor.path).node.kind = "Leaf"
    BY <1>3, <1>4, <2>2 DEF GoesOn
  <2>4. Gives(next, k, r, S)
    <3>. HIDE DEF e
    <3>. QED
      BY <1>3, <2>2, <2>3 DEF Gives
  <2>. QED
    BY <2>4 DEF next
<1>6. CASE ~(ReprChunks(e.value) \subseteq T)
  <2>1. next = Outcome(p, at, "ChunkNotFound")
    BY <1>1, <1>6 DEF Yield
  <2>2. next.out = "ChunkNotFound" /\ next.cursor.path = p /\ next.cursor.at = at
    BY <2>1 DEF Outcome
  <2>. HIDE DEF next
  <2>3. GoesOn(next.cursor, k, r, S) /\ SameFrom(k, k, r)
    BY <2>2 DEF GoesOn, SameFrom
  <2>4. ~(ChunksUnder(r) \subseteq T)
    BY <1>3, <1>6, ChunksOf
  <2>5. Fails(next, c, k, r, S, T)
    BY <2>2, <2>3, <2>4 DEF Fails
  <2>. QED
    BY <2>5 DEF next
<1>. QED
  BY <1>5, <1>6

\* What the next step of a cursor does.
LEMMA NextIs ==
  ASSUME NEW S, Fit(S), NEW r \in NodesIn(S), r # None, NEW c, NEW k \in Int, GoesOn(c, k, r, S),
         NEW T
  PROVE  LET next == NextInScan(c, DefaultArgs, T)
         IN  Gives(next, k, r, S) \/ Fails(next, c, k, r, S, T) \/ Ends(next, k, r)
<1>. DEFINE n == Last(c.path).node
            next == NextInScan(c, DefaultArgs, T)
            p == c.path
            at == c.at
            moved == Advance(p, 1, T)
            to == [path |-> moved.path, at |-> 1]
<1>1. Stacked(p, r, S) /\ p # <<>> /\ n \in Part(r, S) /\ (n.kind = "Leaf" => Stands(at, n, k, r))
  BY LastIsPart DEF GoesOn
<1>2. n.kind \in {"Leaf", "Internal"}
  BY <1>1 DEF Part, NodesIn, IsNode
<1>3. Dir(DefaultArgs) = 1 /\ \A q : NearEnd(q, DefaultArgs) = 1
  BY DEF Dir, DefaultArgs, NearEnd
<1>4. CASE n.kind = "Internal"
  <2>1. next = Outcome(p, at, "InternalError")
    BY <1>1, <1>4 DEF NextInScan
  <2>2. next.out = "InternalError" /\ next.cursor.path = p /\ next.cursor.at = at
    BY <2>1 DEF Outcome
  <2>. HIDE DEF next
  <2>3. GoesOn(next.cursor, k, r, S) /\ SameFrom(k, k, r)
    BY <1>1, <2>2 DEF GoesOn, SameFrom
  <2>4. Fails(next, c, k, r, S, T)
    BY <1>4, <2>2, <2>3 DEF Fails
  <2>. QED
    BY <2>4 DEF next
<1>5. CASE n.kind = "Leaf" /\ at \in DOMAIN n.entries
  <2>1. next = Yield(c, DefaultArgs, T)
    BY <1>1, <1>5 DEF NextInScan
  <2>. QED
    BY <1>1, <1>5, <2>1, YieldGives
<1>6. CASE n.kind = "Leaf" /\ at \notin DOMAIN n.entries
  <2>1. next = CASE moved.out = "leaf" -> Yield(to, DefaultArgs, T)
                 [] moved.out = "end" -> Outcome(<<>>, at, "done")
                 [] OTHER -> Outcome(moved.path, at, moved.out)
    BY <1>1, <1>3, <1>6 DEF NextInScan
  <2>2. at = Len(n.entries) + 1
    <3>1. DOMAIN n.entries = 1..Len(n.entries) /\ Len(n.entries) \in Nat
      BY <1>1, <1>6, LeafIs
    <3>2. at \in 1..(Len(n.entries) + 1)
      BY <1>1, <1>6 DEF Stands, Placed
    <3>. QED
      BY <1>6, <3>1, <3>2
  <2>3. \/ /\ moved.out = "end" /\ moved.path = <<>>
           /\ \A x \in StoredIn(r) : ~(k <= x.key)
        \/ /\ moved.path # <<>>
           /\ \E j \in Int : /\ Landed(moved, Leftmost, j, r, S, T)
                             /\ \A x \in StoredIn(r) : k <= x.key <=> j <= x.key
    BY <1>1, <1>6, <2>2, AdvanceLands
  <2>. HIDE DEF next, moved
  <2>4. CASE moved.out = "end" /\ moved.path = <<>> /\ \A x \in StoredIn(r) : ~(k <= x.key)
    <3>1. next = Outcome(<<>>, at, "done")
      BY <2>1, <2>4
    <3>2. next.out = "done" /\ next.cursor.path = <<>>
      BY <3>1 DEF Outcome
    <3>3. Ends(next, k, r)
      BY <2>4, <3>2 DEF Ends
    <3>. QED
      BY <3>3 DEF next
  <2>5. ASSUME moved.path # <<>>,
               NEW j \in Int, Landed(moved, Leftmost, j, r, S, T), SameFrom(k, j, r)
        PROVE  Gives(next, k, r, S) \/ Fails(next, c, k, r, S, T)
    <3>1. Stacked(moved.path, r, S) /\ Last(moved.path).node \in Part(r, S)
      BY <2>5, LastIsPart DEF Landed
    <3>2. CASE moved.out = "leaf"
      <4>1. next = Yield(to, DefaultArgs, T)
        BY <2>1, <3>2
      <4>2. to.path = moved.path /\ to.at = 1
        OBVIOUS
      <4>. DEFINE m == Last(moved.path).node
      <4>3. m.kind = "Leaf" /\ Near(m, r, j) /\ j <= LowKey(m)
        BY <2>5, <3>2 DEF Landed, Seeks, Leftmost, Rightmost, Toward
      <4>4. Stands(1, m, j, r) /\ 1 \in DOMAIN m.entries
        BY <3>1, <4>3, StandsFirst
      <4>. HIDE DEF to
      <4>5. Gives(next, j, r, S) \/ Fails(next, to, j, r, S, T)
        BY <2>5, <3>1, <4>1, <4>2, <4>4, YieldGives
      <4>6. CASE Gives(next, j, r, S)
        <5>1. PICK e \in StoredIn(r) :
                /\ next.item = <<e.key, ValueOf(e.value)>> /\ e.key \in Int /\ j <= e.key
                /\ \A x \in StoredIn(r) : (j <= x.key /\ x.key # e.key) <=> e.key + 1 <= x.key
                /\ GoesOn(next.cursor, e.key + 1, r, S)
                /\ Last(next.cursor.path).node.kind = "Leaf"
          BY <4>6 DEF Gives
        <5>2. k <= e.key
          BY <2>5, <5>1 DEF SameFrom
        <5>3. \A x \in StoredIn(r) : (k <= x.key /\ x.key # e.key) <=> e.key + 1 <= x.key
          BY <2>5, <5>1 DEF SameFrom
        <5>. QED
          BY <4>6, <5>1, <5>2, <5>3 DEF Gives
      <4>7. CASE Fails(next, to, j, r, S, T)
        <5>1. PICK i \in Int : GoesOn(next.cursor, i, r, S) /\ SameFrom(j, i, r)
          BY <4>7 DEF Fails
        <5>2. SameFrom(k, i, r)
          BY <2>5, <5>1 DEF SameFrom
        <5>3. ~(ChunksUnder(r) \subseteq T)
          BY <4>2, <4>3, <4>7 DEF Fails
        <5>. QED
          BY <4>7, <5>1, <5>2, <5>3 DEF Fails
      <4>. QED
        BY <4>5, <4>6, <4>7
    <3>3. CASE moved.out = "ChunkNotFound"
      <4>1. next = Outcome(moved.path, at, "ChunkNotFound")
        BY <2>1, <3>3
      <4>2. next.out = "ChunkNotFound" /\ next.cursor.path = moved.path
        BY <4>1 DEF Outcome
      <4>3. Last(moved.path).node.kind = "Internal" /\ ~(NodesUnder(r) \subseteq T)
        BY <2>5, <3>3 DEF Landed
      <4>4. GoesOn(next.cursor, j, r, S)
        BY <2>5, <3>1, <4>2, <4>3 DEF GoesOn
      <4>5. ~(ChunksUnder(r) \subseteq T)
        BY <4>3, ChunksOf
      <4>. QED
        BY <2>5, <4>2, <4>4, <4>5 DEF Fails
    <3>. QED
      BY <2>5, <3>2, <3>3 DEF Landed
  <2>6. ASSUME moved.path # <<>>,
               \E j \in Int : /\ Landed(moved, Leftmost, j, r, S, T)
                              /\ \A x \in StoredIn(r) : k <= x.key <=> j <= x.key
        PROVE  Gives(next, k, r, S) \/ Fails(next, c, k, r, S, T)
    BY <2>5, <2>6 DEF SameFrom
  <2>. QED
    BY <2>3, <2>4, <2>6 DEF next
<1>. QED
  BY <1>2, <1>4, <1>5, <1>6
-----------------------------------------------------------------------------
(***************************************************************************)
(* What a cursor has given.                                                *)
(***************************************************************************)
Items(due) == {<<k, due[k]>> : k \in DOMAIN due}

KeysOf(g) == {item[1] : item \in ToSet(g)}

\* CursorFaithful, of what is due and what was given.
FaithfulTo(due, g) ==
  /\ g \in Seq(Items(due))
  /\ \A i, j \in DOMAIN g : i < j => g[i][1] < g[j][1]
  /\ \A k \in DOMAIN due \ KeysOf(g), h \in KeysOf(g) : h < k

\* Nothing given is faithful to everything.
LEMMA FaithfulAtFirst ==
  ASSUME NEW due
  PROVE  FaithfulTo(due, <<>>) /\ KeysOf(<<>>) = {}
<1>1. ToSet(<<>>) = {}
  BY DEF ToSet
<1>2. KeysOf(<<>>) = {}
  BY <1>1 DEF KeysOf
<1>. QED
  BY <1>2 DEF FaithfulTo

\* The smallest key that is still due may be given next.
NextDue(k, due, g) ==
  k \in DOMAIN due \ KeysOf(g) /\ \A h \in DOMAIN due \ KeysOf(g) : k <= h

LEMMA FaithfulNext ==
  ASSUME NEW due, NEW g, FaithfulTo(due, g), DOMAIN due \subseteq Int,
         NEW k, NextDue(k, due, g)
  PROVE  LET new == Append(g, <<k, due[k]>>)
         IN  FaithfulTo(due, new) /\ KeysOf(new) = KeysOf(g) \cup {k}
<1>. DEFINE e == <<k, due[k]>>
            new == Append(g, e)
<1>0. k \in DOMAIN due \ KeysOf(g) /\ \A h \in DOMAIN due \ KeysOf(g) : k <= h
  BY DEF NextDue
<1>1. g \in Seq(Items(due)) /\ Len(g) \in Nat /\ DOMAIN g = 1..Len(g)
  BY ElementsOfSeq DEF FaithfulTo
<1>2. e \in Items(due) /\ e[1] = k
  BY <1>0 DEF Items
<1>. HIDE DEF e
<1>3. /\ new \in Seq(Items(due)) /\ DOMAIN new = 1..(Len(g) + 1)
      /\ \A i \in 1..Len(g) : new[i] = g[i]
      /\ new[Len(g) + 1] = e
  BY <1>1, <1>2
<1>. HIDE DEF new
<1>4. ToSet(new) = ToSet(g) \cup {e}
  <2>1. \A x : x \in ToSet(new) <=> \E i \in 1..(Len(g) + 1) : new[i] = x
    BY <1>3 DEF ToSet
  <2>2. \A x : x \in ToSet(g) <=> \E i \in 1..Len(g) : g[i] = x
    BY <1>1 DEF ToSet
  <2>3. \A i : i \in 1..(Len(g) + 1) <=> i \in 1..Len(g) \/ i = Len(g) + 1
    BY <1>1
  <2>4. \A x : x \in ToSet(new) <=> x \in ToSet(g) \/ x = e
    BY <1>3, <2>1, <2>2, <2>3
  <2>. QED
    BY <2>4
<1>5. KeysOf(new) = KeysOf(g) \cup {k}
  BY <1>2, <1>4 DEF KeysOf
<1>6. \A i \in DOMAIN g : g[i][1] \in KeysOf(g)
  BY DEF KeysOf, ToSet
<1>7. \A h \in KeysOf(g) : h < k /\ h \in Int
  <2>1. \A h \in KeysOf(g) : h \in DOMAIN due
    <3>1. ToSet(g) \subseteq Items(due)
      BY <1>1, ToSetIs
    <3>. QED
      BY <3>1 DEF KeysOf, Items
  <2>. QED
    BY <1>0, <2>1 DEF FaithfulTo
<1>8. ASSUME NEW i \in DOMAIN new, NEW j \in DOMAIN new, i < j
      PROVE  new[i][1] < new[j][1]
  <2>1. i \in 1..Len(g)
    BY <1>1, <1>3, <1>8
  <2>2. CASE j \in 1..Len(g)
    BY <1>1, <1>3, <1>8, <2>1, <2>2 DEF FaithfulTo
  <2>3. CASE j = Len(g) + 1
    <3>1. new[i][1] \in KeysOf(g) /\ new[j][1] = k
      BY <1>1, <1>2, <1>3, <1>6, <2>1, <2>3
    <3>. QED
      BY <1>7, <3>1
  <2>. QED
    BY <1>1, <1>3, <2>2, <2>3
<1>9. ASSUME NEW x \in DOMAIN due \ KeysOf(new), NEW h \in KeysOf(new)
      PROVE  h < x
  <2>1. x \in DOMAIN due \ KeysOf(g) /\ x # k
    BY <1>5
  <2>2. CASE h \in KeysOf(g)
    BY <2>1, <2>2 DEF FaithfulTo
  <2>3. CASE h = k
    <3>1. k <= x /\ k \in Int /\ x \in Int
      BY <1>0, <2>1
    <3>. QED
      BY <2>1, <2>3, <3>1
  <2>. QED
    BY <1>5, <2>2, <2>3
<1>. QED
  BY <1>3, <1>5, <1>8, <1>9 DEF FaithfulTo, new, e
-----------------------------------------------------------------------------
(***************************************************************************)
(* The invariant.  A cursor that could be opened is through, or goes on at *)
(* a key k of a tree all of whose chunks were once stored together: the    *)
(* keys it still owes are the tree's keys from k on.                       *)
(***************************************************************************)
\* What is due is a part of the tree's map.
PartOfMap(due, r) ==
  DOMAIN due \subseteq DOMAIN MapOf(r) /\ \A k \in DOMAIN due : due[k] = MapOf(r)[k]

Owes(due, g, k, r) == DOMAIN due \ KeysOf(g) = {x \in DOMAIN MapOf(r) : k <= x}

Goes(c, g, v) ==
  /\ v.root # None
  /\ \E S : /\ Fit(S) /\ v.root \in NodesIn(S) /\ PartOfMap(v.due, v.root)
            /\ \E k \in Int : GoesOn(c, k, v.root, S) /\ Owes(v.due, g, k, v.root)

Through(c, g, v) == c.path = <<>> /\ DOMAIN v.due \subseteq KeysOf(g)

\* Opened, given and asked of a store T, a cursor is as the invariant says.
Reads(c, rd, g, v) ==
  /\ FaithfulTo(v.due, g)
  /\ rd = "done" => DOMAIN v.due \subseteq KeysOf(g)
  /\ rd \notin {"none", "rejected"} => Through(c, g, v) \/ Goes(c, g, v)

Unharmed(c, rd) ==
  /\ rd \in {"none", "open", "done"}
  /\ c.path # <<>> => Last(c.path).node.kind = "Leaf"

\* What the next step leaves.
LEMMA NextReads ==
  ASSUME NEW c, NEW rd, NEW g, NEW v, NEW T, Reads(c, rd, g, v), rd \notin {"none", "rejected"}
  PROVE  LET next == NextInScan(c, DefaultArgs, T)
             rd2  == IF next.out = "item" THEN "open" ELSE next.out
             g2   == IF next.out = "item" THEN Append(g, next.item) ELSE g
         IN  /\ Reads(next.cursor, rd2, g2, v)
             /\ ChunksUnder(v.root) \subseteq T /\ Unharmed(c, rd) => Unharmed(next.cursor, rd2)
<1>. DEFINE next == NextInScan(c, DefaultArgs, T)
            rd2  == IF next.out = "item" THEN "open" ELSE next.out
            g2   == IF next.out = "item" THEN Append(g, next.item) ELSE g
            r    == v.root
            due  == v.due
            Done == /\ Reads(next.cursor, rd2, g2, v)
                    /\ ChunksUnder(v.root) \subseteq T /\ Unharmed(c, rd)
                         => Unharmed(next.cursor, rd2)
<1>1. CASE Through(c, g, v)
  <2>1. next = Outcome(<<>>, c.at, "done")
    BY <1>1 DEF NextInScan, Through
  <2>2. next.out = "done" /\ next.cursor.path = <<>>
    BY <2>1 DEF Outcome
  <2>. HIDE DEF next
  <2>3. rd2 = "done" /\ g2 = g
    BY <2>2
  <2>. HIDE DEF rd2, g2
  <2>4. FaithfulTo(due, g)
    BY DEF Reads
  <2>5. Through(next.cursor, g, v)
    BY <1>1, <2>2 DEF Through
  <2>6. Reads(next.cursor, rd2, g2, v)
    BY <1>1, <2>3, <2>4, <2>5 DEF Reads, Through
  <2>7. Unharmed(next.cursor, rd2)
    BY <2>2, <2>3 DEF Unharmed
  <2>. QED
    BY <2>6, <2>7 DEF next, rd2, g2
<1>2. ASSUME r # None, NEW S, Fit(S), r \in NodesIn(S), PartOfMap(due, r),
             NEW k \in Int, GoesOn(c, k, r, S), Owes(due, g, k, r)
      PROVE  Done
  <2>1. Gives(next, k, r, S) \/ Fails(next, c, k, r, S, T) \/ Ends(next, k, r)
    BY <1>2, NextIs
  <2>2. /\ DOMAIN MapOf(r) = {e.key : e \in StoredIn(r)}
        /\ \A e \in StoredIn(r) : MapOf(r)[e.key] = ValueOf(e.value)
        /\ \A e \in StoredIn(r) : e.key \in Int
    BY <1>2, MapIs, NodeRange
  <2>3. /\ DOMAIN due \subseteq DOMAIN MapOf(r) /\ DOMAIN due \subseteq Int
        /\ \A x \in DOMAIN due : due[x] = MapOf(r)[x]
        /\ DOMAIN due \ KeysOf(g) = {x \in DOMAIN MapOf(r) : k <= x}
    BY <1>2, <2>2 DEF PartOfMap, Owes
  <2>4. FaithfulTo(due, g)
    BY DEF Reads
  <2>. HIDE DEF next
  <2>5. CASE Gives(next, k, r, S)
    <3>1. next.out = "item"
      BY <2>5 DEF Gives
    <3>2. PICK e \in StoredIn(r) :
            /\ next.item = <<e.key, ValueOf(e.value)>> /\ e.key \in Int /\ k <= e.key
            /\ \A x \in StoredIn(r) : (k <= x.key /\ x.key # e.key) <=> e.key + 1 <= x.key
            /\ GoesOn(next.cursor, e.key + 1, r, S)
            /\ Last(next.cursor.path).node.kind = "Leaf"
      BY <2>5 DEF Gives
    <3>3. e.key \in DOMAIN due \ KeysOf(g)
      BY <2>2, <2>3, <3>2
    <3>4. next.item = <<e.key, due[e.key]>>
      BY <2>2, <2>3, <3>2, <3>3
    <3>5. \A h \in DOMAIN due \ KeysOf(g) : e.key <= h
      <4>. SUFFICES ASSUME NEW h \in DOMAIN due \ KeysOf(g)
                    PROVE  e.key <= h
        OBVIOUS
      <4>1. PICK x \in StoredIn(r) : h = x.key
        BY <2>2, <2>3
      <4>2. k <= x.key /\ x.key \in Int
        BY <2>2, <2>3, <4>1
      <4>. QED
        BY <3>2, <4>1, <4>2
    <3>6. rd2 = "open" /\ g2 = Append(g, <<e.key, due[e.key]>>)
      BY <3>1, <3>4
    <3>. HIDE DEF rd2, g2
    <3>7. FaithfulTo(due, g2) /\ KeysOf(g2) = KeysOf(g) \cup {e.key}
      <4>1. DOMAIN due \subseteq Int
        BY <2>3
      <4>. DEFINE y == e.key
      <4>. HIDE DEF due, y
      <4>2. NextDue(y, due, g)
        BY <3>3, <3>5 DEF NextDue, y
      <4>3. LET new == Append(g, <<y, due[y]>>)
            IN  FaithfulTo(due, new) /\ KeysOf(new) = KeysOf(g) \cup {y}
        BY <2>4, <4>1, <4>2, FaithfulNext
      <4>. QED
        BY <3>6, <4>3 DEF y
    <3>8. Owes(due, g2, e.key + 1, r)
      <4>1. \A x \in DOMAIN MapOf(r) : (k <= x /\ x # e.key) <=> e.key + 1 <= x
        BY <2>2, <3>2
      <4>2. DOMAIN due \ KeysOf(g2) = {x \in DOMAIN MapOf(r) : k <= x} \ {e.key}
        BY <2>3, <3>7
      <4>3. DOMAIN due \ KeysOf(g2) = {x \in DOMAIN MapOf(r) : e.key + 1 <= x}
        BY <4>1, <4>2
      <4>. QED
        BY <4>3 DEF Owes
    <3>9. e.key + 1 \in Int
      BY <3>2
    <3>10. Goes(next.cursor, g2, v)
      BY <1>2, <3>2, <3>8, <3>9 DEF Goes
    <3>11. Reads(next.cursor, rd2, g2, v)
      BY <3>6, <3>7, <3>10 DEF Reads
    <3>12. Unharmed(next.cursor, rd2)
      BY <3>2, <3>6 DEF Unharmed
    <3>. QED
      BY <3>11, <3>12
  <2>6. CASE Fails(next, c, k, r, S, T)
    <3>1. next.out \in {"ChunkNotFound", "InternalError"}
      BY <2>6 DEF Fails
    <3>2. PICK j \in Int : GoesOn(next.cursor, j, r, S) /\ SameFrom(k, j, r)
      BY <2>6 DEF Fails
    <3>3. rd2 = next.out /\ rd2 # "done" /\ g2 = g
      BY <3>1
    <3>. HIDE DEF rd2, g2
    <3>4. Owes(due, g2, j, r)
      <4>1. \A x \in DOMAIN MapOf(r) : k <= x <=> j <= x
        BY <2>2, <3>2 DEF SameFrom
      <4>2. {x \in DOMAIN MapOf(r) : k <= x} = {x \in DOMAIN MapOf(r) : j <= x}
        BY <4>1
      <4>. QED
        BY <2>3, <3>3, <4>2 DEF Owes
    <3>5. Goes(next.cursor, g2, v)
      BY <1>2, <3>2, <3>4 DEF Goes
    <3>6. Reads(next.cursor, rd2, g2, v)
      BY <2>4, <3>3, <3>5 DEF Reads
    <3>7. ~(ChunksUnder(r) \subseteq T /\ Unharmed(c, rd))
      BY <1>2, <2>6 DEF Fails, Unharmed, GoesOn
    <3>. QED
      BY <3>6, <3>7
  <2>7. CASE Ends(next, k, r)
    <3>1. next.out = "done" /\ next.cursor.path = <<>>
      BY <2>7 DEF Ends
    <3>2. \A x \in DOMAIN MapOf(r) : ~(k <= x)
      BY <2>2, <2>7 DEF Ends
    <3>3. DOMAIN due \subseteq KeysOf(g)
      BY <2>3, <3>2
    <3>4. rd2 = "done" /\ g2 = g
      BY <3>1
    <3>. HIDE DEF rd2, g2
    <3>5. Through(next.cursor, g2, v) /\ FaithfulTo(due, g2)
      BY <2>4, <3>1, <3>3, <3>4 DEF Through
    <3>6. Reads(next.cursor, rd2, g2, v)
      BY <3>3, <3>4, <3>5 DEF Reads
    <3>7. Unharmed(next.cursor, rd2)
      BY <3>1, <3>4 DEF Unharmed
    <3>. QED
      BY <3>6, <3>7
  <2>. QED
    BY <2>1, <2>5, <2>6, <2>7
<1>3. CASE Goes(c, g, v)
  <2>1. r # None
    BY <1>3 DEF Goes
  <2>2. PICK S : /\ Fit(S) /\ r \in NodesIn(S) /\ PartOfMap(due, r)
                 /\ \E k \in Int : GoesOn(c, k, r, S) /\ Owes(due, g, k, r)
    BY <1>3 DEF Goes
  <2>3. PICK k \in Int : GoesOn(c, k, r, S) /\ Owes(due, g, k, r)
    BY <2>2
  <2>4. Done
    <3>. HIDE DEF Done
    <3>. QED
      BY <1>2, <2>1, <2>2, <2>3
  <2>. QED
    BY <2>4
<1>. QED
  BY <1>1, <1>3 DEF Reads

\* What opening a tree leaves: a cursor that goes on at k, or none.
ReadingAfter(out) == IF out \in {"leaf", "end"} THEN "open" ELSE "rejected"

LEMMA OpenReads ==
  ASSUME NEW S, Fit(S), NEW r \in NodesIn(S), r # None, NEW k \in Int, NEW goal, Seeks(goal, r, k, r),
         NEW due, PartOfMap(due, r), DOMAIN due = {x \in DOMAIN MapOf(r) : k <= x},
         NEW T, NEW at,
         Open(r, goal, T).out = "leaf" => Placed(at, Last(Open(r, goal, T).path).node, k)
  PROVE  LET o == Open(r, goal, T)
             c == [path |-> o.path, at |-> at]
         IN  /\ Reads(c, ReadingAfter(o.out), <<>>, [root |-> r, due |-> due])
             /\ ChunksUnder(r) \subseteq T => Unharmed(c, ReadingAfter(o.out))
<1>. DEFINE o == Open(r, goal, T)
            c == [path |-> o.path, at |-> at]
            v == [root |-> r, due |-> due]
            rd == ReadingAfter(o.out)
<1>1. Landed(o, goal, k, r, S, T)
  BY OpenLands
<1>2. FaithfulTo(due, <<>>) /\ KeysOf(<<>>) = {}
  BY FaithfulAtFirst
<1>3. c.path = o.path /\ c.at = at /\ v.root = r /\ v.due = due
  OBVIOUS
<1>. HIDE DEF o, c, v
<1>4. CASE o.out = "leaf"
  <2>1. rd = "open"
    BY <1>4 DEF ReadingAfter
  <2>2. /\ Stacked(o.path, r, S) /\ o.path # <<>>
        /\ Last(o.path).node.kind = "Leaf" /\ Near(Last(o.path).node, r, k)
    BY <1>1, <1>4 DEF Landed
  <2>3. Placed(at, Last(o.path).node, k)
    BY <1>4 DEF o
  <2>4. GoesOn(c, k, r, S)
    BY <1>3, <2>2, <2>3 DEF GoesOn, Stands
  <2>5. Owes(due, <<>>, k, r)
    BY <1>2 DEF Owes
  <2>6. Goes(c, <<>>, v)
    BY <1>3, <2>4, <2>5 DEF Goes
  <2>7. Reads(c, rd, <<>>, v)
    BY <1>2, <1>3, <2>1, <2>6 DEF Reads
  <2>8. Unharmed(c, rd)
    BY <1>3, <2>1, <2>2 DEF Unharmed
  <2>. QED
    BY <2>7, <2>8 DEF o, c, v
<1>5. CASE o.out = "ChunkNotFound"
  <2>1. rd = "rejected"
    BY <1>5 DEF ReadingAfter
  <2>2. Reads(c, rd, <<>>, v)
    BY <1>2, <1>3, <2>1 DEF Reads
  <2>3. ~(ChunksUnder(r) \subseteq T)
    BY <1>1, <1>5, ChunksOf DEF Landed
  <2>. QED
    BY <2>2, <2>3 DEF o, c, v
<1>. QED
  BY <1>1, <1>4, <1>5 DEF Landed

\* An empty tree has been read when it is opened.
LEMMA OpenNothing ==
  ASSUME NEW c, c.path = <<>>, NEW due, DOMAIN due = {}
  PROVE  /\ Reads(c, "open", <<>>, [root |-> None, due |-> due])
         /\ Unharmed(c, "open")
<1>1. FaithfulTo(due, <<>>) /\ KeysOf(<<>>) = {}
  BY FaithfulAtFirst
<1>2. Through(c, <<>>, [root |-> None, due |-> due])
  BY DEF Through
<1>. QED
  BY <1>1, <1>2 DEF Reads, Unharmed

\* cursorStart and seek, on a tree that is well formed or empty.
LEMMA StartReads ==
  ASSUME NEW r, r # None => \E S : Fit(S) /\ r \in NodesIn(S), NEW T
  PROVE  LET o == NewAtStart(r, T)
         IN  /\ Reads(o.cursor, ReadingAfter(o.out), <<>>, [root |-> r, due |-> MapOf(r)])
             /\ ChunksUnder(r) \subseteq T => Unharmed(o.cursor, ReadingAfter(o.out))
<1>. DEFINE opened == Open(r, Leftmost, T)
            o == NewAtStart(r, T)
<1>1. o.out = opened.out /\ o.cursor = [path |-> opened.path, at |-> 1]
  BY DEF NewAtStart, Outcome
<1>2. CASE r = None
  <2>1. opened = [path |-> <<>>, out |-> "end"]
    BY <1>2 DEF Open
  <2>2. o.cursor.path = <<>> /\ o.out = "end" /\ ReadingAfter(o.out) = "open"
    BY <1>1, <2>1 DEF ReadingAfter
  <2>3. DOMAIN MapOf(r) = {}
    BY <1>2 DEF MapOf
  <2>. HIDE DEF o
  <2>. QED
    BY <1>2, <2>2, <2>3, OpenNothing DEF o
<1>3. CASE r # None
  <2>1. PICK S : Fit(S) /\ r \in NodesIn(S)
    BY <1>3
  <2>. DEFINE k == LowKey(r)
  <2>2. k \in Int /\ \A x \in StoredIn(r) : k <= x.key
    BY <2>1, NodeRange
  <2>3. DOMAIN MapOf(r) = {e.key : e \in StoredIn(r)}
    BY <1>3, <2>1, MapIs
  <2>4. DOMAIN MapOf(r) = {x \in DOMAIN MapOf(r) : k <= x}
    <3>. HIDE DEF k
    <3>. QED
      BY <2>2, <2>3
  <2>5. PartOfMap(MapOf(r), r)
    BY DEF PartOfMap
  <2>6. Seeks(Leftmost, r, k, r)
    BY <2>2 DEF Seeks
  <2>. HIDE DEF k, opened
  <2>7. opened.out = "leaf" => Placed(1, Last(opened.path).node, k)
    <3>. SUFFICES ASSUME opened.out = "leaf"
                  PROVE  Placed(1, Last(opened.path).node, k)
      OBVIOUS
    <3>. DEFINE n == Last(opened.path).node
    <3>1. Landed(opened, Leftmost, k, r, S, T)
      BY <1>3, <2>1, <2>2, <2>6, OpenLands DEF opened
    <3>2. n.kind = "Leaf" /\ Near(n, r, k) /\ k <= LowKey(n) /\ n \in Part(r, S)
      BY <3>1, LastIsPart DEF Landed, Seeks, Leftmost, Rightmost, Toward
    <3>3. Stands(1, n, k, r)
      BY <2>1, <2>2, <3>2, StandsFirst
    <3>. QED
      BY <3>3 DEF Stands
  <2>8. /\ Reads([path |-> opened.path, at |-> 1], ReadingAfter(opened.out), <<>>,
                 [root |-> r, due |-> MapOf(r)])
        /\ ChunksUnder(r) \subseteq T =>
             Unharmed([path |-> opened.path, at |-> 1], ReadingAfter(opened.out))
    BY <1>3, <2>1, <2>2, <2>4, <2>5, <2>6, <2>7, OpenReads DEF opened
  <2>. HIDE DEF o
  <2>. QED
    BY <1>1, <2>8 DEF o
<1>. QED
  BY <1>2, <1>3

LEMMA SeekReads ==
  ASSUME NEW r, r # None => \E S : Fit(S) /\ r \in NodesIn(S), NEW k \in Keys, NEW T
  PROVE  LET o == NewAtKey(r, k, T)
         IN  /\ Reads(o.cursor, ReadingAfter(o.out), <<>>, [root |-> r, due |-> MapFrom(r, k)])
             /\ ChunksUnder(r) \subseteq T => Unharmed(o.cursor, ReadingAfter(o.out))
<1>. DEFINE opened == Open(r, Toward(k), T)
            at == IF opened.out = "leaf" THEN KeyPosition(Last(opened.path).node.entries, k) ELSE 1
            o == NewAtKey(r, k, T)
            due == MapFrom(r, k)
<1>0. k \in Int
  BY KeysAssumption
<1>1. o.out = opened.out /\ o.cursor = [path |-> opened.path, at |-> at]
  BY DEF NewAtKey, Outcome
<1>2. /\ DOMAIN due = {x \in DOMAIN MapOf(r) : x >= k}
      /\ \A x \in DOMAIN due : due[x] = MapOf(r)[x]
  BY DEF MapFrom
<1>. HIDE DEF due
<1>3. CASE r = None
  <2>1. opened = [path |-> <<>>, out |-> "end"]
    BY <1>3 DEF Open
  <2>. HIDE DEF at
  <2>2. o.cursor.path = <<>> /\ o.out = "end" /\ ReadingAfter(o.out) = "open"
    BY <1>1, <2>1 DEF ReadingAfter
  <2>3. DOMAIN due = {}
    BY <1>2, <1>3 DEF MapOf
  <2>. HIDE DEF o
  <2>. QED
    BY <1>3, <2>2, <2>3, OpenNothing DEF o, due
<1>4. CASE r # None
  <2>1. PICK S : Fit(S) /\ r \in NodesIn(S)
    BY <1>4
  <2>2. DOMAIN MapOf(r) = {e.key : e \in StoredIn(r)} /\ \A x \in StoredIn(r) : x.key \in Int
    BY <1>4, <2>1, MapIs, NodeRange
  <2>3. DOMAIN due = {x \in DOMAIN MapOf(r) : k <= x}
    BY <1>0, <1>2, <2>2
  <2>4. PartOfMap(due, r)
    BY <1>2 DEF PartOfMap
  <2>5. Seeks(Toward(k), r, k, r)
    BY DEF Seeks
  <2>. HIDE DEF opened, at
  <2>6. opened.out = "leaf" => Placed(at, Last(opened.path).node, k)
    <3>. SUFFICES ASSUME opened.out = "leaf"
                  PROVE  Placed(at, Last(opened.path).node, k)
      OBVIOUS
    <3>. DEFINE n == Last(opened.path).node
    <3>1. Landed(opened, Toward(k), k, r, S, T)
      BY <1>0, <1>4, <2>1, <2>5, OpenLands DEF opened
    <3>2. n.kind = "Leaf" /\ n \in Part(r, S)
      BY <3>1, LastIsPart DEF Landed
    <3>3. n.entries \in Seq(LeafEntries(S)) /\ InOrder(n.entries) /\ Sound(S)
      BY <2>1, <3>2, LeafIs DEF Fit
    <3>4. at = KeyPosition(n.entries, k)
      BY DEF at
    <3>. HIDE DEF n
    <3>5. at \in 1..(Len(n.entries) + 1)
      BY <1>0, <3>3, <3>4, KeyPositionRange
    <3>6. \A i \in DOMAIN n.entries : n.entries[i].key < k <=> i < at
      BY <1>0, <3>3, <3>4, KeyPositionIs
    <3>. QED
      BY <3>5, <3>6 DEF Placed, n
  <2>7. /\ Reads([path |-> opened.path, at |-> at], ReadingAfter(opened.out), <<>>,
                 [root |-> r, due |-> due])
        /\ ChunksUnder(r) \subseteq T =>
             Unharmed([path |-> opened.path, at |-> at], ReadingAfter(opened.out))
    BY <1>0, <1>4, <2>1, <2>3, <2>4, <2>5, <2>6, OpenReads DEF opened
  <2>. HIDE DEF o
  <2>. QED
    BY <1>1, <2>7 DEF o, due
<1>. QED
  BY <1>3, <1>4
-----------------------------------------------------------------------------
(***************************************************************************)
(* The specification.                                                      *)
(***************************************************************************)
\* The tree of a handle is empty, or one whose chunks were once stored together
\* and well formed; some of them may have been taken since.
TreeFit == root # None => \E S : Fit(S) /\ root \in NodesIn(S)

CursorInv ==
  /\ Reads(cursor, reading, got, version)
  /\ kept => ChunksUnder(version.root) \subseteq store /\ Unharmed(cursor, reading)

LEMMA CursorInvInit == CursorInit => CursorInv
<1>. SUFFICES ASSUME CursorInit
              PROVE  CursorInv
  OBVIOUS
<1>1. /\ cursor.path = <<>> /\ reading = "none" /\ got = <<>>
      /\ version.root = None /\ version.due = MapOf(None)
  BY DEF CursorInit, NoCursor
<1>2. FaithfulTo(version.due, got)
  BY <1>1, FaithfulAtFirst
<1>3. Reads(cursor, reading, got, version)
  BY <1>1, <1>2 DEF Reads
<1>4. ChunksUnder(version.root) \subseteq store /\ Unharmed(cursor, reading)
  BY <1>1 DEF ChunksUnder, Unharmed
<1>. QED
  BY <1>3, <1>4 DEF CursorInv

LEMMA CursorInvNext ==
  TreeFit /\ CursorInv /\ [CursorCall \/ Meanwhile]_<<sharedVars, cursorVars, kept>> => CursorInv'
<1>. SUFFICES ASSUME TreeFit, CursorInv,
                     [CursorCall \/ Meanwhile]_<<sharedVars, cursorVars, kept>>
              PROVE  CursorInv'
  OBVIOUS
<1>1. CASE CursorStart /\ UNCHANGED sharedVars
  <2>. DEFINE o == NewAtStart(root, store)
  <2>1. /\ cursor' = o.cursor /\ reading' = ReadingAfter(o.out) /\ got' = <<>>
        /\ version' = [root |-> root, due |-> MapOf(root)]
        /\ kept' = (ChunksUnder(root) \subseteq store) /\ store' = store
    BY <1>1 DEF CursorStart, Opened, ReadingAfter, sharedVars
  <2>2. /\ Reads(o.cursor, ReadingAfter(o.out), <<>>, [root |-> root, due |-> MapOf(root)])
        /\ ChunksUnder(root) \subseteq store => Unharmed(o.cursor, ReadingAfter(o.out))
    BY StartReads DEF TreeFit
  <2>3. version'.root = root
    BY <2>1
  <2>. HIDE DEF o
  <2>. QED
    BY <2>1, <2>2, <2>3 DEF CursorInv
<1>2. ASSUME NEW k \in Keys, Seek(k), UNCHANGED sharedVars
      PROVE  CursorInv'
  <2>. DEFINE o == NewAtKey(root, k, store)
  <2>1. /\ cursor' = o.cursor /\ reading' = ReadingAfter(o.out) /\ got' = <<>>
        /\ version' = [root |-> root, due |-> MapFrom(root, k)]
        /\ kept' = (ChunksUnder(root) \subseteq store) /\ store' = store
    BY <1>2 DEF Seek, Opened, ReadingAfter, sharedVars
  <2>2. /\ Reads(o.cursor, ReadingAfter(o.out), <<>>, [root |-> root, due |-> MapFrom(root, k)])
        /\ ChunksUnder(root) \subseteq store => Unharmed(o.cursor, ReadingAfter(o.out))
    BY SeekReads DEF TreeFit
  <2>3. version'.root = root
    BY <2>1
  <2>. HIDE DEF o
  <2>. QED
    BY <2>1, <2>2, <2>3 DEF CursorInv
<1>3. CASE CursorNext /\ UNCHANGED sharedVars
  <2>. DEFINE next == NextInScan(cursor, DefaultArgs, store)
              rd2  == IF next.out = "item" THEN "open" ELSE next.out
              g2   == IF next.out = "item" THEN Append(got, next.item) ELSE got
  <2>1. /\ reading \notin {"none", "rejected"}
        /\ cursor' = next.cursor /\ reading' = rd2 /\ got' = g2
        /\ version' = version /\ kept' = kept /\ store' = store
    BY <1>3 DEF CursorNext, sharedVars
  <2>2. /\ Reads(next.cursor, rd2, g2, version)
        /\ ChunksUnder(version.root) \subseteq store /\ Unharmed(cursor, reading)
             => Unharmed(next.cursor, rd2)
    BY <2>1, NextReads DEF CursorInv
  <2>. HIDE DEF next, rd2, g2
  <2>. QED
    BY <2>1, <2>2 DEF CursorInv
<1>4. CASE Meanwhile
  BY <1>4 DEF Meanwhile, cursorVars, CursorInv
<1>5. CASE UNCHANGED <<sharedVars, cursorVars, kept>>
  BY <1>5 DEF sharedVars, cursorVars, CursorInv
<1>. QED
  BY <1>1, <1>2, <1>3, <1>4, <1>5 DEF CursorCall

LEMMA CursorInvMeans == CursorInv => CursorFaithful /\ CursorKept
<1>. SUFFICES ASSUME CursorInv
              PROVE  CursorFaithful /\ CursorKept
  OBVIOUS
<1>1. /\ FaithfulTo(version.due, got)
      /\ reading = "done" => DOMAIN version.due \subseteq KeysOf(got)
  BY DEF CursorInv, Reads
<1>2. Given = KeysOf(got)
  BY DEF Given, KeysOf
<1>3. ToSet(got) \subseteq Items(version.due)
  BY <1>1, ToSetIs DEF FaithfulTo
<1>4. CursorFaithful
  BY <1>1, <1>2, <1>3 DEF CursorFaithful, FaithfulTo, Items
<1>5. CursorKept
  BY DEF CursorInv, Unharmed, CursorKept
<1>. QED
  BY <1>4, <1>5

(***************************************************************************)
(* A cursor gives the entries of the version it was opened on, in order,   *)
(* none twice and none left out, whatever becomes of the tree and of its   *)
(* store while it is read.                                                 *)
(***************************************************************************)
THEOREM CursorStaysFaithful == CursorSpec /\ []TreeFit => []CursorFaithful
<1>. QED
  BY CursorInvInit, CursorInvNext, CursorInvMeans, PTL DEF CursorSpec

(***************************************************************************)
(* It fails only if chunks of that version were taken.                     *)
(***************************************************************************)
THEOREM CursorStaysKept == CursorSpec /\ []TreeFit => []CursorKept
<1>. QED
  BY CursorInvInit, CursorInvNext, CursorInvMeans, PTL DEF CursorSpec
-----------------------------------------------------------------------------
(***************************************************************************)
(* A store that is closed under references: there it is enough that the    *)
(* root of the version is kept.                                            *)
(***************************************************************************)
\* All chunks of a tree of a closed store are stored.
LEMMA RootHasAll ==
  ASSUME NEW S, Fit(S), NEW r \in NodesIn(S)
  PROVE  ChunksUnder(r) \subseteq S
<1>1. NodesUnder(r) \subseteq S
  BY DescendantsStored DEF NodesUnder, NodesIn, Fit
<1>2. StoredIn(r) \subseteq LeafEntries(S)
  BY NodeKeeps DEF Fit
<1>3. \A e \in StoredIn(r) : ReprChunks(e.value) \subseteq S
  BY <1>2 DEF LeafEntries
<1>. QED
  BY <1>1, <1>3 DEF ChunksUnder

StoreFit == Fit(store) /\ root \in NodesIn(store) \cup {None}

\* No collection took the root of the cursor's version.
RootKept == version.root \in store \cup {None}

VersionKept == kept /\ (version.root = None \/ IsNode(version.root))

LEMMA VersionKeptNext ==
  ASSUME StoreFit, StoreFit', RootKept', VersionKept,
         [CursorCall \/ Meanwhile]_<<sharedVars, cursorVars, kept>>
  PROVE  VersionKept'
<1>1. ASSUME NEW S, Fit(S), NEW r \in S \cup {None}, r = None \/ IsNode(r)
      PROVE  ChunksUnder(r) \subseteq S
  <2>1. CASE r = None
    BY <2>1 DEF ChunksUnder
  <2>2. CASE r # None
    BY <1>1, <2>2, RootHasAll DEF NodesIn
  <2>. QED
    BY <2>1, <2>2
<1>2. ASSUME NEW o, NEW due, Opened(o, due)
      PROVE  VersionKept'
  <2>1. version'.root = root /\ kept' = (ChunksUnder(root) \subseteq store)
    BY <1>2 DEF Opened
  <2>2. Fit(store) /\ root \in store \cup {None} /\ (root = None \/ IsNode(root))
    BY DEF StoreFit, NodesIn
  <2>3. ChunksUnder(root) \subseteq store
    BY <1>1, <2>2
  <2>. QED
    BY <2>1, <2>2, <2>3 DEF VersionKept
<1>3. ASSUME Meanwhile
      PROVE  VersionKept'
  <2>1. /\ version' = version /\ kept' = (kept /\ ChunksUnder(version.root) \subseteq store')
        /\ version.root = None \/ IsNode(version.root)
    BY <1>3 DEF Meanwhile, cursorVars, VersionKept
  <2>2. Fit(store') /\ version.root \in store' \cup {None}
    BY <2>1 DEF StoreFit, Fit, Sound, Ordered, RootKept
  <2>3. ChunksUnder(version.root) \subseteq store'
    BY <1>1, <2>1, <2>2
  <2>. QED
    BY <2>1, <2>3 DEF VersionKept
<1>4. CASE CursorCall
  BY <1>2, <1>4 DEF CursorCall, CursorStart, Seek, CursorNext, VersionKept
<1>5. CASE UNCHANGED <<sharedVars, cursorVars, kept>>
  BY <1>5 DEF cursorVars, VersionKept
<1>. QED
  BY <1>3, <1>4, <1>5

(***************************************************************************)
(* On a tree whose store is closed, a cursor neither fails to open nor     *)
(* fails later until a collection takes the root of its version.           *)
(***************************************************************************)
THEOREM CursorNeverFails ==
  CursorSpec /\ []StoreFit /\ []RootKept => [](reading \in {"none", "open", "done"})
<1>1. CursorInit => VersionKept
  BY DEF CursorInit, VersionKept
<1>2. /\ StoreFit /\ StoreFit' /\ RootKept' /\ VersionKept
      /\ [CursorCall \/ Meanwhile]_<<sharedVars, cursorVars, kept>>
      => VersionKept'
  BY VersionKeptNext
<1>3. CursorSpec /\ []StoreFit /\ []RootKept => []VersionKept
  BY <1>1, <1>2, PTL DEF CursorSpec
<1>4. StoreFit => TreeFit
  BY DEF StoreFit, TreeFit
<1>5. VersionKept /\ CursorKept => reading \in {"none", "open", "done"}
  BY DEF VersionKept, CursorKept
<1>. QED
  BY <1>3, <1>4, <1>5, CursorStaysKept, PTL
=============================================================================
