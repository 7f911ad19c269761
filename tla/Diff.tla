--------------------------------- MODULE Diff ---------------------------------
(***************************************************************************)
(* The differences between two versions: diff.rs, which PTree.diffRoots    *)
(* calls with two roots.                                                   *)
(*                                                                         *)
(* A difference is [key, left, right], None where the code has no value.   *)
(* A walk gives a sequence of them; where a chunk cannot be loaded it      *)
(* gives Missing, and one of those makes the whole diff fail.              *)
(***************************************************************************)
EXTENDS Node

Missing == [key |-> None, left |-> None, right |-> None]

Difference(k, left, right) == [key |-> k, left |-> left, right |-> right]

Loadable(entry, S) == ReprChunks(entry.value) \subseteq S

OneSided(entry, side, S) ==
  CASE ~Loadable(entry, S) -> Missing
    [] Loadable(entry, S) /\ side = "left" -> Difference(entry.key, ValueOf(entry.value), None)
    [] OTHER -> Difference(entry.key, None, ValueOf(entry.value))

\* Both values are loaded, also if they turn out to be the same.
BothSided(entry1, entry2, S) ==
  CASE ~(Loadable(entry1, S) /\ Loadable(entry2, S)) -> <<Missing>>
    [] OTHER -> IF ValueOf(entry1.value) = ValueOf(entry2.value) THEN <<>>
                ELSE <<Difference(entry1.key, ValueOf(entry1.value), ValueOf(entry2.value))>>

\* Every entry below the nodes of a queue, as deletions (side "left") or additions.
RECURSIVE Subtrees(_, _, _)

Subtrees(queue, side, S) ==
  LET n == Head(queue)
  IN  CASE queue = <<>> -> <<>>
        [] queue # <<>> /\ n \notin S -> <<Missing>>
        [] queue # <<>> /\ n \in S /\ n.kind = "Leaf" ->
             [i \in DOMAIN n.entries |-> OneSided(n.entries[i], side, S)]
               \o Subtrees(Tail(queue), side, S)
        [] OTHER ->
             Subtrees(Tail(queue) \o [i \in DOMAIN n.children |-> n.children[i].child_hash], side, S)

SlotKey(slot) == IF "key" \in DOMAIN slot THEN slot.key ELSE slot.boundary_key

\* (Faulty: the merge ends with the last slot on the left.)
EndsWithLeft(slots1, slots2) == slots1 = <<>>

BothEnd(slots1, slots2) == slots1 = <<>> /\ slots2 = <<>>

(***************************************************************************)
(* The slots of two nodes side by side: a sorted merge on the key, which   *)
(* for the children of an internal node is their boundary.                 *)
(***************************************************************************)
RECURSIVE Merged(_, _)

Merged(slots1, slots2) ==
  LET heads == {SlotKey(Head(s)) : s \in {slots1, slots2} \ {<<>>}}
      due(s) == s # <<>> /\ SlotKey(Head(s)) = Min(heads)
      one(s) == IF due(s) THEN Head(s) ELSE None
      rest(s) == IF due(s) THEN Tail(s) ELSE s
  IN  IF BothEnd(slots1, slots2) THEN <<>>
      ELSE << <<one(slots1), one(slots2)>> >> \o Merged(rest(slots1), rest(slots2))

LeafDiff(pair, S) ==
  CASE pair[2] = None -> <<OneSided(pair[1], "left", S)>>
    [] pair[1] = None -> <<OneSided(pair[2], "right", S)>>
    [] OTHER -> BothSided(pair[1], pair[2], S)

ChildHash(child) == IF child = None THEN None ELSE child.child_hash

(***************************************************************************)
(* Equal hashes end the walk at once.  Nodes of different kinds or levels  *)
(* are not compared: the left one is deleted, the right one added.         *)
(***************************************************************************)
RECURSIVE RecursiveDiff(_, _, _)

RecursiveDiff(n1, n2, S) ==
  CASE n1 = n2 -> <<>>
    [] n1 = None /\ n2 # None -> Subtrees(<<n2>>, "right", S)
    [] n1 # None /\ n2 = None -> Subtrees(<<n1>>, "left", S)
    [] OTHER ->
         IF ~({n1, n2} \subseteq S) THEN <<Missing>>
         ELSE IF Level(n1) # Level(n2)
         THEN Subtrees(<<n1>>, "left", S) \o Subtrees(<<n2>>, "right", S)
         ELSE LET pairs == Merged(Slots(n1), Slots(n2))
              IN  FlattenSeq([i \in DOMAIN pairs |->
                    IF n1.kind = "Leaf" THEN LeafDiff(pairs[i], S)
                    ELSE RecursiveDiff(ChildHash(pairs[i][1]), ChildHash(pairs[i][2]), S)])

DiffTrees(left, right, S) ==
  LET walk == RecursiveDiff(left, right, S)
  IN  IF Missing \in ToSet(walk) THEN [out |-> "ChunkNotFound"]
      ELSE [out |-> "diffs", diffs |-> walk]
===============================================================================
