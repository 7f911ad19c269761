------------------------------- MODULE Cursor -------------------------------
(***************************************************************************)
(* Cursors over one version of a tree: tree/cursor.rs.                     *)
(*                                                                         *)
(* A cursor is [path, at].  `path' is the stack of loaded nodes from the   *)
(* root to a leaf, each with its index in its parent, as they were when    *)
(* they were loaded; `at' is the position of the next entry in that leaf,  *)
(* 0 before the first (usize::MAX in the code), one more than the number   *)
(* of entries behind the last.  `S' is what the store holds at the moment. *)
(*                                                                         *)
(* Positioning and stepping are functions from a cursor to an outcome      *)
(* [cursor, out]: a step that fails half way leaves the stack as it is     *)
(* then.  No operator is RECURSIVE: theorems are about this module.        *)
(***************************************************************************)
EXTENDS Node

\* The arguments of a scan; unbounded and unlimited are None.
DefaultArgs ==
  [start |-> None, start_inclusive |-> TRUE, end |-> None, end_inclusive |-> FALSE,
   reverse |-> FALSE, offset |-> 0, limit |-> None]

Dir(args) == IF args.reverse THEN -1 ELSE 1

\* The order in which a scan meets keys.
Precedes(j, k, args) == IF args.reverse THEN k < j ELSE j < k

\* All that a complete tree consists of.
ChunksUnder(hash) ==
  IF hash = None THEN {}
  ELSE NodesUnder(hash) \cup UNION {ReprChunks(e.value) : e \in StoredIn(hash)}

Outcome(path, at, out) == [cursor |-> [path |-> path, at |-> at], out |-> out]
-----------------------------------------------------------------------------
(***************************************************************************)
(* Moving the stack.                                                       *)
(***************************************************************************)
\* Where a descent goes in every node it passes.
Leftmost == [side |-> "left"]
Rightmost == [side |-> "right"]
Toward(k) == [side |-> "key", key |-> k]

Pick(children, goal) ==
  CASE goal.side = "left" -> 1
    [] goal.side = "right" -> Len(children)
    [] goal.side = "key" -> ChildIndex(children, goal.key)

Frame(children, i) == [node |-> children[i].child_hash, idx |-> i]

Under(frame, goal) == Frame(frame.node.children, Pick(frame.node.children, goal))

\* The way down from a frame: way[l] is l levels below it.
Way(frame, goal) ==
  LET way[l \in Nat] == IF l = 0 THEN frame ELSE Under(way[l - 1], goal) IN way

(***************************************************************************)
(* Push a frame and the way from it to a leaf, up to the first node that   *)
(* is not there.  A node has as many levels below it as its level says.    *)
(***************************************************************************)
Descent(path, frame, goal, S) ==
  LET way    == Way(frame, goal)
      bottom == Min({l \in 0..Level(frame.node) : way[l].node \in S => way[l].node.kind = "Leaf"})
      found  == way[bottom].node \in S
  IN  [path |-> path \o [l \in 1..(IF found THEN bottom + 1 ELSE bottom) |-> way[l - 1]],
       out  |-> IF found THEN "leaf" ELSE "ChunkNotFound"]

\* (Faulty: the last leaf below the next sibling is entered.)
AdvanceTooFar(path, dir, S) ==
  LET siblings(j) == path[j - 1].node.children
      turns == {j \in 2..Len(path) : path[j].idx + dir \in DOMAIN siblings(j)}
      top   == Max(turns)
      next  == path[top].idx + dir
  IN  IF turns = {} THEN [path |-> <<>>, out |-> "end"]
      ELSE Descent(SubSeq(path, 1, top - 1), Frame(siblings(top), next), Rightmost, S)

(***************************************************************************)
(* The neighbouring leaf: nodes are popped until one has a sibling on that *)
(* side; from there it is down along the near edge.                        *)
(***************************************************************************)
Advance(path, dir, S) ==
  LET siblings(j) == path[j - 1].node.children
      turns == {j \in 2..Len(path) : path[j].idx + dir \in DOMAIN siblings(j)}
      top   == Max(turns)
      next  == path[top].idx + dir
  IN  IF turns = {} THEN [path |-> <<>>, out |-> "end"]
      ELSE Descent(SubSeq(path, 1, top - 1), Frame(siblings(top), next),
                   IF dir = 1 THEN Leftmost ELSE Rightmost, S)

\* (Faulty: leaves are entered at their first entry in both directions.)
FarEnd(path, args) == 1

\* The near end of the leaf a path leads to.
NearEnd(path, args) == IF args.reverse THEN Len(Last(path).node.entries) ELSE 1

Open(root, goal, S) ==
  IF root = None THEN [path |-> <<>>, out |-> "end"]
  ELSE Descent(<<>>, [node |-> root, idx |-> 0], goal, S)
-----------------------------------------------------------------------------
(***************************************************************************)
(* Positioning.                                                            *)
(***************************************************************************)
NewAtStart(root, S) ==
  LET opened == Open(root, Leftmost, S) IN Outcome(opened.path, 1, opened.out)

\* (Faulty: a key that is not there cannot be sought.)
NewAtKeyThere(root, k, S) ==
  LET opened == Open(root, Toward(k), S)
  IN  IF opened.out = "leaf" /\ ~HasKey(Last(opened.path).node.entries, k)
      THEN Outcome(opened.path, 1, "KeyNotFound")
      ELSE Outcome(opened.path,
                   IF opened.out = "leaf" THEN KeyPosition(Last(opened.path).node.entries, k) ELSE 1,
                   opened.out)

NewAtKey(root, k, S) ==
  LET opened == Open(root, Toward(k), S)
  IN  Outcome(opened.path,
              IF opened.out = "leaf" THEN KeyPosition(Last(opened.path).node.entries, k) ELSE 1,
              opened.out)
-----------------------------------------------------------------------------
(***************************************************************************)
(* Stepping.                                                               *)
(***************************************************************************)
Above(k, bound, inclusive) == bound # None /\ (k > bound \/ (k = bound /\ ~inclusive))

Below(k, bound, inclusive) == bound # None /\ (k < bound \/ (k = bound /\ ~inclusive))

\* (Faulty: backwards, end_bound is not looked at.)
EndsAtStart(k, args) ==
  \/ ~args.reverse /\ Above(k, args.end, args.end_inclusive)
  \/ args.reverse /\ Above(k, args.start, args.start_inclusive)

\* The scan is over when it meets this key.
EndsAt(k, args) ==
  \/ ~args.reverse /\ Above(k, args.end, args.end_inclusive)
  \/ args.reverse /\ Above(k, args.start, args.start_inclusive)
  \/ args.reverse /\ Below(k, args.end, args.end_inclusive)

\* The entry at the cursor, whose last node is a leaf that has one there.
Yield(c, args, S) ==
  LET entry == Last(c.path).node.entries[c.at]
  IN  CASE EndsAt(entry.key, args) -> Outcome(c.path, c.at, "done")
        [] ~EndsAt(entry.key, args) /\ ~(ReprChunks(entry.value) \subseteq S) ->
             Outcome(c.path, c.at, "ChunkNotFound")
        [] OTHER -> [cursor |-> [path |-> c.path, at |-> c.at + Dir(args)], out |-> "item",
                     item |-> <<entry.key, ValueOf(entry.value)>>]

\* The entry at the cursor, or the first of the next leaf: none is empty.  A
\* stack whose last node is not a leaf is what an Advance that failed has left.
NextInScan(c, args, S) ==
  LET node  == Last(c.path).node
      moved == Advance(c.path, Dir(args), S)
  IN  CASE c.path = <<>> -> Outcome(<<>>, c.at, "done")
        [] c.path # <<>> /\ node.kind = "Internal" -> Outcome(c.path, c.at, "InternalError")
        [] c.path # <<>> /\ node.kind = "Leaf" /\ c.at \in DOMAIN node.entries ->
             Yield(c, args, S)
        [] OTHER ->
             CASE moved.out = "leaf" ->
                    Yield([path |-> moved.path, at |-> NearEnd(moved.path, args)], args, S)
               [] moved.out = "end" -> Outcome(<<>>, c.at, "done")
               [] OTHER -> Outcome(moved.path, c.at, moved.out)

\* next_in_scan_sync and what it calls repeat the asynchronous functions
\* statement by statement.
NextInScanSync(c, args, S) == NextInScan(c, args, S)
=============================================================================
