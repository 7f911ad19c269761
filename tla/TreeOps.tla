------------------------------- MODULE TreeOps -------------------------------
(***************************************************************************)
(* Whole-tree definitions, recursive over the nodes.                       *)
(*                                                                         *)
(* The first part states what a tree contains.                             *)
(* The second part is the synchronous twin of every tree operation         *)
(* (get_sync, insert_sync, delete_sync), which the repository writes out a *)
(* second time: one function from a root to a root.                        *)
(*                                                                         *)
(* Only modules that TLC checks extend this one: it is RECURSIVE.          *)
(***************************************************************************)
EXTENDS Node

RECURSIVE Content(_), Keyed(_), Reach(_)

(***************************************************************************)
(* The mapping a tree stores, read off all its leaves.                     *)
(***************************************************************************)
EmptyMap == [k \in {} |-> None]

Content(n) ==
  IF n = None THEN EmptyMap
  ELSE IF n.kind = "Leaf"
       THEN [k \in {e.key : e \in ToSet(n.entries)} |->
               ValueOf((CHOOSE e \in ToSet(n.entries) : e.key = k).value)]
       ELSE LET maps == {Content(c.child_hash) : c \in ToSet(n.children)}
            IN  [k \in UNION {DOMAIN m : m \in maps} |->
                   (CHOOSE m \in maps : k \in DOMAIN m)[k]]

\* All keys of a tree, left to right.
Keyed(n) ==
  IF n.kind = "Leaf"
  THEN [i \in DOMAIN n.entries |-> n.entries[i].key]
  ELSE FlattenSeq([i \in DOMAIN n.children |-> Keyed(n.children[i].child_hash)])

\* Everything reachable from a chunk, itself included.
Reach(chunk) == {chunk} \cup UNION {Reach(c) : c \in References(chunk)}
-----------------------------------------------------------------------------
(***************************************************************************)
(* The synchronous operations.                                             *)
(***************************************************************************)
RECURSIVE GetRec(_, _), InsertRec(_, _, _, _), DeleteRec(_, _, _)

GetRec(n, k) ==
  IF n.kind = "Leaf"
  THEN IF HasKey(n.entries, k)
       THEN ValueOf(n.entries[KeyPosition(n.entries, k)].value)
       ELSE None
  ELSE GetRec(n.children[ChildIndex(n.children, k)].child_hash, k)

GetSync(root, k) == IF root = None THEN None ELSE GetRec(root, k)

\* What a get finds when only the chunks in S can be loaded.
RECURSIVE Look(_, _, _)

Look(n, k, S) ==
  CASE n = None -> None
    [] n # None /\ n \notin S -> "ChunkNotFound"
    [] n \in S /\ n.kind = "Internal" ->
         Look(n.children[ChildIndex(n.children, k)].child_hash, k, S)
    [] OTHER -> IF \E e \in ToSet(n.entries) : e.key = k /\ ~(ReprChunks(e.value) \subseteq S)
                THEN "ChunkNotFound"
                ELSE GetRec(n, k)

\* The nodes that replace n: one, or two when it was split.
InsertRec(n, k, repr, config) ==
  IF n.kind = "Leaf"
  THEN Split(Leaf(Upsert(n.entries, k, repr)), config)
  ELSE LET idx   == ChildIndex(n.children, k)
           below == InsertRec(n.children[idx].child_hash, k, repr, config)
           node  == WithSlots(n, AfterInsert(n.children, idx,
                                             [i \in DOMAIN below |-> EntryFor(below[i])]))
       IN  IF Len(below) = 1 THEN <<node>> ELSE Split(node, config)

InsertSync(root, k, v, config) ==
  IF root = None THEN Leaf(<<[key |-> k, value |-> ValueRepr(v)]>>)
  ELSE LET top == InsertRec(root, k, ValueRepr(v), config)
       IN  IF Len(top) = 1 THEN top[1]
           ELSE Internal(Level(root) + 1, [i \in 1..2 |-> EntryFor(top[i])])

\* handle_underflow_strategy_sync and what it calls repeat the asynchronous ones
\* statement by statement.
HandleUnderflowSync(children, i, config) == HandleUnderflow(children, i, config)

\* The node that replaces n, none if it vanished.  The key is there.
DeleteRec(n, k, config) ==
  IF n.kind = "Leaf"
  THEN LET rest == RemoveKey(n.entries, k)
       IN  IF rest = <<>> THEN <<>> ELSE <<Leaf(rest)>>
  ELSE LET idx   == ChildIndex(n.children, k)
           below == DeleteRec(n.children[idx].child_hash, k, config)
           rest  == IF below = <<>> THEN RemoveAt(n.children, idx)
                    ELSE [n.children EXCEPT ![idx] = EntryFor(below[1])]
       IN  CASE rest = <<>> -> <<>>
             [] below # <<>> /\ IsUnderflow(below[1], config) ->
                  <<WithSlots(n, HandleUnderflowSync(rest, idx, config))>>
             [] OTHER -> <<WithSlots(n, rest)>>

DeleteSync(root, k, config) ==
  IF GetSync(root, k) = None THEN root
  ELSE LET top == DeleteRec(root, k, config)
       IN  CASE top = <<>> -> None
             [] top # <<>> /\ top[1].kind = "Internal" /\ NumEntries(top[1]) = 1 ->
                  top[1].children[1].child_hash
             [] OTHER -> top[1]

\* The root after a script of synchronous calls: k stores val[k] under key k,
\* -k deletes it.
After(script, val, config) ==
  FoldLeft(LAMBDA n, k : IF k > 0 THEN InsertSync(n, k, val[k], config)
                         ELSE DeleteSync(n, -k, config),
           None, script)

From(first, last) == [i \in 1..(last - first + 1) |-> first + i - 1]
=============================================================================
