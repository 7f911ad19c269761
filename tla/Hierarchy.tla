------------------------------ MODULE Hierarchy -------------------------------
(***************************************************************************)
(* The scan that shows a tree's structure: tree/hierarchy_cursor.rs and    *)
(* hierarchy_scan of tree/prolly_tree.rs.                                  *)
(*                                                                         *)
(* A cursor is [traversal, entries]: the nodes still to visit, each with   *)
(* its depth and the indices that lead to it, and the nodes whose entries  *)
(* are being listed, each with the index of the next one.  Indices count   *)
(* from 0, as the items show them.  The argument start_key is never read.  *)
(***************************************************************************)
EXTENDS Node

Visit(chunk, depth, path) == [chunk |-> chunk, depth |-> depth, path |-> path]

NewForHierarchyScan(root) ==
  [traversal |-> IF root = None THEN <<>> ELSE <<Visit(root, 0, <<>>)>>, entries |-> <<>>]

(***************************************************************************)
(* Items.  A leaf entry shows how its value is stored and the hash of its  *)
(* first chunk, without loading it: the size of a value that is one chunk  *)
(* is 0 when that chunk is gone.                                           *)
(***************************************************************************)
NodeItem(v) ==
  [type |-> "Node", hash |-> v.chunk, level |-> Level(v.chunk),
   num_entries |-> NumEntries(v.chunk), path_indices |-> v.path]

FirstChunk(repr) == IF repr.repr = "Chunked" THEN Head(repr.chunk_hashes) ELSE None

SizeUnknown(repr, S) ==
  repr.repr = "Chunked" /\ Len(repr.chunk_hashes) = 1 /\ ~(ReprChunks(repr) \subseteq S)

EntryItem(node, i, S) ==
  LET slot == Slots(node)[i + 1]
  IN  IF node.kind = "Internal"
      THEN [type |-> "InternalEntry", parent_hash |-> node, entry_index |-> i,
            boundary_key |-> slot.boundary_key, child_hash |-> slot.child_hash,
            num_items_subtree |-> slot.num_items_subtree]
      ELSE [type |-> "LeafEntry", parent_hash |-> node, entry_index |-> i, key |-> slot.key,
            value_hash |-> FirstChunk(slot.value), size_unknown |-> SizeUnknown(slot.value, S)]

Deeper(v, max_depth) == max_depth = None \/ v.depth < max_depth

\* (Faulty: the children of a node are visited after all nodes that wait.)
ChildrenWait(v, waiting, max_depth) ==
  LET below(i) == Visit(v.chunk.children[i].child_hash, v.depth + 1, Append(v.path, i - 1))
  IN  IF v.chunk.kind = "Internal" /\ Deeper(v, max_depth)
      THEN waiting \o [i \in DOMAIN v.chunk.children |-> below(i)]
      ELSE waiting

\* The nodes to visit after node v: first its children, left to right.
ToVisit(v, waiting, max_depth) ==
  LET below(i) == Visit(v.chunk.children[i].child_hash, v.depth + 1, Append(v.path, i - 1))
  IN  IF v.chunk.kind = "Internal" /\ Deeper(v, max_depth)
      THEN [i \in DOMAIN v.chunk.children |-> below(i)] \o waiting
      ELSE waiting

\* The next node, when no entries are left to list.
NextNode(h, max_depth, S) ==
  LET v == Head(h.traversal)
  IN  CASE h.traversal = <<>> -> [h |-> h, out |-> "done"]
        [] h.traversal # <<>> /\ v.chunk \notin S ->
             [h |-> [h EXCEPT !.traversal = Tail(@)], out |-> "ChunkNotFound"]
        [] OTHER -> [h |-> [traversal |-> ToVisit(v, Tail(h.traversal), max_depth),
                            entries |-> Append(h.entries, [node |-> v.chunk, at |-> 0])],
                     out |-> "item", item |-> NodeItem(v)]

\* next_item: entries of the front node, then the next node.
NextItem(h, max_depth, S) ==
  LET front == Head(h.entries)
  IN  CASE h.entries = <<>> -> NextNode(h, max_depth, S)
        [] h.entries # <<>> /\ front.at < NumEntries(front.node) ->
             [h |-> [h EXCEPT !.entries[1].at = @ + 1],
              out |-> "item", item |-> EntryItem(front.node, front.at, S)]
        [] OTHER -> NextNode([h EXCEPT !.entries = Tail(@)], max_depth, S)
-----------------------------------------------------------------------------
(***************************************************************************)
(* Up to n items from a cursor on, all of them if n is None, with the      *)
(* outcome of the last step.                                               *)
(***************************************************************************)
RECURSIVE Listed(_, _, _, _)

Listed(h, n, max_depth, S) ==
  LET next == NextItem(h, max_depth, S)
      rest == Listed(next.h, IF n = None THEN None ELSE n - 1, max_depth, S)
  IN  CASE n = 0 -> [items |-> <<>>, h |-> h, out |-> "ready"]
        [] n # 0 /\ next.out = "item" -> [rest EXCEPT !.items = <<next.item>> \o @]
        [] OTHER -> [items |-> <<>>, h |-> next.h, out |-> next.out]

(***************************************************************************)
(* One page: `offset' items are passed over, then up to `limit' are kept,  *)
(* and one more is asked for to know whether there is a next page.  The    *)
(* page carries no cursor for it.                                          *)
(***************************************************************************)
HierarchyScan(root, max_depth, offset, limit, S) ==
  LET skipped == Listed(NewForHierarchyScan(root), offset, max_depth, S)
      listed  == Listed(skipped.h, IF limit = None THEN None ELSE limit + 1, max_depth, S)
      more    == limit # None /\ Len(listed.items) > limit
  IN  CASE skipped.out = "done" -> [out |-> "page", items |-> <<>>, has_next_page |-> FALSE]
        [] skipped.out # "done" /\ "ChunkNotFound" \in {skipped.out, listed.out} ->
             [out |-> "ChunkNotFound"]
        [] OTHER -> [out |-> "page",
                     items |-> IF more THEN Front(listed.items) ELSE listed.items,
                     has_next_page |-> more]
===============================================================================
