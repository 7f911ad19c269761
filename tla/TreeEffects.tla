---------------------------- MODULE TreeEffects -----------------------------
(***************************************************************************)
(* What the calls of PTree do to the tree, each in one piece: what the     *)
(* synchronous twins in TreeOps do, and the run of MCTree shows that the   *)
(* asynchronous ones do the same.  Some chunks may be missing.  Only       *)
(* min_fanout = 1 is meant here, where a delete loads no siblings.         *)
(***************************************************************************)
EXTENDS TreeOps

ASSUME NoRebalancing == \A c \in Configs : c.min_fanout = 1

(***************************************************************************)
(* What the calls do to a tree: the new root, the chunks still missing,    *)
(* and the outcome.  A chunk that is stored again is missing no more.      *)
(***************************************************************************)
RECURSIVE Loaded(_, _)

\* The nodes loaded on the way down to the leaf of a key.
Loaded(n, k) ==
  CASE n = None -> {}
    [] n # None /\ n.kind = "Leaf" -> {n}
    [] OTHER -> {n} \cup Loaded(n.children[ChildIndex(n.children, k)].child_hash, k)

Effect(hash, miss, out) == [root |-> hash, missing |-> miss, out |-> out]

Within(hash) == IF hash = None THEN {} ELSE Reach(hash)

\* What is still missing after the tree at `old' was changed to the one at `new'.
StillMissing(miss, old, new) == {chunk \in miss : chunk \in Within(new) => chunk \in Within(old)}

InsertEffect(hash, miss, c, k, v) ==
  IF Loaded(hash, k) \cap miss # {}
  THEN Effect(hash, miss \ ValueChunks(v), "ChunkNotFound")
  ELSE LET new == InsertSync(hash, k, v, c)
       IN  Effect(new, StillMissing(miss, hash, new) \ ValueChunks(v),
                  IF new # hash THEN "changed" ELSE "unchanged")

DeleteEffect(hash, miss, c, k) ==
  CASE Loaded(hash, k) \cap miss # {} -> Effect(hash, miss, "ChunkNotFound")
    [] Loaded(hash, k) \cap miss = {} /\ GetSync(hash, k) = None -> Effect(hash, miss, "absent")
    [] OTHER -> LET new == DeleteSync(hash, k, c)
                IN  Effect(new, StillMissing(miss, hash, new), "deleted")

\* (Faulty: a batch tells what its last item did.)
BatchTellsLast(hash, miss, c, items) ==
  FoldLeft(LAMBDA e, item : IF e.out = "ChunkNotFound" THEN e
                            ELSE InsertEffect(e.root, e.missing, c, item[1], item[2]),
           Effect(hash, miss, "unchanged"), items)

\* The items are inserted one after the other, up to the first that fails.
BatchEffect(hash, miss, c, items) ==
  LET last == FoldLeft(LAMBDA e, item : IF e.out = "ChunkNotFound" THEN e
                                        ELSE InsertEffect(e.root, e.missing, c, item[1], item[2]),
                       Effect(hash, miss, "unchanged"), items)
  IN  IF last.out = "ChunkNotFound" THEN last
      ELSE [last EXCEPT !.out = IF last.root # hash THEN "changed" ELSE "unchanged"]

CheckoutEffect(hash, miss, target) ==
  IF target \in miss THEN Effect(hash, miss, "ChunkNotFound")
  ELSE Effect(target, miss, IF target # hash THEN "changed" ELSE "unchanged")

TreeEffect(call, hash, miss, c) ==
  CASE call.op = "insert"      -> InsertEffect(hash, miss, c, call.key, call.value)
    [] call.op = "delete"      -> DeleteEffect(hash, miss, c, call.key)
    [] call.op = "insertBatch" -> BatchEffect(hash, miss, c, call.items)
    [] call.op = "checkout"    -> CheckoutEffect(hash, miss, call.hash)
=============================================================================
