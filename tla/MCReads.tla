------------------------------- MODULE MCReads --------------------------------
(***************************************************************************)
(* Single reads of a tree, with all arguments: pages of scans and          *)
(* hierarchy scans, diffs with another version, files.  A chunk of the     *)
(* tree may be lost, as in a tree loaded from an incomplete export.        *)
(***************************************************************************)
EXTENDS Reads, Hierarchy, Diff, TreeOps

CONSTANTS
  Scripts,    \* the calls that make the trees, as After takes them
  Bounds,     \* the keys a scan may be bounded by
  Offsets     \* the offsets of a page

VARIABLE
  items      \* the entries of the tree, left to right

singleVars == <<readVars, items>>

Quiet == [op |-> "none"]

\* The entries of a tree, left to right.
Items(n) ==
  IF n = None THEN <<>> ELSE [i \in DOMAIN Keyed(n) |-> <<Keyed(n)[i], GetRec(n, Keyed(n)[i])>>]

ChunksOf(n) == IF n = None THEN {} ELSE Reach(n)

Alternating == [k \in Keys |-> IF k % 2 = 0 THEN "big" ELSE "tail"]
AllBig == [k \in Keys |-> "big"]

SingleInit ==
  /\ config \in Configs
  /\ \E script \in Scripts : root = After(script, Alternating, config)
  /\ \E all \in {ChunksOf(root)} :
       \E lost \in all \cup {None} : store = all \ {lost}
  /\ items = Items(root)
  /\ request = Quiet
  /\ reply = Quiet

Complete == store = ChunksOf(root)

HierarchyPage(max_depth, offset, limit) ==
  Replies([op |-> "hierarchyScan", max_depth |-> max_depth, offset |-> offset, limit |-> limit],
          HierarchyScan(root, max_depth, offset, limit, store))

DiffRoots(other) ==
  /\ Complete
  /\ \E all \in {store \cup ChunksOf(other)} :
       \E lost \in all \cup {None} :
         Replies([op |-> "diffRoots", other |-> other, lost |-> lost],
                 DiffTrees(root, other, all \ {lost}))

\* What may happen to a file: any field is no longer what it was, a number is
\* another one, the end is cut off.
Damages(file) ==
  LET wrong(cell) ==
        IF cell[1] # "number" THEN {<<"damaged", None>>}
        ELSE {Number(n) : n \in {0, cell[2] - 1, cell[2] + 1, Len(file), Len(file) + 1} \cap Nat}
  IN  UNION {{<<"cell", i, cell>> : cell \in wrong(file[i])} : i \in DOMAIN file}
        \cup {<<"cut", n>> : n \in 0..(Len(file) - 1)}

\* A set in a fixed order, such as that of hashes.
Sorted(S) == FoldSet(LAMBDA c, seq : Append(seq, c), <<>>, S)

\* The store may hold another version too; its chunks come in the order of their
\* hashes, or in the opposite one.
SaveAndLoad(other) ==
  /\ Complete
  /\ \E chunks \in {Sorted(store \cup ChunksOf(other))} :
       \E order \in {chunks, Reverse(chunks)} :
         \E file \in {SaveTreeToFileBytes(root, config, order, chunks, "a description")} :
           \E damage \in Damages(file) \cup {Intact} : LoadFile(ToSet(chunks), file, damage)

Again ==
  /\ request # Quiet
  /\ request' = Quiet
  /\ reply' = Quiet
  /\ UNCHANGED <<config, root, store, items>>

\* What a scan may be asked for; an incomplete tree is asked for less.
BoundsGiven(inclusive_default) ==
  {<<None, inclusive_default>>} \cup (Bounds \X BOOLEAN)

Arguments ==
  {[start |-> from[1], start_inclusive |-> from[2], end |-> to[1], end_inclusive |-> to[2],
    reverse |-> backwards, offset |-> n, limit |-> most] :
     from \in BoundsGiven(TRUE), to \in BoundsGiven(FALSE), backwards \in BOOLEAN,
     n \in Offsets, most \in IF Complete THEN {None, 0, 1, 2} ELSE {None, 2}}

Versions == {After(script, val, config) : script \in Scripts, val \in {Alternating, AllBig}}

AnyRead ==
  /\ request = Quiet
  /\ UNCHANGED items
  /\ \/ \E args \in Arguments : ScanItems(args) \/ ScanItemsSync(args)
     \/ \E max_depth \in {None, 0, 1}, offset \in 0..12, limit \in {None, 0, 1, 7} :
          HierarchyPage(max_depth, offset, limit)
     \/ \E other \in Versions : DiffRoots(other)
     \/ \E other \in {None, After(<<2, 4>>, AllBig, config)} : SaveAndLoad(other)

SingleNext == AnyRead \/ Again

SingleSpec == SingleInit /\ [][SingleNext]_singleVars

Fanout(target, min) == [target_fanout |-> target, min_fanout |-> min]
Pairs == {Fanout(2, 1), Fanout(4, 2)}
SharedChunks == [tail |-> <<"c2">>, big |-> <<"c1", "c2">>]
\* With fanout (2, 1), up to three levels; gaps within leaves, between them, at the ends.
Gapped ==
  {<<>>, <<4>>, <<2, 4>>, <<2, 4, 6>>, <<1, 2, 4, 6, 7>>, From(1, 7) \o <<-3, -5>>, From(1, 7)}
-----------------------------------------------------------------------------
(***************************************************************************)
(* Scans.                                                                  *)
(***************************************************************************)
InDirection(args) == IF args.reverse THEN Reverse(items) ELSE items

Selected(args) == SelectSeq(InDirection(args), LAMBDA item : InRange(item[1], args))

(***************************************************************************)
(* The offset counts entries from start_bound on, also that of an excluded *)
(* start_bound itself.                                                     *)
(***************************************************************************)
Passed(args) ==
  LET counted == Selected([args EXCEPT !.start_inclusive = TRUE])
      passed  == SubSeq(counted, args.offset + 1, Len(counted))
  IN  SelectSeq(passed, LAMBDA item : InRange(item[1], args))

(***************************************************************************)
(* A page, of either twin, is exactly the entries in range after the       *)
(* offset up to the limit; it knows whether more follow, and its cursor    *)
(* leads to the first of those: it is that one's key, or the key before it *)
(* for the synchronous scan.                                               *)
(***************************************************************************)
ScanExact ==
  Scanned /\ StartFound(MapOf(root), request.args) /\ reply.out = "page" =>
    LET args == request.args
        rest == Passed(args)
        n    == IF args.limit = None THEN Len(rest) ELSE Min({args.limit, Len(rest)})
        sync == request.op = "scanItemsSync"
        more == Len(rest) > n /\ (args.limit > 0 \/ sync)
    IN  /\ reply.items = SubSeq(rest, 1, n)
        /\ reply.has_next_page = more
        /\ reply.next_page_cursor =
             IF more /\ (n > 0 \/ ~sync) THEN rest[IF sync THEN n ELSE n + 1][1] ELSE None

(***************************************************************************)
(* "bounded range scans with support for limits, offsets, and forward/     *)
(* reverse iteration": a scan backwards gives what a scan forwards gives   *)
(* under the same limits, in the other order.                              *)
(***************************************************************************)
ReverseMirrors ==
  Scanned /\ Complete /\ request.args.limit = None /\ request.args.offset = 0 =>
    reply.items = Selected(request.args)
-----------------------------------------------------------------------------
(***************************************************************************)
(* Hierarchy scans.                                                        *)
(***************************************************************************)
\* The walk a hierarchy scan is a part of: a node, its entries, its children.
RECURSIVE Walk(_, _)

Walk(v, max_depth) ==
  LET n == v.chunk
      below(i) == Visit(n.children[i].child_hash, v.depth + 1, Append(v.path, i - 1))
  IN  <<NodeItem(v)>>
        \o [i \in 1..NumEntries(n) |-> EntryItem(n, i - 1, store)]
        \o (IF n.kind = "Leaf" \/ ~Deeper(v, max_depth) THEN <<>>
            ELSE FlattenSeq([i \in DOMAIN n.children |-> Walk(below(i), max_depth)]))

(***************************************************************************)
(* The pages of a hierarchy scan are parts of one walk through the tree,   *)
(* each node before its entries and these before its children: offsets     *)
(* join them without gap or overlap, and each knows whether more follows.  *)
(* A scan fails only if a node is lost, never for a lost value.            *)
(***************************************************************************)
HierarchyExact ==
  request.op = "hierarchyScan" =>
    LET walk == IF root = None THEN <<>> ELSE Walk(Visit(root, 0, <<>>), request.max_depth)
        rest == SubSeq(walk, request.offset + 1, Len(walk))
        n    == IF request.limit = None THEN Len(rest) ELSE Min({request.limit, Len(rest)})
    IN  IF reply.out = "page"
        THEN reply.items = SubSeq(rest, 1, n) /\ reply.has_next_page = (Len(rest) > n)
        ELSE \E node \in NodesIn(Reach(root)) : node \notin store
-----------------------------------------------------------------------------
(***************************************************************************)
(* Diffs.                                                                  *)
(***************************************************************************)
Value(n, k) == GetSync(n, k)

Reported(k) == SelectSeq(reply.diffs, LAMBDA d : d.key = k)

\* The values reported for one side.
Sides(seq) == SelectSeq(seq, LAMBDA v : v # None)

(***************************************************************************)
(* A diff accounts for each key: one whose value differs is reported, and  *)
(* what is reported of a key, in one difference or as a deletion and an    *)
(* addition, is its value on each side, once.  It fails only for a lost    *)
(* chunk and never reports less instead.                                   *)
(***************************************************************************)
DiffAccounts ==
  request.op = "diffRoots" =>
    IF reply.out = "diffs"
    THEN \A k \in Keys :
           LET reported == Reported(k)
               left     == Value(root, k)
               right    == Value(request.other, k)
           IN  /\ left # right => reported # <<>>
               /\ reported # <<>> =>
                    /\ Sides([i \in DOMAIN reported |-> reported[i].left]) = Sides(<<left>>)
                    /\ Sides([i \in DOMAIN reported |-> reported[i].right]) = Sides(<<right>>)
    ELSE request.lost # None

(***************************************************************************)
(* "Value in the 'left' (or 'from') tree. None if added.": a difference    *)
(* without a left value is about a key the left tree does not have.        *)
(***************************************************************************)
NoneIfAdded ==
  request.op = "diffRoots" /\ reply.out = "diffs" =>
    \A d \in ToSet(reply.diffs) : d.left = None => Value(root, d.key) = None
===============================================================================
