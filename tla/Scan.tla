--------------------------------- MODULE Scan ---------------------------------
(***************************************************************************)
(* Range scans, one page at a time: scan and scan_sync of                  *)
(* tree/prolly_tree.rs.                                                    *)
(*                                                                         *)
(* A scan opens a cursor on the current root, fetches what fits on the     *)
(* page and one entry more, and closes the cursor: nothing is kept between *)
(* two pages but the key the application passes on as the next start.      *)
(***************************************************************************)
EXTENDS Cursor

-----------------------------------------------------------------------------
(***************************************************************************)
(* What a scan is asked for.                                               *)
(***************************************************************************)
IsArgs(args) ==
  args \in [start : Int \cup {None}, start_inclusive : BOOLEAN,
            end : Int \cup {None}, end_inclusive : BOOLEAN,
            reverse : BOOLEAN, offset : Nat, limit : Nat \cup {None}]

\* Backwards, start_bound is the upper limit.
InRange(k, args) ==
  LET lower == IF args.reverse THEN <<args.end, args.end_inclusive>>
               ELSE <<args.start, args.start_inclusive>>
      upper == IF args.reverse THEN <<args.start, args.start_inclusive>>
               ELSE <<args.end, args.end_inclusive>>
  IN  /\ lower[1] # None => lower[1] < k \/ (lower[1] = k /\ lower[2])
      /\ upper[1] # None => k < upper[1] \/ (upper[1] = k /\ upper[2])
-----------------------------------------------------------------------------
(***************************************************************************)
(* Positioning.                                                            *)
(***************************************************************************)
\* Forwards and backwards, the scan starts from start_bound.  Backwards, a bound
\* that is not a key gives the entry before it, the first one if there is none.
StartIn(entries, args) ==
  CASE args.start = None -> IF args.reverse THEN Len(entries) ELSE 1
    [] args.start # None /\ (~args.reverse \/ HasKey(entries, args.start)) ->
         KeyPosition(entries, args.start)
    [] OTHER -> Max({1, KeyPosition(entries, args.start) - 1})

\* (Faulty: backwards, the entry at the position itself is not among them.)
AvailableBefore(c, args) ==
  IF args.reverse THEN c.at - 1 ELSE Len(Last(c.path).node.entries) + 1 - c.at

\* How many entries of its leaf a cursor has left.
Available(c, args) ==
  IF args.reverse THEN c.at ELSE Len(Last(c.path).node.entries) + 1 - c.at

\* One turn of the loop that skips entries, of which some are `due' still.
SkipMore(skipped, args, S) ==
  LET c     == skipped.cursor
      left  == Available(c, args)
      moved == Advance(c.path, Dir(args), S)
  IN  CASE skipped.due = 0 -> skipped
        [] skipped.due > 0 /\ skipped.due < left ->
             [cursor |-> [path |-> c.path, at |-> c.at + Dir(args) * skipped.due],
              out |-> "ready", due |-> 0]
        [] OTHER ->
             CASE moved.out = "leaf" ->
                    [cursor |-> [path |-> moved.path, at |-> NearEnd(moved.path, args)],
                     out |-> "ready", due |-> skipped.due - left]
               [] moved.out = "end" -> [cursor |-> [path |-> <<>>, at |-> c.at], out |-> "ready", due |-> 0]
               [] OTHER -> [cursor |-> [path |-> moved.path, at |-> c.at], out |-> moved.out, due |-> 0]

(***************************************************************************)
(* Skip n entries, across leaves, as far as there are any.  Every turn but *)
(* the first skips an entry: a cursor may have been placed behind a leaf.  *)
(***************************************************************************)
Skipping(c, n, args, S) ==
  LET skipped[turn \in Nat] ==
        IF turn = 0 THEN [cursor |-> c, out |-> "ready", due |-> n]
        ELSE SkipMore(skipped[turn - 1], args, S)
  IN  skipped

SkipOffset(c, n, args, S) == Skipping(c, n, args, S)[n + 1]

\* Only now is an exclusive start_bound stepped over.
SkipExcluded(c, args) ==
  IF /\ c.path # <<>>
     /\ args.start # None /\ ~args.start_inclusive
     /\ c.at \in DOMAIN Last(c.path).node.entries
     /\ args.start = Last(c.path).node.entries[c.at].key
  THEN [c EXCEPT !.at = @ + Dir(args)]
  ELSE c

NewForScan(root, args, S) ==
  LET opened == Open(root, CASE args.start # None -> Toward(args.start)
                             [] args.start = None /\ args.reverse -> Rightmost
                             [] OTHER -> Leftmost, S)
      at      == StartIn(Last(opened.path).node.entries, args)
      skipped == SkipOffset([path |-> opened.path, at |-> at], args.offset, args, S)
  IN  CASE opened.out = "end" -> Outcome(<<>>, 1, "ready")
        [] opened.out = "leaf" /\ skipped.out = "ready" ->
             [skipped EXCEPT !.cursor = SkipExcluded(@, args)]
        [] opened.out = "leaf" /\ skipped.out # "ready" -> skipped
        [] OTHER -> Outcome(opened.path, 1, opened.out)
\* new_for_scan_sync repeats it statement by statement.
NewForScanSync(root, args, S) == NewForScan(root, args, S)
-----------------------------------------------------------------------------
(***************************************************************************)
(* Pages.                                                                  *)
(***************************************************************************)
\* usize::MAX: no tree holds as many entries.
Unlimited(root) == IF root = None THEN 1 ELSE Cardinality(StoredIn(root)) + 1

Limit(root, args) == IF args.limit = None THEN Unlimited(root) ELSE args.limit

FailedPage(error) == [out |-> error]

\* One more entry, unless the one before could not be had.
FetchNext(fetched, args, S) ==
  LET next == NextInScan(fetched.cursor, args, S)
  IN  CASE fetched.out # "ready" -> fetched
        [] fetched.out = "ready" /\ next.out = "item" ->
             [cursor |-> next.cursor, items |-> Append(fetched.items, next.item), out |-> "ready"]
        [] OTHER -> [fetched EXCEPT !.out = next.out]

\* Up to n entries from a cursor on, with the outcome of the last step.
Fetching(c, args, S) ==
  LET fetched[n \in Nat] ==
        IF n = 0 THEN [cursor |-> c, items |-> <<>>, out |-> "ready"]
        ELSE FetchNext(fetched[n - 1], args, S)
  IN  fetched

Fetch(c, n, args, S) == Fetching(c, args, S)[n]

FirstKey(items) == IF items = <<>> THEN None ELSE Head(items)[1]

FirstOf(items, n) == SubSeq(items, 1, Min({n, Len(items)}))

LastKey(items) == IF items = <<>> THEN None ELSE Last(items)[1]

\* The entries a page is made of, one too many if there are.
Fetched(root, args, n, S) ==
  LET opened == NewForScan(root, args, S)
  IN  IF opened.out = "ready" THEN Fetch(opened.cursor, n, args, S)
      ELSE [items |-> <<>>, out |-> opened.out]

Failed(fetched) == fetched.out \notin {"ready", "done"}

\* The page of a limit, of which the key of entry `named' is handed on.
Page(fetched, limit, named, has_previous_page) ==
  LET more == Len(fetched.items) > limit
  IN  IF Failed(fetched) THEN FailedPage(fetched.out)
      ELSE [out |-> "page",
            items |-> FirstOf(fetched.items, limit),
            has_next_page |-> more,
            has_previous_page |-> has_previous_page,
            next_page_cursor |-> IF more THEN LastKey(FirstOf(fetched.items, named)) ELSE None,
            previous_page_cursor |-> FirstKey(fetched.items)]

\* (Faulty: the cursor names the last entry of the page.)
ScanRepeats(root, args, S) ==
  LET limit == Limit(root, args)
  IN  Page(Fetched(root, args, IF limit = 0 THEN 0 ELSE limit + 1, S), limit, limit,
           args.offset > 0 \/ args.start # None)

(***************************************************************************)
(* The cursor of the next page is the key of its first entry.  A limit of  *)
(* 0 fetches nothing, so it never finds a next page.                       *)
(***************************************************************************)
Scan(root, args, S) ==
  LET limit == Limit(root, args)
  IN  Page(Fetched(root, args, IF limit = 0 THEN 0 ELSE limit + 1, S), limit, limit + 1,
           args.offset > 0 \/ args.start # None)

(***************************************************************************)
(* The synchronous scan drops the entry too many first: the cursor is the  *)
(* key of the last entry of this page, none if the page is empty.          *)
(***************************************************************************)
ScanSync(root, args, S) ==
  LET limit == Limit(root, args)
  IN  Page(Fetched(root, args, limit + 1, S), limit, limit,
           args.offset > 0 \/ (args.start # None /\ args.reverse))
===============================================================================
