------------------------------ MODULE MCReaders -------------------------------
(***************************************************************************)
(* One cursor, or one scan in pages, over a tree that a few edits and any  *)
(* number of collections change under it.                                  *)
(***************************************************************************)
EXTENDS Readers

CONSTANTS
  Scripts,    \* the calls that made the initial trees, as After takes them
  MaxEdits    \* the number of edits after that

VARIABLES
  edits,      \* how many there were
  named       \* whether each collection was told that the cursor's version is live

historyVars == <<edits, named>>

Alternating == [k \in Keys |-> IF k % 2 = 0 THEN "big" ELSE "tail"]

ReadersInit ==
  /\ config \in Configs
  /\ \E script \in Scripts : root = After(script, Alternating, config)
  /\ store = Reach(root)
  /\ CursorInit
  /\ PagingInit
  /\ edits = 0
  /\ named = TRUE

\* One reader for each behaviour.
NoReader == reading = "none" /\ pages = NoPages

OpenAt(k) ==
  /\ NoReader
  /\ IF k = None THEN CursorStart ELSE Seek(k)
  /\ UNCHANGED <<sharedVars, config, pageVars, historyVars>>

\* A page size, and what the range is bounded by.
Asked ==
  {[DefaultArgs EXCEPT !.limit = limit, !.start = bounds[1], !.start_inclusive = FALSE,
                       !.end = bounds[2]] :
     limit \in 1..2, bounds \in {<<None, None>>, <<1, 5>>}}

Ask(function, args) ==
  /\ NoReader
  /\ StartPaging(function, args)
  /\ UNCHANGED <<sharedVars, config, cursorVars, kept, historyVars>>

Edit ==
  /\ ~NoReader
  /\ edits < MaxEdits
  /\ \/ \E k \in Keys, v \in Values : Insert(k, v)
     \/ \E k \in Keys : Delete(k)
  /\ edits' = edits + 1
  /\ UNCHANGED named

CollectBut ==
  /\ ~NoReader
  /\ \E live \in SUBSET {version.root} :
       /\ Collect(live)
       /\ named' = (named /\ version.root \in live \cup {root, None})
  /\ UNCHANGED edits

Read ==
  /\ \/ CursorNext /\ UNCHANGED pageVars
     \/ NextPage /\ UNCHANGED <<cursorVars, kept>>
  /\ UNCHANGED <<sharedVars, config, historyVars>>

ReadersNext ==
  \/ \E k \in Keys \cup {None} : OpenAt(k)
  \/ \E function \in {"scanItems", "scanItemsSync"}, args \in Asked : Ask(function, args)
  \/ Edit
  \/ CollectBut
  \/ Read

ReadersSpec == ReadersInit /\ [][ReadersNext]_<<readerVars, historyVars>>

Fanout(target, min) == [target_fanout |-> target, min_fanout |-> min]
Binary == {Fanout(2, 1)}
SharedChunks == [tail |-> <<"c2">>, big |-> <<"c1", "c2">>]
\* Three levels with a gap, and two.
Gapped == {From(1, 5) \o <<-3>>, <<1, 3, 5>>}
-----------------------------------------------------------------------------
(***************************************************************************)
(* Naming a version live to every collection is enough to keep all of it,  *)
(* and so is its being current, also its data chunks and the nodes that    *)
(* other versions share: then a cursor on it never fails (CursorKept).     *)
(***************************************************************************)
NamedIsKept == named => kept
===============================================================================
