---------------------------- MODULE CursorReader ----------------------------
(***************************************************************************)
(* A PTreeCursor of lib.rs (cursorStart, seek, next) over a tree that is   *)
(* edited and collected while its application walks it.                    *)
(*                                                                         *)
(* A cursor is on the version it was opened on and holds none of the       *)
(* tree's locks between two steps, so whatever has the tree's root and the *)
(* store may change them.  A call is one step: opening holds the tree's    *)
(* mutex to its end, and what a step reads in between is what it reads     *)
(* before or after, as edits only add chunks and a sweep is one operation. *)
(***************************************************************************)
EXTENDS TreeHandle, Cursor

VARIABLES
  cursor,       \* the cursor, [path, at]
  reading,      \* "none", "rejected" if it could not be opened, "open", "done" or
                \* the error of its last step
  got,          \* the entries the application got from it so far
  version,      \* what it was opened on: the root, and the map it has to give
  kept          \* whether all chunks of that version were there ever since

cursorVars == <<cursor, reading, got, version>>

NoCursor == [path |-> <<>>, at |-> 1]

\* The part of a tree's map from a key on.
MapFrom(hash, k) ==
  LET map == MapOf(hash)
  IN  [x \in {x \in DOMAIN map : x >= k} |-> map[x]]

CursorInit ==
  /\ cursor = NoCursor
  /\ reading = "none"
  /\ got = <<>>
  /\ version = [root |-> None, due |-> MapOf(None)]
  /\ kept = TRUE

Opened(outcome, due) ==
  /\ cursor' = outcome.cursor
  /\ reading' = IF outcome.out \in {"leaf", "end"} THEN "open" ELSE "rejected"
  /\ got' = <<>>
  /\ version' = [root |-> root, due |-> due]
  /\ kept' = (ChunksUnder(root) \subseteq store)

CursorStart == Opened(NewAtStart(root, store), MapOf(root))

Seek(k) == Opened(NewAtKey(root, k, store), MapFrom(root, k))

\* After an error, and after the end, the application may ask again.
CursorNext ==
  /\ reading \notin {"none", "rejected"}
  /\ \E next \in {NextInScan(cursor, DefaultArgs, store)} :
       /\ cursor' = next.cursor
       /\ reading' = IF next.out = "item" THEN "open" ELSE next.out
       /\ got' = IF next.out = "item" THEN Append(got, next.item) ELSE got
  /\ UNCHANGED <<version, kept>>

CursorCall ==
  /\ CursorStart \/ (\E k \in Keys : Seek(k)) \/ CursorNext
  /\ UNCHANGED sharedVars

\* Anything else that happens to the tree and its store.
Meanwhile ==
  /\ kept' = (kept /\ ChunksUnder(version.root) \subseteq store')
  /\ UNCHANGED cursorVars

CursorSpec == CursorInit /\ [][CursorCall \/ Meanwhile]_<<sharedVars, cursorVars, kept>>
-----------------------------------------------------------------------------
(***************************************************************************)
(* A cursor gives the entries of the version it was opened on, from the    *)
(* key it was opened at: in order, none twice, none left out, whatever is  *)
(* edited and collected meanwhile, and also when it is asked again after a *)
(* step that failed.  It reports the end only at the end.                  *)
(***************************************************************************)
Given == {item[1] : item \in ToSet(got)}

CursorFaithful ==
  /\ ToSet(got) \subseteq {<<k, version.due[k]>> : k \in DOMAIN version.due}
  /\ \A i, j \in DOMAIN got : i < j => got[i][1] < got[j][1]
  /\ \A k \in DOMAIN version.due \ Given, g \in Given : g < k
  /\ reading = "done" => DOMAIN version.due \subseteq Given

(***************************************************************************)
(* A cursor fails, to open or later, only if chunks of its version were    *)
(* taken: it asks for no other.                                            *)
(***************************************************************************)
CursorKept == reading \notin {"none", "open", "done"} => ~kept
=============================================================================
