-------------------------------- MODULE Reads ---------------------------------
(***************************************************************************)
(* Single reads of a tree: pages of scanItems and scanItemsSync, and a     *)
(* tree that is saved and loaded again.  What happened to the file         *)
(* meanwhile is an input.  Between two reads the tree may become another   *)
(* one, and chunks of it may be gone.                                      *)
(***************************************************************************)
EXTENDS TreeHandle, Scan, FileFormat

VARIABLES
  config,
  request,   \* the read made last
  reply

readVars == <<config, sharedVars, request, reply>>

Replies(asked, out) ==
  /\ request' = asked
  /\ reply' = out
  /\ UNCHANGED <<config, sharedVars>>
-----------------------------------------------------------------------------
(***************************************************************************)
(* Pages of a scan.                                                        *)
(***************************************************************************)
ScanItems(args) ==
  /\ IsArgs(args)
  /\ Replies([op |-> "scanItems", args |-> args], Scan(root, args, store))

ScanItemsSync(args) ==
  /\ IsArgs(args)
  /\ Replies([op |-> "scanItemsSync", args |-> args], ScanSync(root, args, store))

ScanStep == \E args : ScanItems(args) \/ ScanItemsSync(args)
-----------------------------------------------------------------------------
(***************************************************************************)
(* Files.                                                                  *)
(***************************************************************************)
\* What a field of a file can hold: numbers there are unsigned.
IsCell(c) == c[1] = "number" => c[2] \in Nat

\* What may happen to a file: nothing, a field is overwritten, the end is cut off.
Intact == <<"intact">>

IsDamage(damage, file) ==
  \/ damage = Intact
  \/ damage[1] = "cell" /\ damage[2] \in DOMAIN file /\ IsCell(damage[3])
  \/ damage[1] = "cut" /\ damage[2] \in 0..(Len(file) - 1)

WithDamage(file, damage) ==
  CASE damage[1] = "intact" -> file
    [] damage[1] = "cell" -> [file EXCEPT ![damage[2]] = damage[3]]
    [] damage[1] = "cut" -> SubSeq(file, 1, damage[2])

\* chunks is what was in the store that was saved as file.
LoadFile(chunks, file, damage) ==
  /\ IsDamage(damage, file)
  /\ Replies([op |-> "file", chunks |-> chunks,
              damaged |-> damage # Intact /\ WithDamage(file, damage) # file],
             LoadTreeFromFileBytes(WithDamage(file, damage)))

\* All of S, one after the other.
Lists(seq, S) == seq \in Seq(S) /\ IsInjective(seq) /\ ToSet(seq) = S

\* The tree is saved from a store that holds it, whatever else that holds.
SavedAs(file, chunks) ==
  /\ root \in chunks \cup {None}
  /\ \E order, by_hash, description :
       /\ Lists(order, chunks) /\ Lists(by_hash, chunks)
       /\ file = SaveTreeToFileBytes(root, config, order, by_hash, description)

FileStep == \E chunks, file, damage : SavedAs(file, chunks) /\ LoadFile(chunks, file, damage)
-----------------------------------------------------------------------------
OtherStep == request'.op \notin {"scanItems", "scanItemsSync", "file"}

ReadsSpec ==
  /\ request.op \notin {"scanItems", "scanItemsSync", "file"}
  /\ [][ScanStep \/ FileStep \/ OtherStep]_readVars
-----------------------------------------------------------------------------
(***************************************************************************)
(* What a scan promises.                                                   *)
(***************************************************************************)
Scanned == request.op \in {"scanItems", "scanItemsSync"}

Chosen(map, args) == {k \in DOMAIN map : InRange(k, args)}

KeysGiven(page) == {item[1] : item \in ToSet(page.items)}

AtMost(args, n) == args.limit = None \/ n <= args.limit

\* Before and after all of a page's entries.
Behind(k, page, args) == \A j \in KeysGiven(page) : Precedes(k, j, args)

Beyond(k, page, args) == \A j \in KeysGiven(page) : Precedes(j, k, args)

\* Entries of the tree within the bounds, in the direction asked for, no more
\* than asked for and none between them left out.
FaithfulPage(page, map, args) ==
  /\ \A item \in ToSet(page.items) : item[1] \in Chosen(map, args) /\ item = <<item[1], map[item[1]]>>
  /\ \A i, j \in DOMAIN page.items :
       i < j => Precedes(page.items[i][1], page.items[j][1], args)
  /\ \A k \in Chosen(map, args) \ KeysGiven(page) : Behind(k, page, args) \/ Beyond(k, page, args)
  /\ AtMost(args, Len(page.items))

(***************************************************************************)
(* Whatever is asked and whatever is lost, a page is faithful.  Only a     *)
(* lost chunk makes a scan fail.                                           *)
(***************************************************************************)
ScanSound ==
  Scanned =>
    IF reply.out = "page" THEN FaithfulPage(reply, MapOf(root), request.args)
    ELSE ~(ChunksUnder(root) \subseteq store)

\* A scan backwards finds its start if start_bound is a key or beyond the last one.
StartFound(map, args) ==
  ~args.reverse \/ args.start \in DOMAIN map \cup {None} \/ \A k \in DOMAIN map : k < args.start

\* The page says whether the tree has more entries in range, and its cursor names
\* the first of them, for the synchronous scan the last one before it.  Without
\* an offset, nothing comes before a page that found its start.
JoiningPage(page, map, args, op) ==
  LET later == {k \in Chosen(map, args) : Beyond(k, page, args)}
      next  == page.next_page_cursor
  IN  /\ args.limit # 0 => (page.has_next_page <=> page.items # <<>> /\ later # {})
      /\ page.has_next_page /\ op = "scanItems" =>
           next \in later /\ \A k \in later \ {next} : Precedes(next, k, args)
      /\ page.has_next_page /\ op = "scanItemsSync" /\ args.limit # 0 =>
           next = Last(page.items)[1]
      /\ args.offset = 0 /\ args.limit # 0 /\ StartFound(map, args) =>
           \A k \in Chosen(map, args) \ KeysGiven(page) : ~Behind(k, page, args)

\* Entries that an offset counts: from start_bound on, also if that is excluded.
Counted(map, args) == Chosen(map, [args EXCEPT !.start_inclusive = TRUE])

\* An offset passes as many entries as it says, or all if there are fewer.
CountingPage(page, map, args) ==
  args.offset > 0 /\ args.limit # 0 /\ StartFound(map, args) =>
    LET passed == {k \in Counted(map, args) : Behind(k, page, args)}
    IN  /\ Cardinality(passed) <= args.offset
        /\ page.items # <<>> => Cardinality(passed) = args.offset

(***************************************************************************)
(* Pages join: the next page begins where the one before has ended, as     *)
(* long as there is anything left.                                         *)
(***************************************************************************)
PagesJoin ==
  Scanned /\ reply.out = "page" => JoiningPage(reply, MapOf(root), request.args, request.op)

(***************************************************************************)
(* An offset joins pages as well as a cursor does: wherever leaves end, it *)
(* passes the entries before the page, and no other.                       *)
(***************************************************************************)
OffsetsCount ==
  Scanned /\ reply.out = "page" => CountingPage(reply, MapOf(root), request.args)
-----------------------------------------------------------------------------
(***************************************************************************)
(* What a file promises.                                                   *)
(***************************************************************************)
Restored == [out |-> "loaded", root |-> root, config |-> config, store |-> request.chunks]

\* A saved tree is loaded as it was, with every other version its store held.
FileRoundTrips == request.op = "file" /\ ~request.damaged => reply = Restored

\* A file of which one field was altered, or the end is missing, is rejected, or
\* loaded as if it were not: no damage goes through as another tree.
DamageDetected == request.op = "file" /\ request.damaged => reply.out # "loaded" \/ reply = Restored
===============================================================================
