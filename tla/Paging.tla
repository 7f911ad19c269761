-------------------------------- MODULE Paging --------------------------------
(***************************************************************************)
(* An application that pages through a range, forwards, with scanItems or  *)
(* scanItemsSync of lib.rs, over a tree that is edited meanwhile.          *)
(*                                                                         *)
(* A page is of the version current at the time, and only a key leads from *)
(* one page to the next.  A call is one step: every call on the tree holds *)
(* its mutex to the end, an edit removes nothing from the store, and a     *)
(* sweep is one operation on it.                                           *)
(***************************************************************************)
EXTENDS TreeHandle, Scan

VARIABLES
  pages,      \* the scan page by page, see NoPages
  paged,      \* what the application got from its pages so far
  always,     \* the entries that were there ever since the first page was asked for
  ever        \* the entries that were there at some time since then

pageVars == <<pages, paged, always, ever>>

\* [function, asked, args, more]: which scan is called, with what at first and with
\* what next, if there is more.
NoPages == [function |-> None, asked |-> None, args |-> None, more |-> FALSE]

PagingInit ==
  /\ pages = NoPages
  /\ paged = <<>>
  /\ always = {}
  /\ ever = {}

EntriesOf(hash) ==
  LET map == MapOf(hash)
  IN  {<<k, map[k]>> : k \in DOMAIN map}

\* An offset would be counted again on every page, and a page of none leads nowhere.
CanPage(args) == IsArgs(args) /\ ~args.reverse /\ args.offset = 0 /\ args.limit # 0

(***************************************************************************)
(* The asynchronous scan's cursor is the first key of the next page, the   *)
(* synchronous scan's the last key of this one, which the next call        *)
(* excludes.                                                               *)
(***************************************************************************)
PageFrom(function, args) ==
  IF function = "scanItems" THEN Scan(root, args, store) ELSE ScanSync(root, args, store)

StartPaging(function, args) ==
  /\ function \in {"scanItems", "scanItemsSync"}
  /\ CanPage(args)
  /\ pages' = [function |-> function, asked |-> args, args |-> args, more |-> TRUE]
  /\ paged' = <<>>
  /\ always' = EntriesOf(root)
  /\ ever' = EntriesOf(root)

FollowedBy(function, args, page) ==
  IF page.has_next_page
  THEN [args EXCEPT !.start = page.next_page_cursor,
                    !.start_inclusive = function = "scanItems"]
  ELSE args

\* A call that fails gives nothing, and may be made again.
NextPage ==
  /\ pages.more
  /\ \E page \in {PageFrom(pages.function, pages.args)} :
       /\ page.out = "page"
       /\ pages' = [pages EXCEPT !.args = FollowedBy(pages.function, @, page),
                                !.more = page.has_next_page]
       /\ paged' = paged \o page.items
  /\ UNCHANGED <<always, ever>>

PagingCall ==
  /\ (\E function, args : StartPaging(function, args)) \/ NextPage
  /\ UNCHANGED sharedVars

\* Anything else that happens to the tree and its store.
BetweenPages ==
  /\ always' = always \cap EntriesOf(root')
  /\ ever' = IF pages = NoPages THEN ever ELSE ever \cup EntriesOf(root')
  /\ UNCHANGED <<pages, paged>>

PagingSpec == PagingInit /\ [][PagingCall \/ BetweenPages]_<<sharedVars, pageVars>>
-----------------------------------------------------------------------------
(***************************************************************************)
(* The pages of a forward scan, of either twin, fit together although the  *)
(* tree is edited between them: keys ascend strictly, each entry was there *)
(* at some time and is in the range asked for, and none of that range that *)
(* was there all the time is left out.                                     *)
(***************************************************************************)
PagesFit ==
  pages # NoPages =>
    /\ \A i, j \in DOMAIN paged : i < j => paged[i][1] < paged[j][1]
    /\ \A item \in ToSet(paged) : item \in ever /\ InRange(item[1], pages.asked)
    /\ ~pages.more =>
         \A item \in always : InRange(item[1], pages.asked) => item \in ToSet(paged)
===============================================================================
