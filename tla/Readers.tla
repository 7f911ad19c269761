------------------------------- MODULE Readers --------------------------------
(***************************************************************************)
(* Applications that read a tree piece by piece while it is edited and     *)
(* collected: a cursor, as CursorReader has it, and pages of scanItems or  *)
(* scanItemsSync, as Paging has them.                                      *)
(***************************************************************************)
EXTENDS CursorReader, Paging, TreeOps

VARIABLE config

readerVars == <<sharedVars, config, cursorVars, kept, pageVars>>

-----------------------------------------------------------------------------
(***************************************************************************)
(* What goes on in between.                                                *)
(***************************************************************************)
\* A finished call has stored the chunks of its value and the nodes of its result.
Insert(k, v) ==
  /\ root' = InsertSync(root, k, v, config)
  /\ store' = store \cup ValueChunks(v) \cup Reach(root')
  /\ Meanwhile /\ BetweenPages
  /\ UNCHANGED config

Delete(k) ==
  /\ root' = DeleteSync(root, k, config)
  /\ store' = store \cup (IF root' = None THEN {} ELSE Reach(root'))
  /\ Meanwhile /\ BetweenPages
  /\ UNCHANGED config

\* What the mark phase reaches from a chunk in S.
RECURSIVE Marked(_, _)

Marked(chunk, S) ==
  IF chunk \in S THEN {chunk} \cup UNION {Marked(c, S) : c \in References(chunk)} ELSE {}

\* (Faulty: only the tree's own root is kept.)
CollectOthers(live) ==
  /\ store' = UNION {Marked(h, store) : h \in {root} \ {None}}
  /\ UNCHANGED <<root, config>>
  /\ Meanwhile /\ BetweenPages

\* triggerGc: the roots the application names live and the tree's own.
Collect(live) ==
  /\ store' = UNION {Marked(h, store) : h \in (live \cup {root}) \ {None}}
  /\ UNCHANGED <<root, config>>
  /\ Meanwhile /\ BetweenPages
===============================================================================
