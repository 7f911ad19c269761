------------------------------- MODULE Lossy --------------------------------
(***************************************************************************)
(* A ProllyTree whose chunks are exported and loaded again, into a tree    *)
(* with any configuration and without any of the chunks but the root.      *)
(***************************************************************************)
EXTENDS TreeMap

\* An export is a map of chunks an application stores and hands around; PTree.load
\* puts what is left of it into a new store.
PartialLoad ==
  \E h \in versions, c \in Configs, lost \in SUBSET store : Load(h, c, lost)

LossyNext == Next \/ PartialLoad

LossySpec == Init /\ [][LossyNext]_vars
=============================================================================
