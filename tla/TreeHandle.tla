------------------------------ MODULE TreeHandle ------------------------------
(***************************************************************************)
(* What those who read a tree share with those who change it: the chunk    *)
(* store and the root_hash of the tree.                                    *)
(***************************************************************************)
VARIABLES
  store,     \* the chunks that can be loaded
  root       \* the tree's version

sharedVars == <<store, root>>
===============================================================================
