------------------------------- MODULE MCTree -------------------------------
(***************************************************************************)
(* The trees that inserts and deletes build: every tree over a few keys,   *)
(* without a bound on the number of calls, and some calls on trees that    *)
(* are already three levels deep, so that internal nodes are borrowed from *)
(* and merged.  Chunks that no longer belong to the tree do not influence  *)
(* these calls, so states are told apart by `Shape', which leaves the      *)
(* store out; the runs of MCVersions keep it.                              *)
(***************************************************************************)
EXTENDS TreeMap, TreeOps

CONSTANT Uses    \* what applications do, see Narrow

VARIABLES
  use,       \* the keys and values used, and how many calls are left, Endless or a number
  content    \* the mapping the current tree stores, computed once per root

Endless == -1

EditCall ==
  \/ \E k \in use.keys : Get(k) \/ Delete(k)
  \/ \E k \in use.keys, v \in use.values : Insert(k, v)

EditStep ==
  \/ Descend \/ GetAtLeaf
  \/ InsertAtLeaf \/ InsertAscend \/ InsertAtTop
  \/ DeleteNotFound \/ DeleteAtLeaf \/ DeleteChildGone \/ DeleteAscend
  \/ DeleteRebalance \/ DeleteAtTop

Edit ==
  /\ \/ EditCall /\ use.left # 0 /\ use' = [use EXCEPT !.left = IF @ = Endless THEN @ ELSE @ - 1]
     \/ EditStep /\ UNCHANGED use
  /\ content' = IF root' = root THEN content ELSE Content(root')

\* The application has made its calls.
Stop == pc = "idle" /\ use.left = 0 /\ UNCHANGED <<vars, use, content>>

EditInit ==
  \E u \in Uses :
    /\ config \in u.configs
    /\ \E script \in u.scripts :
         root = After(script, [k \in Keys |-> CHOOSE v \in u.values : TRUE], config)
    /\ store = IF root = None THEN {} ELSE Reach(root)
    /\ pc = "idle"
    /\ call = NoCall
    /\ at = None
    /\ path = <<>>
    /\ update = <<>>
    /\ marked = {}
    /\ queue = {}
    /\ reply = NoReply
    /\ versions = {None, root}
    /\ use = [keys |-> u.keys, values |-> u.values, left |-> u.calls]
    /\ content = Content(root)

EditSpec == EditInit /\ [][Edit \/ Stop]_<<vars, use, content>>

Shape == <<config, root, pc, call, at, path, update, use>>

Fanout(target, min) == [target_fanout |-> target, min_fanout |-> min]
AllInline == [v \in Values |-> <<>>]

\* Fewest keys per node, wider nodes, and leaves of internal nodes that can
\* lend (below each of the root's two children they hold as many keys as said).
Narrow ==
  [configs |-> {Fanout(2, 1), Fanout(3, 1)}, scripts |-> {<<>>},
   keys |-> 1..5, values |-> Values, calls |-> Endless]

Wide ==
  [configs |-> {Fanout(4, 2), Fanout(5, 2)}, scripts |-> {<<>>},
   keys |-> 1..10, values |-> {CHOOSE v \in Values : TRUE}, calls |-> Endless]

LeftLends == From(4, 14) \o From(1, 3) \o <<-14, -13, -12>>    \* 2 3 2 | 2 2 keys
RightLends == From(1, 11)                                      \* 2 2 | 2 2 3 keys
NeitherLends == From(1, 11) \o <<-11, -10, -9>>                \* 2 2 | 2 2 keys

Grown ==
  [configs |-> {Fanout(4, 2)}, scripts |-> {LeftLends, RightLends, NeitherLends},
   keys |-> 1..14, values |-> {CHOOSE v \in Values : TRUE}, calls |-> 3]

AllUses == {Narrow, Wide, Grown}
-----------------------------------------------------------------------------
Map == INSTANCE MapStore WITH map <- content

(***************************************************************************)
(* However keys were inserted and deleted before, and although one call is *)
(* many steps, every call does to the content what it does to a map and    *)
(* answers accordingly: insert tells whether the root changed, delete      *)
(* whether the key was there, get what is stored.                          *)
(***************************************************************************)
ImplementsMap == Map!Spec

(***************************************************************************)
(* The repository writes every operation twice.  Each asynchronous insert  *)
(* and delete ends with the root its synchronous twin computes in one      *)
(* piece, each get with the value, so both may be used on one tree.        *)
(***************************************************************************)
SyncResult ==
  pc \in {"descend", "ascend"} /\ pc' = "idle" =>
    CASE call.op = "insert" -> root' = InsertSync(root, call.key, call.value, config)
      [] call.op = "delete" -> root' = DeleteSync(root, call.key, config)
      [] call.op = "get" -> reply'.out = GetSync(root, call.key)

SyncAgrees == [][SyncResult]_vars
=============================================================================
