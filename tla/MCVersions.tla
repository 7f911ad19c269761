----------------------------- MODULE MCVersions -----------------------------
(***************************************************************************)
(* All calls of ProllyTree over a small set of keys, a bounded number of   *)
(* them, with the whole store in the state.                                *)
(***************************************************************************)
EXTENDS TreeMap, TreeOps

CONSTANTS
  Scripts,   \* the calls that made the initial trees, as After takes them
  MaxCalls   \* the number of calls after that

VARIABLE calls    \* their number so far

Bounded ==
  /\ pc = "idle" => calls < MaxCalls
  /\ calls' = IF pc = "idle" THEN calls + 1 ELSE calls

Alternating == [k \in Keys |-> IF k % 2 = 0 THEN "big" ELSE "tail"]

VersionsInit ==
  /\ config \in Configs
  /\ \E script \in Scripts : root = After(script, Alternating, config)
  /\ store = IF root = None THEN {} ELSE Reach(root)
  /\ pc = "idle"
  /\ call = NoCall
  /\ at = None
  /\ path = <<>>
  /\ update = <<>>
  /\ marked = {}
  /\ queue = {}
  /\ reply = NoReply
  /\ versions = {None, root}
  /\ calls = 0

allVars == <<vars, calls>>

VersionsSpec ==
  /\ VersionsInit
  /\ [][Next /\ Bounded]_allVars
  /\ WF_vars(Step)

Fanout(target, min) == [target_fanout |-> target, min_fanout |-> min]
Binary == {Fanout(2, 1)}
EmptyOrTwoKeys == {<<>>, <<1, 3>>}

\* Values are cut into chunks and share one; MCTree has inlined ones.
SharedChunks == [tail |-> <<"c2">>, big |-> <<"c1", "c2">>]
-----------------------------------------------------------------------------
(***************************************************************************)
(* Every call that begins returns: a descent ends at a leaf, the way back  *)
(* at the root, and the mark phase visits no chunk twice although versions *)
(* share chunks.                                                           *)
(***************************************************************************)
CallsReturn == pc # "idle" ~> pc = "idle"
=============================================================================
