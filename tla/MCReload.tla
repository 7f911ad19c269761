------------------------------ MODULE MCReload ------------------------------
(***************************************************************************)
(* Trees that are loaded from an export: with another configuration than   *)
(* the one they were built with, and from chunks of which some are gone.   *)
(* A few calls follow.                                                     *)
(***************************************************************************)
EXTENDS MCVersions, Lossy

CONSTANTS
  MaxLost,   \* the number of chunks that may be gone
  Touched    \* the keys of the calls that follow

Losses == UNION {kSubset(n, store \ {root}) : n \in 0..MaxLost}

\* The first call is the load.
ReloadCall ==
  IF calls = 0
  THEN \E c \in Configs, lost \in Losses : Load(root, c, lost)
  ELSE \/ \E k \in Touched : Get(k) \/ Delete(k)
       \/ \E k \in Touched, v \in Values : Insert(k, v)

ReloadNext ==
  /\ (pc = "idle" /\ ReloadCall) \/ Step
  /\ Bounded

ReloadSpec == VersionsInit /\ [][ReloadNext]_allVars

Pairs == {Fanout(2, 1), Fanout(4, 2)}
\* Under fanout (2, 1) these have internal nodes with one child, under (4, 2) a
\* root over two or three leaves.
Exported == {From(1, 5), From(1, 5) \o <<-3>>, From(1, 7)}
-----------------------------------------------------------------------------
\* delete returns whether the key was found and deleted: README of the repository.
DeleteAnswers == reply.request.op = "delete" => reply.out \in {"deleted", "absent"}

(***************************************************************************)
(* An edit never costs a key it is not about: each other key that could be *)
(* read with the chunks at hand before can still be read, with its value,  *)
(* although leaves and internal nodes around it were split or merged.      *)
(***************************************************************************)
IntactAfterEdit ==
  pc \in {"descend", "ascend"} /\ pc' = "idle" /\ call.op \in {"insert", "delete"} =>
    \A k \in Keys \ {call.key} :
      Look(root, k, store) \notin {"ChunkNotFound", None}
        => Look(root', k, store') = Look(root, k, store)

IntactStaysReadable == [][IntactAfterEdit]_vars
=============================================================================
