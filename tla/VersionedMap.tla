---------------------------- MODULE VersionedMap ----------------------------
(***************************************************************************)
(* What a tree promises with versions.  Every state of the map has a name, *)
(* the root; a name never stands for two maps.  A version whose root is    *)
(* still available can be made current again exactly as it was.            *)
(***************************************************************************)
EXTENDS MapStore

VARIABLES
  current,    \* the name of the current version
  past,       \* past[v]: the map that version v is
  available   \* the versions that can be made current

versionedVars == <<mapVars, current, past, available>>

\* Any version may be there at the start.
VersionedInit ==
  /\ reply = NoReply
  /\ current \in available
  /\ available = DOMAIN past
  /\ map = past[current]

\* The current version becomes one with map m.
Become(m) ==
  /\ map' = m
  /\ past' = Put(past, current', m)
  /\ current' \in DOMAIN past => past[current'] = m

\* An insert or delete gives nothing up.
Edited ==
  /\ Become(map')
  /\ map' = map => current' = current
  /\ available \subseteq available'

Switch(v, op, out) ==
  /\ v \in available
  /\ current' = v
  /\ Replies([op |-> op, hash |-> v], out)
  /\ Become(past[v])

Checkout(v) ==
  /\ Switch(v, "checkout", IF v = current THEN "unchanged" ELSE "changed")
  /\ UNCHANGED available

CheckoutGone(v) ==
  /\ v \notin available
  /\ Replies([op |-> "checkout", hash |-> v], "ChunkNotFound")
  /\ UNCHANGED <<map, current, past, available>>

Load(v) ==
  /\ Switch(v, "load", "loaded")
  /\ UNCHANGED available

\* Collection gives versions up, but none that was to stay, nor the current one.
Collect ==
  /\ reply'.request.op = "gc"
  /\ reply'.out = "done"
  /\ available' \subseteq available
  /\ available \cap (reply'.request.live \cup {current}) \subseteq available'
  /\ UNCHANGED <<map, current, past>>

\* An edit under way may store again what a version given up was made of.
Reappear ==
  /\ available \subseteq available'
  /\ UNCHANGED <<mapVars, current, past>>

VersionedNext ==
  \/ Access /\ Edited
  \/ Reappear
  \/ \E v \in DOMAIN past : Checkout(v) \/ CheckoutGone(v) \/ Load(v)
  \/ Collect

\* The current version is always one that can be made current.
CurrentAvailable == current \in available

VersionedSpec ==
  VersionedInit /\ [][VersionedNext /\ CurrentAvailable']_versionedVars
-----------------------------------------------------------------------------
(***************************************************************************)
(* What is left of the promise when the chunks of a loaded tree are not    *)
(* complete or its configuration is not the one it was built with: a call  *)
(* may fail, and one that fails has changed nothing; an insert that        *)
(* changes nothing in the map may still make a new version.                *)
(***************************************************************************)
Failed ==
  /\ reply'.request.op \in {"get", "insert", "delete"}
  /\ reply'.out \in {"ChunkNotFound", "InternalError"}
  /\ UNCHANGED <<map, current, past>>
  /\ available \subseteq available'

\* Inserting what is already there may split a node that is too large now.
Reshaped ==
  /\ reply'.request.op = "insert"
  /\ \E k \in DOMAIN map :
       Replies([op |-> "insert", key |-> k, value |-> map[k]], "changed")
  /\ Become(map)
  /\ current' # current
  /\ available \subseteq available'

LossyLoad(v) ==
  /\ Switch(v, "load", "loaded")
  /\ available' \subseteq available

LossyNext ==
  VersionedNext \/ Failed \/ Reshaped \/ \E v \in DOMAIN past : LossyLoad(v)

LossySpec ==
  VersionedInit /\ [][LossyNext]_versionedVars
=============================================================================
