------------------------------ MODULE MapStore ------------------------------
(***************************************************************************)
(* What a tree promises between two checkouts: it is a map from keys to    *)
(* values, each call takes effect at once, and its reply tells what it     *)
(* did.                                                                    *)
(***************************************************************************)
EXTENDS Functions

CONSTANTS Keys, Values, None

VARIABLES
  map,    \* the mapping: a function on the keys that are present
  reply   \* the last call that returned, and what it returned

mapVars == <<map, reply>>

Replies(request, out) ==
  /\ reply'.request = request
  /\ reply' = [request |-> request, out |-> out]

\* A function as f is, but that it maps x to y.
Put(f, x, y) == [z \in DOMAIN f \cup {x} |-> IF z = x THEN y ELSE f[z]]

NoReply == [request |-> [op |-> "none"], out |-> None]

\* A map is opened with whatever was stored before.
Init ==
  /\ DOMAIN map \subseteq Keys
  /\ reply = NoReply

Insert(k, v) ==
  /\ Replies([op |-> "insert", key |-> k, value |-> v], IF map' # map THEN "changed" ELSE "unchanged")
  /\ map' = Put(map, k, v)

Delete(k) ==
  /\ Replies([op |-> "delete", key |-> k], IF k \in DOMAIN map THEN "deleted" ELSE "absent")
  /\ map' = Restrict(map, DOMAIN map \ {k})

Get(k) ==
  /\ Replies([op |-> "get", key |-> k], IF k \in DOMAIN map THEN map[k] ELSE None)
  /\ UNCHANGED map

Access ==
  \E k \in Keys : Get(k) \/ Delete(k) \/ \E v \in Values : Insert(k, v)

Spec == Init /\ [][Access]_mapVars
=============================================================================
