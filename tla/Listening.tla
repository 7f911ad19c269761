----------------------------- MODULE Listening ------------------------------
(***************************************************************************)
(* The listeners of a PTree, each of which only follows its events: what   *)
(* it knows of the tree's root is recorded in `known'.                     *)
(***************************************************************************)
EXTENDS PTree

VARIABLE known    \* the root each listener knows: of its registration, then of its last event

listeningVars == <<facadeVars, known>>

\* The next listener of the innermost emission is called with its event.
Delivers == emitting' \notin {<<>>, emitting} /\ Len(emitting') >= Len(emitting)

Observed ==
  known' =
    [l \in Listeners |->
       IF Delivers /\ Head(Last(emitting').left) = l THEN Last(emitting').newRootHash
       ELSE IF l \in ToSet(listeners') \ ToSet(listeners) THEN root'
       ELSE known[l]]

\* Any tree may be opened, of which any chunks may be missing.
ListeningInit ==
  /\ \E hash, lost : \E c \in Configs : Opened(hash, c, lost)
  /\ known = [l \in Listeners |-> None]

ListeningSpec == ListeningInit /\ [][Next /\ Observed]_listeningVars
-----------------------------------------------------------------------------
(***************************************************************************)
(* A listener that only follows its events knows the tree's root: whenever *)
(* no call is under way, the new root of the last one is the root.         *)
(* "You can subscribe to a `change` event to be notified whenever the      *)
(* tree's root hash is modified": README of the repository.                *)
(***************************************************************************)
ListenersKnow == ~locked => \A l \in ToSet(listeners) : known[l] = root

(***************************************************************************)
(* Events arrive in order whatever the listeners do meanwhile: each starts *)
(* from the root the listener knows already, and ends with another one.  A *)
(* listener that is registered twice gets each event twice.                *)
(***************************************************************************)
DeliveredInOrder ==
  Delivers =>
    LET event == Last(emitting')
        l     == Head(event.left)
        twice == Cardinality({i \in DOMAIN listeners : listeners[i] = l}) > 1
    IN  /\ event.oldRootHash # event.newRootHash
        /\ known[l] = event.oldRootHash \/ (twice /\ known[l] = event.newRootHash)

EventsFollow == [][DeliveredInOrder]_listeningVars
=============================================================================
