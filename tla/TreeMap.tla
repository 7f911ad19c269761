------------------------------ MODULE TreeMap -------------------------------
(***************************************************************************)
(* What a ProllyTree promises, whatever its nodes look like: it is a map   *)
(* with versions.                                                          *)
(***************************************************************************)
EXTENDS ProllyTree

(***************************************************************************)
(* A version is named by its root, and can be made current as long as its  *)
(* root is in the store.                                                   *)
(***************************************************************************)
Versioned == INSTANCE VersionedMap WITH
  map <- MapOf(root),
  current <- root,
  past <- [v \in versions |-> MapOf(v)],
  available <- (versions \cap store) \cup {None}

(***************************************************************************)
(* The tree implements the map with versions: although a call is many      *)
(* steps, each call does to the map, at once, what it says and answers     *)
(* accordingly, and a version stays what it was for as long as its root is *)
(* there.                                                                  *)
(***************************************************************************)
ImplementsVersions == Versioned!VersionedSpec

(***************************************************************************)
(* Whatever is lost and whatever the fanout is now, the tree never serves  *)
(* a wrong map: a call either does what it does to the map, or fails and   *)
(* leaves the current version as it was.                                   *)
(***************************************************************************)
ImplementsLossy == Versioned!LossySpec

(***************************************************************************)
(* The outcome of a call says whether the root is another one now: by it   *)
(* alone PTree decides whether to call its listeners.  It does although an *)
(* insert that changes nothing in the map may still split an old node, and *)
(* a delete may fail half way.                                             *)
(***************************************************************************)
Tells(request, out) ==
  request.op \in {"insert", "delete", "checkout"} /\ out \in {"changed", "deleted"}

RootTold ==
  /\ root' # root => reply'.request.op = "load" \/ Tells(reply'.request, reply'.out)
  /\ reply' # reply /\ Tells(reply'.request, reply'.out) => root' # root

TellsOfRoot == [][RootTold]_vars
-----------------------------------------------------------------------------
\* A tree's number of entries, which countAllItems reads off the root and an
\* offset is counted down by, is the number of keys that are there.
StoreCounted ==
  \A chunk \in NodesIn(store) : ItemCount(chunk) = Cardinality(DOMAIN MapOf(chunk))

\* What countAllItems answers is the number of keys of the current tree.
TreeCounted == CountAllItems(root) = Cardinality(DOMAIN MapOf(root))

(***************************************************************************)
(* Why the refinement holds in the middle of a call.                       *)
(***************************************************************************)
With(nodes, k) == {e \in StoredIn(nodes) : e.key = k}

\* If the key of the call is there, it is below the node to visit.
Finding == pc = "descend" => With(at, call.key) = With(root, call.key)

\* The node `update' is to replace.
Replaced == IF path = <<>> THEN root ELSE Left(Last(path)).child_hash

Entry == [key |-> call.key, value |-> ValueRepr(call.value)]

\* What is handed upwards stores what the node it replaces did, but for the key.
Remaking ==
  pc = "ascend" =>
    /\ StoredBy(update) = {e \in StoredIn(Replaced) : e.key # call.key}
                            \cup (IF call.op = "insert" THEN {Entry} ELSE {})
    /\ call.op = "delete" => With(Replaced, call.key) # {}

KeepingMap == Rooted /\ Finding /\ Remaking

\* An insert of what is there rewrites every node as it is.
Rewriting ==
  pc = "ascend" /\ call.op = "insert" =>
    (Entry \in StoredIn(Replaced) => update = <<EntryFor(Replaced)>>)
=============================================================================
