------------------------------ MODULE MCEvents ------------------------------
(***************************************************************************)
(* A small application of PTree: it registers and removes listeners and    *)
(* makes a few calls of every kind, awaited or not, from its own code and  *)
(* from its listeners, over a tree it has built or loaded.                 *)
(***************************************************************************)
EXTENDS Listening, TreeEffects

CONSTANTS
  Scripts,   \* the calls that made the trees it starts with, as After takes them
  Lost,      \* the leaves its export lacks, by their number
  MaxCalls,  \* the number of calls it makes on the tree
  MaxSubs    \* the number of its calls of onChange and offChange

VARIABLES
  calls,    \* calls made on the tree
  subs      \* calls made of onChange and offChange

eventVars == <<listeningVars, calls, subs>>

OneValue == [k \in Keys |-> CHOOSE v \in Values : TRUE]

EventsInit ==
  /\ \E c \in Configs, script \in Scripts :
       LET tree == After(script, OneValue, c)
       IN  Opened(tree, c, {tree.children[n].child_hash : n \in Lost})
  /\ calls = 0
  /\ subs = 0
  /\ known = [l \in Listeners |-> None]

Proceed == ListenerReturns \/ RunTask

EventsNext ==
  /\ \/ CallTree /\ calls < MaxCalls /\ calls' = calls + 1 /\ UNCHANGED subs
     \/ Subscribe /\ subs < MaxSubs /\ subs' = subs + 1 /\ UNCHANGED calls
     \/ Proceed /\ UNCHANGED <<calls, subs>>
  /\ Observed

\* The event loop goes on once JavaScript has returned, and listeners return.
EventsSpec ==
  /\ EventsInit
  /\ [][EventsNext]_eventVars
  /\ WF_facadeVars(Proceed)

Fanout(target, min) == [target_fanout |-> target, min_fanout |-> min]
Binary == {Fanout(2, 1)}
AllInline == [v \in Values |-> <<>>]

EmptyOrOneKey == {<<>>, <<1>>}
Batch(keys) == [i \in DOMAIN keys |-> <<keys[i], OneValue[keys[i]]>>]
OneBatch == {Batch(<<1, 2>>)}

\* Two leaves; the batch puts its first key into one and its second into the other.
TwoLeaves == {<<2, 3, 4>>}
SpanningBatch == {Batch(<<1, 4>>)}
-----------------------------------------------------------------------------
(***************************************************************************)
(* Every call settles: futures are polled in the end, and the mutex is     *)
(* given back although listeners throw, fail to take it, or queue more.    *)
(***************************************************************************)
Pending == tasks # <<>> \/ locked

CallsSettle == Pending ~> ~Pending

(***************************************************************************)
(* "These methods will throw an error if an async operation is currently   *)
(* in progress": README of the repository, of the synchronous methods.  An *)
(* asynchronous call is in progress until its promise settles.             *)
(***************************************************************************)
SyncWaitsForNone ==
  tasks # <<>> /\ tasks' = tasks /\ calls' # calls => reply'.out = "locked"

SyncThrows == [][SyncWaitsForNone]_eventVars
=============================================================================
