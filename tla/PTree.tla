------------------------------- MODULE PTree -------------------------------
(***************************************************************************)
(* The PTree facade of lib.rs: one tree behind a mutex, the JavaScript     *)
(* event loop that drives its asynchronous methods, and change events.     *)
(*                                                                         *)
(* Everything runs on one thread.  An asynchronous method only queues a    *)
(* future; the event loop polls it when no JavaScript is running, and over *)
(* the in-memory store it completes in that one poll.  A synchronous       *)
(* method runs at once.  Either way JavaScript runs again in the middle of *)
(* a call that changed the tree: its listeners are called one by one,      *)
(* while the call still holds the mutex.                                   *)
(*                                                                         *)
(* What a call does to the tree is a parameter here, see TreeEffects; what *)
(* it does to the listeners, the mutex and the queue does not depend on    *)
(* it.  Reads change nothing and are left out.  No operator is RECURSIVE.  *)
(***************************************************************************)
EXTENDS Node

CONSTANTS
  Listeners,            \* the listeners an application may register
  Batches,              \* the arguments of insertBatch: sequences of <<key, value>>
  EffectOf(_, _, _, _)  \* [root, missing, out] after a call, given root, missing and config

VARIABLES
  root,       \* root_hash of the tree
  config,     \* its fanout configuration
  missing,    \* the chunks of its versions that its store lacks
  locked,     \* the mutex `inner' is taken
  tasks,      \* the queued futures, in the order of the calls
  listeners,  \* the registered listeners, in order
  emitting,   \* the emissions under way, the innermost one last
  reply,      \* the last call that returned or settled, and its outcome
  versions    \* the roots the application has seen

treeVars == <<root, config, missing, versions>>
facadeVars == <<root, config, missing, locked, tasks, listeners, emitting, reply, versions>>

NoReply == [request |-> [op |-> "none"], out |-> None]

\* PTree.new, and PTree.load of an export that lacks the chunks in `lost'.
Opened(hash, c, lost) ==
  /\ root = hash
  /\ config = c
  /\ missing = lost
  /\ locked = FALSE
  /\ tasks = <<>>
  /\ listeners = <<>>
  /\ emitting = <<>>
  /\ reply = NoReply
  /\ versions = {None, hash}

Init == \E c \in Configs : Opened(None, c, {})
-----------------------------------------------------------------------------
(***************************************************************************)
(* One call, from the moment it has the mutex to the moment it calls the   *)
(* first listener, or returns if it has nobody to tell.                    *)
(***************************************************************************)
\* (Faulty: a checkout is not announced.)
TellsEdits(call, out) == listeners # <<>> /\ out \in {"changed", "deleted"} /\ call.op # "checkout"

Tells(call, out) == listeners # <<>> /\ out \in {"changed", "deleted"}

\* (Faulty: the mutex is released before the listeners are called.)
PerformThenUnlock(call) ==
  \E e \in {EffectOf(call, root, missing, config)} :
      /\ root' = e.root
      /\ missing' = e.missing
      /\ versions' = versions \cup {e.root}
      /\ IF Tells(call, e.out)
         THEN /\ emitting' = Append(emitting,
                   [request |-> call, out |-> e.out, oldRootHash |-> root,
                    newRootHash |-> e.root, left |-> listeners])
              /\ UNCHANGED <<locked, reply>>
         ELSE /\ reply' = [request |-> call, out |-> e.out]
              /\ UNCHANGED <<locked, emitting>>
      /\ UNCHANGED <<config, listeners>>

Perform(call) ==
  \E e \in {EffectOf(call, root, missing, config)} :
      /\ root' = e.root
      /\ missing' = e.missing
      /\ versions' = versions \cup {e.root}
      /\ IF Tells(call, e.out)
         THEN /\ locked' = TRUE
              /\ emitting' = Append(emitting,
                   [request |-> call, out |-> e.out, oldRootHash |-> root,
                    newRootHash |-> e.root, left |-> listeners])
              /\ UNCHANGED reply
         ELSE /\ reply' = [request |-> call, out |-> e.out]
              /\ UNCHANGED <<locked, emitting>>
      /\ UNCHANGED <<config, listeners>>
-----------------------------------------------------------------------------
(***************************************************************************)
(* What JavaScript does: the application between two polls, or a listener  *)
(* while a call waits for it to return.                                    *)
(***************************************************************************)
\* insert, insertBatch, delete, checkout.
AsyncCall(call) ==
  /\ tasks' = Append(tasks, call)
  /\ UNCHANGED <<treeVars, locked, listeners, emitting, reply>>

\* insertSync, deleteSync: try_lock fails if the mutex is taken.
SyncCall(call) ==
  /\ ~locked
  /\ Perform(call)
  /\ UNCHANGED tasks

SyncCallFails(call) ==
  /\ locked
  /\ reply' = [request |-> call, out |-> "locked"]
  /\ UNCHANGED <<treeVars, locked, tasks, listeners, emitting>>

\* emit_change borrows the list while it goes through it.
Borrowed == emitting # <<>>

OnChange(l) ==
  /\ ~Borrowed
  /\ listeners' = Append(listeners, l)
  /\ UNCHANGED <<treeVars, locked, tasks, emitting, reply>>

\* The others of s, in order: Vec::retain.
Without(s, x) ==
  LET others == {i \in DOMAIN s : s[i] # x}
      nth(n) == CHOOSE i \in others : Cardinality({j \in others : j <= i}) = n
  IN  [n \in 1..Cardinality(others) |-> s[nth(n)]]

\* Every registration of the listener goes.
OffChange(l) ==
  /\ ~Borrowed
  /\ listeners' = Without(listeners, l)
  /\ UNCHANGED <<treeVars, locked, tasks, emitting, reply>>

\* borrow_mut panics, which the listener sees as an exception.
ListenersBusy(op, l) ==
  /\ Borrowed
  /\ reply' = [request |-> [op |-> op, listener |-> l], out |-> "panic"]
  /\ UNCHANGED <<treeVars, locked, tasks, listeners, emitting>>

\* (Faulty: an exception of a listener ends the poll of the call it is told by.)
ListenerEndsPoll ==
  /\ emitting # <<>>
  /\ emitting' = Front(emitting)
  /\ UNCHANGED <<treeVars, locked, tasks, listeners, reply>>

\* A listener returns, or throws: emit_change logs that and goes on.
ListenerReturns ==
  /\ emitting # <<>>
  /\ LET top == Last(emitting)
     IN  IF Len(top.left) > 1
         THEN /\ emitting' = Append(Front(emitting), [top EXCEPT !.left = Tail(@)])
              /\ UNCHANGED <<locked, reply>>
         ELSE /\ emitting' = Front(emitting)
              /\ locked' = FALSE
              /\ reply' = [request |-> top.request, out |-> top.out]
  /\ UNCHANGED <<treeVars, tasks, listeners>>

\* The event loop polls the oldest future: no JavaScript is running.
RunTask ==
  /\ emitting = <<>>
  /\ ~locked
  /\ tasks # <<>>
  /\ Perform(Head(tasks))
  /\ tasks' = Tail(tasks)
-----------------------------------------------------------------------------
SyncCalls ==
  [op : {"insert"}, key : Keys, value : Values] \cup [op : {"delete"}, key : Keys]

AsyncCalls ==
  SyncCalls \cup [op : {"insertBatch"}, items : Batches] \cup [op : {"checkout"}, hash : versions]

Subscribe ==
  \E l \in Listeners : \/ OnChange(l)
                       \/ OffChange(l)
                       \/ \E op \in {"onChange", "offChange"} : ListenersBusy(op, l)

CallTree ==
  \/ \E call \in AsyncCalls : AsyncCall(call)
  \/ \E call \in SyncCalls : SyncCall(call) \/ SyncCallFails(call)

Next == Subscribe \/ CallTree \/ ListenerReturns \/ RunTask

Spec == Init /\ [][Next]_facadeVars
-----------------------------------------------------------------------------
(***************************************************************************)
(* The facade takes the tree's word for whether the root has changed: by   *)
(* the outcome of a call it decides whether to tell its listeners.         *)
(***************************************************************************)
OutcomesTell ==
  \A call \in AsyncCalls :
    LET e == EffectOf(call, root, missing, config)
    IN  e.out \in {"changed", "deleted"} <=> e.root # root
=============================================================================
