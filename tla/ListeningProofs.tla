-------------------------- MODULE ListeningProofs ---------------------------
(***************************************************************************)
(* What the listeners of a PTree can rely on, whatever the tree behind it  *)
(* does: as long as the outcome of every call tells whether the root has   *)
(* changed, a listener that only follows its events knows the root, and    *)
(* gets each event from the root that it knows.                            *)
(*                                                                         *)
(* The hypothesis, OutcomesTell, is checked by the run of MCEvents where   *)
(* no chunk is missing.  An insertBatch that fails halfway breaks it, see  *)
(* the run batch_fails: the theorems say that this is the only way.        *)
(***************************************************************************)
EXTENDS Listening, NodeProofs

\* The calls that may be queued or made.
Calls == AsyncCalls

\* The n-th listener is being told of the change from `old' by a call.
Telling(n, request, out, old) ==
  /\ emitting = <<[request |-> request, out |-> out, oldRootHash |-> old,
                   newRootHash |-> root, left |-> SubSeq(listeners, n, Len(listeners))]>>
  /\ old # root
  /\ \A i \in 1..Len(listeners) :
       known[listeners[i]] = IF \E j \in 1..n : listeners[j] = listeners[i] THEN root ELSE old

ListeningInv ==
  /\ listeners \in Seq(Listeners)
  /\ tasks \in Seq(AsyncCalls)
  /\ ~locked => emitting = <<>>
  /\ locked => \E n \in 1..Len(listeners) : \E request, out, old : Telling(n, request, out, old)
  /\ ListenersKnow
-----------------------------------------------------------------------------
(***************************************************************************)
(* What Vec::retain leaves: the n-th of the others is found for every n.   *)
(***************************************************************************)
\* The number of the elements of a set of numbers up to one of them.
RankIn(others, i) == Cardinality({j \in others : j <= i})

\* In a finite set of numbers there is one of each rank.
LEMMA RankTaken ==
  ASSUME NEW m \in Nat, NEW others \in SUBSET (1..m), NEW n \in 1..Cardinality(others)
  PROVE  \E i \in others : RankIn(others, i) = n
<1>1. IsFiniteSet(others) /\ Cardinality(others) \in Nat
  <2>1. IsFiniteSet(1..m)
    BY FS_Interval
  <2> QED BY <2>1, FS_Subset, FS_CardinalityType
<1>0. \A i \in others : i \in Int
  OBVIOUS
<1> DEFINE N    == Cardinality(others)
           upTo(i) == {j \in others : j <= i}
           f    == [i \in others |-> RankIn(others, i)]
<1>2. \A i \in others : IsFiniteSet(upTo(i)) /\ RankIn(others, i) \in 1..N
  <2> SUFFICES ASSUME NEW i \in others PROVE IsFiniteSet(upTo(i)) /\ RankIn(others, i) \in 1..N
    OBVIOUS
  <2>1. upTo(i) \in SUBSET others /\ i \in upTo(i)
    OBVIOUS
  <2>2. IsFiniteSet(upTo(i)) /\ Cardinality(upTo(i)) <= N /\ Cardinality(upTo(i)) \in Nat
    BY <1>1, <2>1, FS_Subset, FS_CardinalityType
  <2>3. Cardinality(upTo(i)) # 0
    BY <2>1, <2>2, FS_EmptySet
  <2> QED BY <1>1, <2>2, <2>3 DEF RankIn
<1>3. \A i, j \in others : i < j => RankIn(others, i) # RankIn(others, j)
  <2> SUFFICES ASSUME NEW i \in others, NEW j \in others, i < j
               PROVE  RankIn(others, i) # RankIn(others, j)
    OBVIOUS
  <2>4. \A a \in others : a <= i => a <= j
    BY <1>0
  <2>1. upTo(i) \in SUBSET upTo(j)
    BY <2>4
  <2>3. j \in upTo(j) /\ j \notin upTo(i)
    BY <1>0
  <2>2. Cardinality(upTo(i)) # Cardinality(upTo(j))
    BY <1>2, <2>1, <2>3, FS_Subset
  <2> QED BY <2>2 DEF RankIn
<1>4. f \in Injection(others, 1..N)
  <2>1. f \in [others -> 1..N]
    BY <1>2
  <2>2. \A i, j \in others : f[i] = f[j] => i = j
    BY <1>3
  <2> QED BY <2>1, <2>2 DEF Injection, IsInjective
<1>5. IsFiniteSet(1..N) /\ Cardinality(1..N) = N
  BY <1>1, FS_Interval
<1>6. f \in Surjection(others, 1..N)
  BY <1>4, <1>5, FS_Injection
<1>7. \E i \in others : f[i] = n
  BY <1>6 DEF Surjection
<1> QED BY <1>7

\* What is left of a sequence is a sequence, of elements it had.
LEMMA WithoutSeq ==
  ASSUME NEW S, NEW s \in Seq(S), NEW x
  PROVE  /\ Without(s, x) \in Seq(S)
         /\ ToSet(Without(s, x)) \subseteq ToSet(s)
<1> DEFINE others == {i \in DOMAIN s : s[i] # x}
           N      == Cardinality(others)
           nth(n) == CHOOSE i \in others : Cardinality({j \in others : j <= i}) = n
<1>1. others \in SUBSET (1..Len(s)) /\ Len(s) \in Nat /\ DOMAIN s = 1..Len(s)
  OBVIOUS
<1>2. N \in Nat
  <2>1. IsFiniteSet(1..Len(s))
    BY <1>1, FS_Interval
  <2> QED BY <1>1, <2>1, FS_Subset, FS_CardinalityType
<1>3. \A n \in 1..N : nth(n) \in others
  BY <1>1, RankTaken DEF RankIn
<1>4. Without(s, x) = [n \in 1..N |-> s[nth(n)]]
  BY DEF Without
<1> HIDE DEF others, N, nth
<1>6. \A i \in 1..Len(s) : s[i] \in S /\ s[i] \in ToSet(s)
  BY <1>1, ElementOfSeq DEF ToSet
<1>5. \A n \in 1..N : s[nth(n)] \in S /\ s[nth(n)] \in ToSet(s)
  BY <1>1, <1>3, <1>6
<1>8. Without(s, x) \in Seq(S)
  BY <1>2, <1>4, <1>5
<1>7. ToSet(Without(s, x)) \subseteq ToSet(s)
  BY <1>4, <1>5 DEF ToSet
<1> QED BY <1>8, <1>7
-----------------------------------------------------------------------------
\* A call reports what Perform decides, and starts from a root all know.
LEMMA PerformListening ==
  ASSUME ListeningInv, OutcomesTell, NEW call \in AsyncCalls, ~locked, Perform(call), Observed
  PROVE  /\ ~locked' => emitting' = <<>>
         /\ locked' => \E n \in 1..Len(listeners') : \E request, out, old :
                         Telling(n, request, out, old)'
         /\ ListenersKnow'
         /\ DeliveredInOrder
<1> DEFINE e == EffectOf(call, root, missing, config)
<1>1. e.out \in {"changed", "deleted"} <=> e.root # root
  BY DEF OutcomesTell
<1>2. emitting = <<>> /\ listeners \in Seq(Listeners)
  BY DEF ListeningInv
<1>3. Len(listeners) \in Nat /\ \A i \in 1..Len(listeners) : listeners[i] \in Listeners
  BY <1>2
<1>4. root' = e.root /\ listeners' = listeners
  BY DEF Perform
<1>5. \A i \in 1..Len(listeners) : known[listeners[i]] = root
  BY <1>2 DEF ListeningInv, ListenersKnow, ToSet
<1> HIDE DEF e
<1>6. CASE Tells(call, e.out)
  <2>1. locked' = TRUE
    BY <1>6 DEF Perform, e
  <2>2. emitting' = Append(emitting, [request |-> call, out |-> e.out, oldRootHash |-> root,
                                      newRootHash |-> e.root, left |-> listeners])
    BY <1>6 DEF Perform, e
  <2>3. emitting' = <<[request |-> call, out |-> e.out, oldRootHash |-> root,
                       newRootHash |-> e.root, left |-> listeners]>>
    BY <1>2, <2>2
  <2>4. listeners # <<>> /\ e.root # root
    BY <1>1, <1>6 DEF Tells
  <2>5. Len(listeners) >= 1
    BY <1>2, <2>4, EmptySeq
  <2>6. /\ Last(emitting').left = listeners
        /\ Last(emitting').newRootHash = e.root
        /\ Last(emitting').oldRootHash = root
        /\ Len(emitting') = 1
    BY <2>3 DEF Last
  <2>14. emitting' # <<>>
    BY <2>3
  <2>7. Delivers
    BY <1>2, <2>6, <2>14, EmptySeq DEF Delivers
  <2>8. Head(Last(emitting').left) = listeners[1]
    BY <2>6
  <2>9. \A i \in 1..Len(listeners) :
          known'[listeners[i]] = IF listeners[1] = listeners[i] THEN e.root ELSE root
    BY <1>3, <1>4, <1>5, <2>6, <2>7, <2>8 DEF Observed
  <2>10. SubSeq(listeners, 1, Len(listeners)) = listeners
    BY <1>2, SubSeqFull
  <2>11. \A i \in 1..Len(listeners) :
           known'[listeners[i]] = IF \E j \in 1..1 : listeners[j] = listeners[i] THEN e.root ELSE root
    BY <2>9
  <2>15. PICK out, old : out = e.out /\ old = root
    OBVIOUS
  <2>12. Telling(1, call, out, old)'
    BY <1>4, <2>3, <2>4, <2>10, <2>11, <2>15 DEF Telling
  <2>13. DeliveredInOrder
    BY <1>5, <2>4, <2>5, <2>6, <2>8 DEF DeliveredInOrder
  <2> QED BY <1>3, <1>4, <2>1, <2>5, <2>12, <2>13 DEF ListenersKnow
<1>7. CASE ~Tells(call, e.out)
  <2>1. locked' = locked /\ emitting' = emitting
    BY <1>7 DEF Perform, e
  <2>2. ~Delivers
    BY <2>1 DEF Delivers
  <2>3. \A i \in 1..Len(listeners) : known'[listeners[i]] = root
    BY <1>3, <1>4, <1>5, <2>2 DEF Observed
  <2>4. listeners = <<>> \/ e.root = root
    BY <1>1, <1>7 DEF Tells
  <2>5. \A l \in ToSet(listeners') : known'[l] = root'
    BY <1>3, <1>4, <2>3, <2>4 DEF ToSet
  <2> QED BY <1>2, <2>1, <2>2, <2>5 DEF ListenersKnow, DeliveredInOrder
<1> QED BY <1>6, <1>7

\* A listener that returns hands over to the next one, or ends the call.
LEMMA ReturnListening ==
  ASSUME ListeningInv, ListenerReturns, Observed
  PROVE  /\ ~locked' => emitting' = <<>>
         /\ locked' => \E n \in 1..Len(listeners') : \E request, out, old :
                         Telling(n, request, out, old)'
         /\ ListenersKnow'
         /\ DeliveredInOrder
<1>1. locked /\ emitting # <<>> /\ listeners \in Seq(Listeners)
  BY DEF ListeningInv, ListenerReturns
<1>2. Len(listeners) \in Nat /\ \A i \in 1..Len(listeners) : listeners[i] \in Listeners
  BY <1>1
<1>3. root' = root /\ listeners' = listeners
  BY DEF ListenerReturns, treeVars
<1>4. PICK n \in 1..Len(listeners) : \E request, out, old : Telling(n, request, out, old)
  BY <1>1 DEF ListeningInv
<1>5. PICK request, out, old : Telling(n, request, out, old)
  BY <1>4
<1> DEFINE L    == Len(listeners)
<1>13. PICK rest : rest = SubSeq(listeners, n, L)
  OBVIOUS
<1> DEFINE em   == [request |-> request, out |-> out, oldRootHash |-> old,
                    newRootHash |-> root, left |-> rest]
<1>6. emitting = <<em>> /\ old # root
  BY <1>5, <1>13 DEF Telling
<1>7. \A i \in 1..L :
        known[listeners[i]] = IF \E j \in 1..n : listeners[j] = listeners[i] THEN root ELSE old
  BY <1>5 DEF Telling
<1>8. rest \in Seq(Listeners) /\ Len(rest) = L - n + 1
  BY <1>1, <1>2, <1>13, SubSeqProperties
<1>9. Tail(rest) = SubSeq(listeners, n + 1, L)
  BY <1>1, <1>2, <1>13, HeadTailOfSubSeq
<1>10. Last(emitting) = em /\ Front(emitting) = <<>> /\ Len(emitting) = 1
  BY <1>6 DEF Last, Front
<1>11. CASE n < L
  <2>1. Len(Last(emitting).left) > 1
    BY <1>2, <1>8, <1>10, <1>11
  <2>2. emitting' = Append(Front(emitting), [Last(emitting) EXCEPT !.left = Tail(@)])
    BY <2>1 DEF ListenerReturns
  <2>3. locked' = locked
    BY <2>1 DEF ListenerReturns
  <2> DEFINE new == [request |-> request, out |-> out, oldRootHash |-> old,
                     newRootHash |-> root, left |-> SubSeq(listeners, n + 1, L)]
  <2>18. [em EXCEPT !.left = Tail(@)] = [request |-> request, out |-> out, oldRootHash |-> old,
                                              newRootHash |-> root, left |-> Tail(rest)]
    <3>3. PICK tail : tail = Tail(rest)
      OBVIOUS
    <3>4. [em EXCEPT !.left = tail] = [request |-> request, out |-> out, oldRootHash |-> old,
                                       newRootHash |-> root, left |-> tail]
      OBVIOUS
    <3>1. [em EXCEPT !.left = Tail(rest)] = [request |-> request, out |-> out, oldRootHash |-> old,
                                             newRootHash |-> root, left |-> Tail(rest)]
      <4> HIDE DEF em
      <4> QED BY <3>3, <3>4
    <3>2. em.left = rest
      OBVIOUS
    <3> HIDE DEF em
    <3> QED BY <3>1, <3>2
  <2>15. [em EXCEPT !.left = Tail(@)] = new
    BY <1>9, <2>18
  <2>16. emitting' = Append(<<>>, [em EXCEPT !.left = Tail(@)])
    BY <1>10, <2>2
  <2>17. emitting' = Append(<<>>, new)
    BY <2>15, <2>16
  <2>4. emitting' = <<new>>
    <3> HIDE DEF new
    <3> QED BY <2>17
  <2>5. Len(SubSeq(listeners, n + 1, L)) = L - n
    BY <1>1, <1>2, <1>11, SubSeqProperties
  <2>6. Head(SubSeq(listeners, n + 1, L)) = listeners[n + 1]
    BY <1>1, <1>2, <1>11, HeadTailOfSubSeq
  <2>7. em.left # new.left
    BY <1>2, <1>8, <2>5
  <2>8. emitting' # emitting /\ emitting' # <<>> /\ Len(emitting') = 1
    BY <1>6, <2>4, <2>7
  <2>9. Delivers
    BY <1>10, <2>8 DEF Delivers
  <2>10. /\ Last(emitting').left = SubSeq(listeners, n + 1, L)
         /\ Last(emitting').newRootHash = root
         /\ Last(emitting').oldRootHash = old
    BY <2>4 DEF Last
  <2>11. \A i \in 1..L :
           known'[listeners[i]] = IF listeners[n + 1] = listeners[i] THEN root ELSE known[listeners[i]]
    BY <1>2, <1>3, <2>6, <2>9, <2>10 DEF Observed
  <2>12. \A i \in 1..L :
           known'[listeners[i]] = IF \E j \in 1..(n + 1) : listeners[j] = listeners[i] THEN root ELSE old
    <3>1. \A i \in 1..L : (\E j \in 1..(n + 1) : listeners[j] = listeners[i])
                          <=> \/ listeners[n + 1] = listeners[i]
                              \/ \E j \in 1..n : listeners[j] = listeners[i]
      BY <1>2
    <3> QED BY <1>7, <2>11, <3>1
  <2>13. Telling(n + 1, request, out, old)'
    BY <1>3, <1>6, <2>4, <2>12 DEF Telling
  <2>14. DeliveredInOrder
    <3> DEFINE at == {i \in DOMAIN listeners : listeners[i] = listeners[n + 1]}
    <3>1. CASE known[listeners[n + 1]] = old
      BY <1>6, <2>6, <2>10, <3>1 DEF DeliveredInOrder
    <3>2. CASE known[listeners[n + 1]] # old
      <4>1. known[listeners[n + 1]] = root
        BY <1>2, <1>7, <1>11, <3>2
      <4>2. PICK j \in 1..n : listeners[j] = listeners[n + 1]
        BY <1>2, <1>7, <1>11, <3>2
      <4>3. at \in SUBSET (1..L) /\ {j, n + 1} \in SUBSET at
        BY <1>1, <1>2, <1>11, <4>2
      <4>4. IsFiniteSet(1..L)
        BY <1>2, FS_Interval
      <4>5. IsFiniteSet(at) /\ Cardinality(at) \in Nat
        BY <4>3, <4>4, FS_Subset, FS_CardinalityType
      <4>6. Cardinality(at) # 0
        BY <4>3, <4>5, FS_EmptySet
      <4>7. Cardinality(at) # 1
        <5>1. j # n + 1
          BY <4>2
        <5>2. \A a : at # {a}
          BY <4>3, <5>1
        <5> HIDE DEF at
        <5> QED BY <4>5, <5>2, FS_Singleton
      <4>8. Cardinality(at) > 1
        BY <4>5, <4>6, <4>7
      <4> QED BY <1>6, <2>6, <2>10, <4>1, <4>8 DEF DeliveredInOrder
    <3> QED BY <3>1, <3>2
  <2> QED BY <1>1, <1>2, <1>3, <1>11, <2>3, <2>13, <2>14 DEF ListenersKnow
<1>12. CASE n = L
  <2>7. Len(rest) = 1
    BY <1>2, <1>8, <1>12
  <2>8. Last(emitting).left = rest
    BY <1>10
  <2>9. Len(Last(emitting).left) = 1
    BY <2>7, <2>8
  <2>1. ~(Len(Last(emitting).left) > 1)
    BY <2>9
  <2>2. emitting' = <<>> /\ locked' = FALSE
    BY <1>10, <2>1 DEF ListenerReturns
  <2>3. ~Delivers
    BY <2>2 DEF Delivers
  <2>4. \A i \in 1..L : known[listeners[i]] = root
    BY <1>7, <1>12
  <2>5. \A i \in 1..L : known'[listeners[i]] = root
    BY <1>2, <1>3, <2>3, <2>4 DEF Observed
  <2>6. \A l \in ToSet(listeners') : known'[l] = root'
    BY <1>2, <1>3, <2>5 DEF ToSet
  <2> QED BY <2>2, <2>3, <2>6 DEF ListenersKnow, DeliveredInOrder
<1> QED BY <1>2, <1>11, <1>12

\* Whatever neither tells anybody nor changes the list leaves all as it was.
LEMMA QuietListening ==
  ASSUME ListeningInv, UNCHANGED <<root, listeners, emitting, locked>>,
         Observed \/ known' = known
  PROVE  /\ ~locked' => emitting' = <<>>
         /\ locked' => \E n \in 1..Len(listeners') : \E request, out, old :
                         Telling(n, request, out, old)'
         /\ ListenersKnow'
         /\ DeliveredInOrder
<1>1. ~Delivers
  BY DEF Delivers
<1>2. listeners \in Seq(Listeners)
  BY DEF ListeningInv
<1>3. \A i \in 1..Len(listeners) : known'[listeners[i]] = known[listeners[i]]
  BY <1>1, <1>2 DEF Observed
<1>4. CASE locked
  <2>1. PICK n \in 1..Len(listeners) : \E request, out, old : Telling(n, request, out, old)
    BY <1>4 DEF ListeningInv
  <2>2. PICK request, out, old : Telling(n, request, out, old)
    BY <2>1
  <2>3. Telling(n, request, out, old)'
    <3>1. \A i \in 1..Len(listeners') :
            known'[listeners'[i]]
              = IF \E j \in 1..n : listeners'[j] = listeners'[i] THEN root' ELSE old
      BY <1>3, <2>2 DEF Telling
    <3>2. /\ emitting' = <<[request |-> request, out |-> out, oldRootHash |-> old,
                            newRootHash |-> root',
                            left |-> SubSeq(listeners', n, Len(listeners'))]>>
          /\ old # root'
      BY <2>2 DEF Telling
    <3> QED BY <3>1, <3>2 DEF Telling
  <2> QED BY <1>1, <1>4, <2>3 DEF ListenersKnow, DeliveredInOrder
<1>5. CASE ~locked
  <2>1. \A l \in ToSet(listeners) : known'[l] = root
    BY <1>2, <1>3, <1>5 DEF ListeningInv, ListenersKnow, ToSet
  <2> QED BY <1>1, <1>5, <2>1 DEF ListeningInv, ListenersKnow, DeliveredInOrder
<1> QED BY <1>4, <1>5

\* The list changes only when no emission goes through it.
LEMMA ListListening ==
  ASSUME ListeningInv, NEW l \in Listeners, OnChange(l) \/ OffChange(l), Observed
  PROVE  /\ listeners' \in Seq(Listeners)
         /\ ~locked' => emitting' = <<>>
         /\ ~locked'
         /\ ListenersKnow'
         /\ DeliveredInOrder
<1>1. emitting = <<>> /\ emitting' = emitting /\ root' = root /\ locked' = locked
  BY DEF OnChange, OffChange, Borrowed, treeVars
<1>2. ~locked
  BY <1>1 DEF ListeningInv, Telling
<1>3. ~Delivers
  BY <1>1 DEF Delivers
<1>4. listeners \in Seq(Listeners)
  BY DEF ListeningInv
<1>5. listeners' = Append(listeners, l) \/ listeners' = Without(listeners, l)
  BY DEF OnChange, OffChange
<1>6. listeners' \in Seq(Listeners)
  <2>1. Append(listeners, l) \in Seq(Listeners)
    BY <1>4
  <2>2. Without(listeners, l) \in Seq(Listeners)
    BY <1>4, WithoutSeq
  <2> QED BY <1>5, <2>1, <2>2
<1>7. ToSet(listeners') \subseteq Listeners
  BY <1>6 DEF ToSet
<1>8. \A k \in ToSet(listeners') : known'[k] = root
  <2> SUFFICES ASSUME NEW k \in ToSet(listeners') PROVE known'[k] = root
    OBVIOUS
  <2>1. k \in Listeners
    BY <1>7
  <2>2. CASE k \in ToSet(listeners)
    BY <1>2, <1>3, <2>1, <2>2 DEF ListeningInv, ListenersKnow, Observed
  <2>3. CASE k \notin ToSet(listeners)
    BY <1>1, <1>3, <2>1, <2>3 DEF Observed
  <2> QED BY <2>2, <2>3
<1> QED BY <1>1, <1>2, <1>3, <1>6, <1>8 DEF ListenersKnow, DeliveredInOrder

\* What may be queued may stay queued: the versions only grow.
LEMMA TasksGrow ==
  ASSUME versions \subseteq versions', NEW s \in Seq(AsyncCalls)
  PROVE  s \in Seq(AsyncCalls')
<1>1. AsyncCalls \subseteq AsyncCalls'
  BY DEF AsyncCalls, SyncCalls
<1> QED BY <1>1, SeqMonotonic

\* Each step keeps the invariant, and what it delivers is in order.
LEMMA NextListening ==
  ASSUME ListeningInv, OutcomesTell, Next, Observed
  PROVE  ListeningInv' /\ DeliveredInOrder
<1>1. listeners \in Seq(Listeners) /\ tasks \in Seq(AsyncCalls)
  BY DEF ListeningInv
<1> DEFINE Kept == /\ ~locked' => emitting' = <<>>
                   /\ locked' => \E n \in 1..Len(listeners') : \E request, out, old :
                                   Telling(n, request, out, old)'
                   /\ ListenersKnow'
                   /\ DeliveredInOrder
<1>2. ASSUME listeners' \in Seq(Listeners), tasks' \in Seq(AsyncCalls'), Kept
      PROVE  ListeningInv' /\ DeliveredInOrder
  BY <1>2 DEF ListeningInv
<1> HIDE DEF Kept
<1>3. SyncCalls \subseteq AsyncCalls
  BY DEF AsyncCalls
<1>4. CASE Subscribe
  <2>1. PICK l \in Listeners : \/ OnChange(l) \/ OffChange(l)
                               \/ \E op \in {"onChange", "offChange"} : ListenersBusy(op, l)
    BY <1>4 DEF Subscribe
  <2>2. tasks' = tasks /\ versions' = versions
    BY <2>1 DEF OnChange, OffChange, ListenersBusy, treeVars
  <2>3. tasks' \in Seq(AsyncCalls')
    BY <1>1, <2>2, TasksGrow
  <2>4. CASE OnChange(l) \/ OffChange(l)
    <3>1. Kept /\ listeners' \in Seq(Listeners)
      BY <2>4, ListListening DEF Kept
    <3> QED BY <1>2, <2>3, <3>1
  <2>5. CASE \E op \in {"onChange", "offChange"} : ListenersBusy(op, l)
    <3>1. UNCHANGED <<root, listeners, emitting, locked>>
      BY <2>5 DEF ListenersBusy, treeVars
    <3>2. Kept
      BY <3>1, QuietListening DEF Kept
    <3> QED BY <1>1, <1>2, <2>3, <3>1, <3>2
  <2> QED BY <2>1, <2>4, <2>5
<1>5. ASSUME NEW call \in AsyncCalls, AsyncCall(call)
      PROVE  ListeningInv' /\ DeliveredInOrder
  <2>1. UNCHANGED <<root, listeners, emitting, locked, versions>> /\ tasks' = Append(tasks, call)
    BY <1>5 DEF AsyncCall, treeVars
  <2>2. tasks' \in Seq(AsyncCalls)
    BY <1>1, <2>1
  <2>3. tasks' \in Seq(AsyncCalls')
    BY <2>1, <2>2, TasksGrow
  <2>4. Kept
    BY <2>1, QuietListening DEF Kept
  <2> QED BY <1>1, <1>2, <2>1, <2>3, <2>4
<1>6. ASSUME NEW call \in SyncCalls, SyncCall(call)
      PROVE  ListeningInv' /\ DeliveredInOrder
  <2>1. call \in AsyncCalls /\ ~locked /\ Perform(call) /\ tasks' = tasks
    BY <1>3, <1>6 DEF SyncCall
  <2>2. listeners' = listeners /\ versions \subseteq versions'
    BY <2>1 DEF Perform
  <2>3. Kept
    BY <2>1, PerformListening DEF Kept
  <2>4. tasks' \in Seq(AsyncCalls')
    BY <1>1, <2>1, <2>2, TasksGrow
  <2> QED BY <1>1, <1>2, <2>2, <2>3, <2>4
<1>7. ASSUME NEW call \in SyncCalls, SyncCallFails(call)
      PROVE  ListeningInv' /\ DeliveredInOrder
  <2>1. UNCHANGED <<root, listeners, emitting, locked, versions, tasks>>
    BY <1>7 DEF SyncCallFails, treeVars
  <2>2. tasks' \in Seq(AsyncCalls')
    BY <1>1, <2>1, TasksGrow
  <2>3. Kept
    BY <2>1, QuietListening DEF Kept
  <2> QED BY <1>1, <1>2, <2>1, <2>2, <2>3
<1>8. CASE ListenerReturns
  <2>1. UNCHANGED <<versions, tasks, listeners>>
    BY <1>8 DEF ListenerReturns, treeVars
  <2>2. tasks' \in Seq(AsyncCalls')
    BY <1>1, <2>1, TasksGrow
  <2>3. Kept
    BY <1>8, ReturnListening DEF Kept
  <2> QED BY <1>1, <1>2, <2>1, <2>2, <2>3
<1>9. CASE RunTask
  <2>1. ~locked /\ tasks # <<>> /\ Perform(Head(tasks)) /\ tasks' = Tail(tasks)
    BY <1>9 DEF RunTask
  <2>2. Head(tasks) \in AsyncCalls /\ Tail(tasks) \in Seq(AsyncCalls)
    BY <1>1, <2>1, HeadTailProperties
  <2>3. PICK call \in AsyncCalls : call = Head(tasks)
    BY <2>2
  <2>4. Perform(call)
    BY <2>1, <2>3 DEF Perform
  <2>5. listeners' = listeners /\ versions \subseteq versions'
    BY <2>4 DEF Perform
  <2>6. Kept
    BY <2>1, <2>4, PerformListening DEF Kept
  <2>7. tasks' \in Seq(AsyncCalls')
    BY <2>1, <2>2, <2>5, TasksGrow
  <2> QED BY <1>1, <1>2, <2>5, <2>6, <2>7
<1>10. CASE CallTree
  BY <1>5, <1>6, <1>7, <1>10 DEF CallTree
<1> QED BY <1>4, <1>8, <1>9, <1>10 DEF Next

\* A step that changes nothing keeps it too.
LEMMA StutterListening ==
  ASSUME ListeningInv, UNCHANGED listeningVars
  PROVE  ListeningInv'
<1>1. UNCHANGED <<root, listeners, emitting, locked, versions, tasks, known>>
  BY DEF listeningVars, facadeVars
<1>2. /\ ~locked' => emitting' = <<>>
      /\ locked' => \E n \in 1..Len(listeners') : \E request, out, old :
                      Telling(n, request, out, old)'
      /\ ListenersKnow'
  BY <1>1, QuietListening
<1>3. tasks \in Seq(AsyncCalls) /\ listeners \in Seq(Listeners)
  BY DEF ListeningInv
<1>4. tasks' \in Seq(AsyncCalls')
  BY <1>1, <1>3, TasksGrow
<1> QED BY <1>1, <1>2, <1>3, <1>4 DEF ListeningInv

\* It holds of a tree just opened, whatever tree that is.
LEMMA InitListening == ListeningInit => ListeningInv
<1> SUFFICES ASSUME ListeningInit PROVE ListeningInv
  OBVIOUS
<1>1. locked = FALSE /\ tasks = <<>> /\ listeners = <<>> /\ emitting = <<>>
  BY DEF ListeningInit, Opened
<1> QED BY <1>1 DEF ListeningInv, ListenersKnow, ToSet

(***************************************************************************)
(* A listener is told whom and when: each listener being told, the root it *)
(* is told of is the tree's, and those before it in the list know it.      *)
(***************************************************************************)
THEOREM ListeningInvHolds == ListeningSpec /\ []OutcomesTell => []ListeningInv
<1>1. OutcomesTell /\ ListeningInv /\ [Next /\ Observed]_listeningVars => ListeningInv'
  BY NextListening, StutterListening
<1> QED BY <1>1, InitListening, PTL DEF ListeningSpec

(***************************************************************************)
(* Whenever no call of a PTree is under way, every registered listener     *)
(* knows the root: for any number of listeners and calls, whatever the     *)
(* listeners call, as long as calls report what they have done.            *)
(***************************************************************************)
THEOREM ListenersStayInformed == ListeningSpec /\ []OutcomesTell => []ListenersKnow
<1>1. ListeningInv => ListenersKnow
  BY DEF ListeningInv
<1> QED BY <1>1, ListeningInvHolds, PTL

(***************************************************************************)
(* Every event of a PTree starts from the root its listener knows, and     *)
(* ends with another: none is lost, repeated, or told out of order.        *)
(***************************************************************************)
THEOREM EventsStayInOrder == ListeningSpec /\ []OutcomesTell => EventsFollow
<1>1. OutcomesTell /\ ListeningInv /\ [Next /\ Observed]_listeningVars
        => [DeliveredInOrder]_listeningVars
  BY NextListening
<1> QED BY <1>1, ListeningInvHolds, PTL DEF ListeningSpec, EventsFollow
=============================================================================
