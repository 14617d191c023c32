--------------------------- MODULE WorkQueueProofs --------------------------
(***************************************************************************)
(* The work queue for any items, concurrency and length: identities and    *)
(* bounds are exact, and no slot is idle while an item waits.  launch is   *)
(* the heart: one lemma says what it does to a queue without repetitions.  *)
(***************************************************************************)
EXTENDS WorkQueue, FiniteSetTheorems, SequenceTheorems, TLAPS

Shapes ==
  /\ pending \in Seq(Items)
  /\ running \in SUBSET Items /\ IsFiniteSet(running)
  /\ stopped \in BOOLEAN /\ finishing \in BOOLEAN

\* A queue that stopped by cancelling holds nothing: the one case in which
\* the end of a run may launch nothing.
CancelledEmpty == stopped /\ ~finishing => pending = <<>>

QInv == Shapes /\ QueueConsistent /\ NoIdleSlot /\ CancelledEmpty

\* The smaller of two numbers.
LEMMA MinOfTwo ==
  ASSUME NEW a \in Nat, NEW b \in Nat
  PROVE  Min({a, b}) = IF a <= b THEN a ELSE b
  <1>1. CASE a <= b
    <2>1. a \in {a, b} /\ \A y \in {a, b} : a <= y
      BY <1>1
    <2>2. \A x \in {a, b} : (\A y \in {a, b} : x <= y) => x = a
      BY <1>1
    <2> QED  BY <1>1, <2>1, <2>2 DEF Min
  <1>2. CASE ~(a <= b)
    <2>1. b \in {a, b} /\ \A y \in {a, b} : b <= y
      BY <1>2
    <2>2. \A x \in {a, b} : (\A y \in {a, b} : x <= y) => x = b
      BY <1>2
    <2> QED  BY <1>2, <2>1, <2>2 DEF Min
  <1> QED  BY <1>1, <1>2

\* The first n items of a queue without repetitions are n items.
LEMMA PrefixCount ==
  ASSUME NEW q \in Seq(Items), IsInjective(q), NEW n \in 0..Len(q)
  PROVE  /\ IsFiniteSet(ToSet(SubSeq(q, 1, n)))
         /\ Cardinality(ToSet(SubSeq(q, 1, n))) = n
  <1> DEFINE p == SubSeq(q, 1, n)
             T == ToSet(p)
  <1>1. /\ p \in Seq(Items) /\ Len(p) = n
        /\ \A i \in 1..n : p[i] = q[i]
    BY SubSeqProperties
  <1>2. DOMAIN p = 1..n /\ DOMAIN q = 1..Len(q) /\ n \in Nat
    BY <1>1
  <1>3. T = {p[i] : i \in 1..n}
    BY <1>2 DEF ToSet
  <1> HIDE DEF p, T
  <1>4. p \in [1..n -> T]
    BY <1>1, <1>2, <1>3
  <1>5. \A i, j \in 1..n : p[i] = p[j] => i = j
    BY <1>1, <1>2 DEF IsInjective
  <1>6. p \in Bijection(1..n, T)
    BY <1>2, <1>3, <1>4, <1>5
    DEF Bijection, Injection, Surjection, IsInjective
  <1>7. ExistsBijection(1..n, T)
    BY <1>6 DEF ExistsBijection
  <1>8. IsFiniteSet(T) /\ Cardinality(T) = n
    BY <1>2, <1>7, FS_NatBijection, FS_CountingElements
  <1> QED  BY <1>8 DEF T, p

\* launch moves a prefix of the queue into the free slots: nothing is lost or
\* duplicated, and if it may start items, none waits for a free slot.
LEMMA LaunchEffect ==
  ASSUME NEW q \in Seq(Items), IsInjective(q),
         NEW busy \in SUBSET Items, IsFiniteSet(busy),
         Cardinality(busy) <= concurrency, ToSet(q) \cap busy = {},
         NEW may \in BOOLEAN, Launch(q, busy, may)
  PROVE  /\ pending' \in Seq(Items) /\ IsInjective(pending')
         /\ running' \in SUBSET Items /\ IsFiniteSet(running')
         /\ ToSet(pending') \cup running' = ToSet(q) \cup busy
         /\ ToSet(pending') \cap running' = {}
         /\ Len(pending') <= Len(q) /\ Cardinality(running') <= concurrency
         /\ may /\ pending' # <<>> => Cardinality(running') = concurrency
         /\ q = <<>> => pending' = <<>>
  <1>1. Cardinality(busy) \in Nat /\ concurrency \in Nat /\ Len(q) \in Nat
    BY FS_CardinalityType, BoundsAssumption
  <1>2. PICK free \in Nat : free = concurrency - Cardinality(busy)
    BY <1>1
  <1>3. PICK n : n = Started(q, busy, may)
    OBVIOUS
  <1>4. n = IF may THEN IF Len(q) <= free THEN Len(q) ELSE free ELSE 0
    BY <1>1, <1>2, <1>3, MinOfTwo DEF Started
  <1>5. n \in 0..Len(q) /\ n <= free
    BY <1>1, <1>4
  <1>6. /\ running' = busy \cup ToSet(SubSeq(q, 1, n))
        /\ pending' = SubSeq(q, n + 1, Len(q))
    BY <1>3 DEF Launch
  <1>7. /\ pending' \in Seq(Items)
        /\ Len(pending') = Len(q) - n
        /\ \A i \in 1..(Len(q) - n) : pending'[i] = q[n + i]
    <2>1. \A i \in n + 1..Len(q) : q[i] \in Items
      BY <1>5
    <2> QED  BY <1>1, <1>5, <1>6, <2>1, SubSeqProperties
  <1>8. DOMAIN pending' = 1..(Len(q) - n) /\ DOMAIN q = 1..Len(q)
    BY <1>7
  <1>9. IsInjective(pending')
    <2> SUFFICES ASSUME NEW a \in 1..(Len(q) - n), NEW b \in 1..(Len(q) - n),
                        pending'[a] = pending'[b]
                 PROVE  a = b
      BY <1>8 DEF IsInjective
    <2>1. q[n + a] = q[n + b]
      BY <1>7
    <2>2. n + a \in DOMAIN q /\ n + b \in DOMAIN q
      BY <1>1, <1>5, <1>8
    <2>3. n + a = n + b
      BY <2>1, <2>2 DEF IsInjective
    <2> QED  BY <1>1, <1>5, <2>3
  <1>10. PICK T : T = ToSet(SubSeq(q, 1, n))
    OBVIOUS
  <1>11. T = {q[i] : i \in 1..n}
    <2>1. /\ Len(SubSeq(q, 1, n)) = n /\ SubSeq(q, 1, n) \in Seq(Items)
          /\ \A i \in 1..n : SubSeq(q, 1, n)[i] = q[i]
      BY <1>5, SubSeqProperties
    <2>2. DOMAIN SubSeq(q, 1, n) = 1..n
      BY <2>1
    <2> QED  BY <1>10, <2>1, <2>2 DEF ToSet
  <1>12. ToSet(pending') = {q[i] : i \in n + 1..Len(q)}
    <2>1. ToSet(pending') = {q[n + i] : i \in 1..(Len(q) - n)}
      BY <1>7, <1>8 DEF ToSet
    <2>2. \A i \in n + 1..Len(q) : /\ i - n \in 1..(Len(q) - n)
                                   /\ q[i] = q[n + (i - n)]
      BY <1>1, <1>5
    <2>3. \A i \in 1..(Len(q) - n) : n + i \in n + 1..Len(q)
      BY <1>1, <1>5
    <2> QED  BY <2>1, <2>2, <2>3
  <1>13. ToSet(q) = {q[i] : i \in 1..Len(q)}
    BY <1>8 DEF ToSet
  <1>14. ToSet(pending') \cup T = ToSet(q) /\ ToSet(pending') \cap T = {}
    <2>1. 1..Len(q) = (1..n) \cup (n + 1..Len(q))
      BY <1>1, <1>5
    <2>2. ToSet(pending') \cup T = ToSet(q)
      BY <1>11, <1>12, <1>13, <2>1
    <2>3. \A i \in 1..n : \A j \in n + 1..Len(q) :
            i \in 1..Len(q) /\ j \in 1..Len(q) /\ i # j
      BY <1>1, <1>5
    <2>4. ToSet(pending') \cap T = {}
      BY <1>8, <1>11, <1>12, <2>3 DEF IsInjective
    <2> QED  BY <2>2, <2>4
  <1>15. IsFiniteSet(T) /\ Cardinality(T) = n
    BY <1>5, <1>10, PrefixCount
  <1>16. busy \cap T = {} /\ T \subseteq Items
    <2>1. ToSet(q) \subseteq Items
      BY <1>13
    <2> QED  BY <1>14, <2>1
  <1>17. /\ IsFiniteSet(running') /\ running' \in SUBSET Items
         /\ Cardinality(running') = Cardinality(busy) + n
    <2>1. /\ IsFiniteSet(busy \cup T)
          /\ Cardinality(busy \cup T)
               = Cardinality(busy) + Cardinality(T) - Cardinality(busy \cap T)
      BY <1>15, FS_Union
    <2>2. Cardinality(busy \cap T) = 0
      BY <1>16, FS_EmptySet
    <2> QED  BY <1>1, <1>5, <1>6, <1>10, <1>15, <1>16, <2>1, <2>2
  <1>18. /\ ToSet(pending') \cup running' = ToSet(q) \cup busy
         /\ ToSet(pending') \cap running' = {}
    BY <1>6, <1>10, <1>14
  <1>19. /\ Len(pending') <= Len(q) /\ Cardinality(running') <= concurrency
         /\ may /\ Len(pending') # 0 => Cardinality(running') = concurrency
    BY <1>1, <1>2, <1>4, <1>5, <1>7, <1>17
  <1>20. /\ Len(pending') = 0 <=> pending' = <<>>
         /\ q = <<>> => Len(pending') = 0
    BY <1>1, <1>5, <1>7, EmptySeq
  <1> QED  BY <1>7, <1>9, <1>17, <1>18, <1>19, <1>20

LEMMA InitQInv == Init => QInv
  <1> SUFFICES ASSUME Init PROVE QInv
    OBVIOUS
  <1>1. Shapes /\ CancelledEmpty /\ NoIdleSlot
    <2>1. pending \in Seq(Items)
      BY EmptySeq DEF Init
    <2>2. IsFiniteSet(running) /\ running \in SUBSET Items
      BY FS_EmptySet DEF Init
    <2> QED  BY <2>1, <2>2 DEF Init, Shapes, CancelledEmpty, NoIdleSlot
  <1>2. Cardinality(running) <= concurrency /\ Len(pending) <= maxPending
    BY FS_EmptySet, BoundsAssumption DEF Init
  <1>3. ToSet(pending) = {} /\ IsInjective(pending)
    BY DEF Init, ToSet, IsInjective
  <1> QED  BY <1>1, <1>2, <1>3 DEF QInv, QueueConsistent, Init

\* enqueue: a new item goes to the end, and starts if a slot is free.
LEMMA EnqueueQInv ==
  ASSUME QInv, NEW i \in Items, enqueue(i)
  PROVE  QInv'
  <1>1. /\ Shapes /\ QueueConsistent /\ ~stopped /\ i \notin identities
        /\ Len(pending) < maxPending
        /\ identities' = identities \cup {i}
        /\ stopped' = stopped /\ finishing' = finishing
    BY DEF QInv, enqueue
  <1>2. PICK q : q = Append(pending, i)
    OBVIOUS
  <1>3. /\ q \in Seq(Items) /\ Len(q) = Len(pending) + 1
        /\ \A j \in 1..Len(pending) : q[j] = pending[j]
        /\ q[Len(pending) + 1] = i
    BY <1>1, <1>2, AppendProperties DEF Shapes
  <1>4. DOMAIN q = 1..(Len(pending) + 1) /\ DOMAIN pending = 1..Len(pending)
    BY <1>1, <1>3 DEF Shapes
  <1>5. Len(pending) \in Nat
    BY <1>1 DEF Shapes
  <1>6. ToSet(q) = ToSet(pending) \cup {i}
    BY <1>3, <1>4, <1>5 DEF ToSet
  <1>7. i \notin ToSet(pending) /\ i \notin running
    BY <1>1 DEF QueueConsistent
  <1>8. \A j \in 1..Len(pending) : q[j] # i
    BY <1>3, <1>4, <1>7 DEF ToSet
  <1>9. IsInjective(q)
    BY <1>1, <1>3, <1>4, <1>5, <1>8 DEF QueueConsistent, IsInjective
  <1>10. ToSet(q) \cap running = {} /\ Cardinality(running) <= concurrency
    BY <1>1, <1>6, <1>7 DEF QueueConsistent
  <1>11. Launch(q, running, TRUE)
    BY <1>2 DEF enqueue
  <1>12. /\ pending' \in Seq(Items) /\ IsInjective(pending')
         /\ running' \in SUBSET Items /\ IsFiniteSet(running')
         /\ ToSet(pending') \cup running' = ToSet(q) \cup running
         /\ ToSet(pending') \cap running' = {}
         /\ Len(pending') <= Len(q) /\ Cardinality(running') <= concurrency
         /\ pending' # <<>> => Cardinality(running') = concurrency
    BY <1>1, <1>3, <1>9, <1>10, <1>11, LaunchEffect DEF Shapes
  <1>13. Len(pending') <= maxPending
    BY <1>1, <1>3, <1>5, <1>12, BoundsAssumption
  <1>14. identities' = ToSet(pending') \cup running'
    BY <1>1, <1>6, <1>12 DEF QueueConsistent
  <1> QED
    BY <1>1, <1>12, <1>13, <1>14
    DEF QInv, Shapes, QueueConsistent, NoIdleSlot, CancelledEmpty

\* The end of a run frees its identity and its slot, and fills the slot.
LEMMA FinishQInv ==
  ASSUME QInv, NEW i \in Items, Finish(i)
  PROVE  QInv'
  <1>1. /\ Shapes /\ QueueConsistent /\ CancelledEmpty /\ i \in running
        /\ identities' = identities \ {i}
        /\ stopped' = stopped /\ finishing' = finishing
    BY DEF QInv, Finish
  <1>2. PICK busy : busy = running \ {i}
    OBVIOUS
  <1>3. /\ busy \in SUBSET Items /\ IsFiniteSet(busy)
        /\ Cardinality(busy) = Cardinality(running) - 1
        /\ Cardinality(running) \in Nat
    BY <1>1, <1>2, FS_RemoveElement, FS_CardinalityType DEF Shapes
  <1>4. Cardinality(busy) <= concurrency /\ ToSet(pending) \cap busy = {}
    BY <1>1, <1>2, <1>3, BoundsAssumption DEF QueueConsistent
  <1>5. PICK may \in BOOLEAN : may = (finishing \/ ~stopped)
    OBVIOUS
  <1>6. Launch(pending, busy, may)
    BY <1>2, <1>5 DEF Finish
  <1>7. /\ pending' \in Seq(Items) /\ IsInjective(pending')
        /\ running' \in SUBSET Items /\ IsFiniteSet(running')
        /\ ToSet(pending') \cup running' = ToSet(pending) \cup busy
        /\ ToSet(pending') \cap running' = {}
        /\ Len(pending') <= Len(pending)
        /\ Cardinality(running') <= concurrency
        /\ may /\ pending' # <<>> => Cardinality(running') = concurrency
        /\ pending = <<>> => pending' = <<>>
    BY <1>1, <1>3, <1>4, <1>6, LaunchEffect DEF Shapes, QueueConsistent
  <1>8. Len(pending') <= maxPending
    <2>1. Len(pending') \in Nat /\ Len(pending) \in Nat
      BY <1>1, <1>7 DEF Shapes
    <2> QED  BY <1>1, <1>7, <2>1, BoundsAssumption DEF QueueConsistent
  <1>9. identities' = ToSet(pending') \cup running'
    BY <1>1, <1>2, <1>7 DEF QueueConsistent
  <1>10. (may \/ pending = <<>>) /\ CancelledEmpty'
    BY <1>1, <1>5, <1>7 DEF CancelledEmpty
  <1> QED
    BY <1>1, <1>7, <1>8, <1>9, <1>10
    DEF QInv, Shapes, QueueConsistent, NoIdleSlot

\* stop: what was accepted goes on.
LEMMA StopQInv ==
  ASSUME QInv, NEW w, stop(w)
  PROVE  QInv'
  <1>1. /\ Shapes /\ QueueConsistent /\ stopped' = TRUE /\ finishing' = TRUE
        /\ identities' = identities /\ Launch(pending, running, TRUE)
    BY DEF QInv, stop
  <1>2. /\ pending' \in Seq(Items) /\ IsInjective(pending')
        /\ running' \in SUBSET Items /\ IsFiniteSet(running')
        /\ ToSet(pending') \cup running' = ToSet(pending) \cup running
        /\ ToSet(pending') \cap running' = {}
        /\ Len(pending') <= Len(pending)
        /\ Cardinality(running') <= concurrency
        /\ pending' # <<>> => Cardinality(running') = concurrency
    BY <1>1, LaunchEffect DEF Shapes, QueueConsistent
  <1>3. Len(pending') <= maxPending
    <2>1. Len(pending') \in Nat /\ Len(pending) \in Nat
      BY <1>1, <1>2 DEF Shapes
    <2> QED  BY <1>1, <1>2, <2>1, BoundsAssumption DEF QueueConsistent
  <1>4. identities' = ToSet(pending') \cup running'
    BY <1>1, <1>2 DEF QueueConsistent
  <1> QED
    BY <1>1, <1>2, <1>3, <1>4
    DEF QInv, Shapes, QueueConsistent, NoIdleSlot, CancelledEmpty

\* stop({ cancelPending: true }) drops the queue with its identities.
LEMMA CancelQInv ==
  ASSUME QInv, NEW w, StopCancelling(w)
  PROVE  QInv'
  <1>1. /\ Shapes /\ QueueConsistent
        /\ stopped' = TRUE /\ pending' = <<>>
        /\ identities' = identities \ ToSet(pending)
        /\ running' = running /\ finishing' = finishing
    BY DEF QInv, StopCancelling
  <1>2. ToSet(pending') = {} /\ IsInjective(pending') /\ Len(pending') = 0
    BY <1>1 DEF ToSet, IsInjective
  <1>3. identities' = ToSet(pending') \cup running'
    BY <1>1, <1>2 DEF QueueConsistent
  <1>4. Len(pending') <= maxPending
    BY <1>2, BoundsAssumption
  <1> QED
    BY <1>1, <1>2, <1>3, <1>4
    DEF QInv, Shapes, QueueConsistent, NoIdleSlot, CancelledEmpty

\* The invariant of the queue, for every value of the constants.
LEMMA QueueInvariance == Spec => []QInv
  <1>1. ASSUME QInv, [Next]_vars  PROVE QInv'
    <2>1. CASE \E i \in Items : enqueue(i) \/ Finish(i)
      BY <1>1, <2>1, EnqueueQInv, FinishQInv
    <2>2. CASE \E w \in Waiters \ waiting : stop(w) \/ StopCancelling(w)
      BY <1>1, <2>2, StopQInv, CancelQInv
    <2>3. CASE (\E w \in Waiters \ waiting : drain(w)) \/ UNCHANGED vars
      <3>1. UNCHANGED <<pending, running, identities, stopped, finishing>>
        BY <2>3 DEF drain, vars
      <3> QED
        BY <1>1, <3>1
        DEF QInv, Shapes, QueueConsistent, NoIdleSlot, CancelledEmpty
    <2> QED  BY <1>1, <2>1, <2>2, <2>3 DEF Next
  <1> QED  BY <1>1, InitQInv, PTL DEF Spec

\* Identities are held exactly by what is queued or running, nothing is in two
\* places, and both bounds hold, however enqueue, runs and stops interleave.
THEOREM QueueStaysConsistent == Spec => []QueueConsistent
  <1>1. QInv => QueueConsistent
    BY DEF QInv
  <1> QED  BY <1>1, QueueInvariance, PTL

\* launch never leaves a slot free while an item waits, not even after stop.
THEOREM SlotsStayBusy == Spec => []NoIdleSlot
  <1>1. QInv => NoIdleSlot
    BY DEF QInv
  <1> QED  BY <1>1, QueueInvariance, PTL
=============================================================================
