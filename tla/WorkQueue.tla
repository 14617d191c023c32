----------------------------- MODULE WorkQueue ------------------------------
(***************************************************************************)
(* The in-memory dispatch bound for durable recovery work                  *)
(* (relayer/src/workQueue.mjs): a FIFO of accepted items, at most          *)
(* concurrency of them running, and callers that wait for it to drain.     *)
(* Every function runs to its end without interruption; run() is external. *)
(***************************************************************************)
EXTENDS Naturals, Sequences, FiniteSets, SequencesExt

CONSTANTS Items, Waiters, concurrency, maxPending

ASSUME BoundsAssumption == concurrency \in Nat \ {0} /\ maxPending \in Nat

VARIABLES
  pending,     \* accepted items not yet running, oldest first
  running,     \* items whose run() has not settled (the code counts them: active)
  identities,  \* identities of accepted items
  stopped, finishing,
  waiting      \* callers whose drain promise is unresolved

vars == <<pending, running, identities, stopped, finishing, waiting>>

Init ==
  /\ pending = <<>> /\ running = {} /\ identities = {}
  /\ stopped = FALSE /\ finishing = FALSE /\ waiting = {}

\* Variant: the last free slot is not used.
StartedOneShort(queue, busy, may) ==
  IF may /\ Cardinality(busy) + 1 < concurrency THEN Min({Len(queue), 1}) ELSE 0

\* launch: how many of the queue's items start when busy ones are running.
Started(queue, busy, may) ==
  IF may THEN Min({Len(queue), concurrency - Cardinality(busy)}) ELSE 0

Launch(queue, busy, may) ==
  LET n == Started(queue, busy, may) IN
  /\ running' = busy \cup ToSet(SubSeq(queue, 1, n))
  /\ pending' = SubSeq(queue, n + 1, Len(queue))

\* settleDrain: waiters are released when nothing is left.
Drained == running' = {} /\ pending' = <<>>
settleDrain == IF Drained THEN {} ELSE waiting

\* drain: wait, unless nothing is left already.
Awaiting(waiters, w) == IF Drained THEN waiters ELSE waiters \cup {w}

enqueue(i) ==
  /\ ~stopped
  /\ i \notin identities
  /\ Len(pending) < maxPending
  /\ identities' = identities \cup {i}
  /\ Launch(Append(pending, i), running, TRUE)
  /\ waiting' = settleDrain
  /\ UNCHANGED <<stopped, finishing>>

\* The finally block of run().  Variant: a finished item keeps its identity.
FinishKeepsIdentity(i) ==
  /\ i \in running
  /\ Launch(pending, running \ {i}, finishing \/ ~stopped)
  /\ waiting' = settleDrain
  /\ UNCHANGED <<identities, stopped, finishing>>

Finish(i) ==
  /\ i \in running
  /\ identities' = identities \ {i}
  /\ Launch(pending, running \ {i}, finishing \/ ~stopped)
  /\ waiting' = settleDrain
  /\ UNCHANGED <<stopped, finishing>>

drain(w) ==
  /\ UNCHANGED <<pending, running, identities, stopped, finishing>>
  /\ waiting' = Awaiting(waiting, w)

\* stop, leaving accepted work to finish.  Variant: nothing marks it so.
StopForgetsQueue(w) ==
  /\ stopped' = TRUE
  /\ UNCHANGED <<pending, running, identities, finishing>>
  /\ waiting' = Awaiting(waiting, w)

stop(w) ==
  /\ stopped' = TRUE /\ finishing' = TRUE
  /\ Launch(pending, running, TRUE)
  /\ waiting' = Awaiting(settleDrain, w)
  /\ UNCHANGED identities

\* stop({ cancelPending: true }).
StopCancelling(w) ==
  /\ stopped' = TRUE
  /\ pending' = <<>>
  /\ identities' = identities \ ToSet(pending)
  /\ UNCHANGED <<running, finishing>>
  /\ waiting' = Awaiting(waiting, w)

Next ==
  \/ \E i \in Items : enqueue(i) \/ Finish(i)
  \/ \E w \in Waiters \ waiting : drain(w) \/ stop(w) \/ StopCancelling(w)

\* Every run() settles.
Spec == Init /\ [][Next]_vars /\ \A i \in Items : WF_vars(Finish(i))

-----------------------------------------------------------------------------
\* An identity is held exactly while its item is queued or running, and an item
\* is in only one place: a leaked identity would refuse an item for ever, a
\* missing one would run it twice at once.  The bounds hold.
QueueConsistent ==
  /\ identities = ToSet(pending) \cup running
  /\ IsInjective(pending) /\ ToSet(pending) \cap running = {}
  /\ Len(pending) <= maxPending /\ Cardinality(running) <= concurrency

\* Nothing waits while a slot is free, also after stop.
NoIdleSlot == pending # <<>> => Cardinality(running) = concurrency

\* An accepted item runs unless it is cancelled, and a caller that waits for a
\* stopped queue is released.
DrainsWhenStopped ==
  /\ \A i \in Items : i \in ToSet(pending) ~> i \in running \/ i \notin identities
  /\ \A w \in Waiters : stopped /\ w \in waiting ~> w \notin waiting
=============================================================================
