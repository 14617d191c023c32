--------------------------- MODULE MandateActivation ------------------------
(***************************************************************************)
(* Activation of Base session mandates in the relayer: the mandate and     *)
(* activation-work tables (sqliteStores.mjs, mandateStore.mjs), the        *)
(* activation worker, its queue and its retry timer (httpRouter.mjs).      *)
(* Several relayer processes share one database.  A lease token is drawn   *)
(* per claim; a process runs one activation per mandate and claims again   *)
(* only after the previous one ended, so the token is the claiming process.*)
(***************************************************************************)
EXTENDS Naturals, FiniteSets

CONSTANTS
  Mandates,       \* mandate ids
  Procs,          \* relayer processes on the same database
  None,           \* no lease
  Concurrency,    \* recoveryConcurrency: activations a process runs at once
  MaxPending,     \* recoveryLimit: places in its queue
  MaxFaults,      \* bound on crashes, failed calls and leases lost under a run
  MaxExpired      \* bound on mandates whose window ends

ASSUME ActivationAssumption ==
  /\ None \notin Procs
  /\ Concurrency \in Nat \ {0}
  /\ MaxPending \in Nat \ {0}
  /\ MaxFaults \in Nat
  /\ MaxExpired \in Nat

VARIABLES
  man,       \* mandates_v3: status, whether the session key is held, userOp hash
  work,      \* mandate_activation_work: status, lease, lease past its time, hash
  expired,   \* valid_until_seconds has passed
  run,       \* runMandateActivation per process and mandate: next step, hash
  ops,       \* activation userOps the bundler took, numbered from 1
  mined,     \* those that were included and succeeded
  queue,     \* mandateActivationQueue of each process, running items included
  boot,      \* startVerifiedRelayer: "down", "resume", "drain" or "up"
  loop,      \* the retry timer's callback: "idle", "scan" or "drain"
  req,       \* activationRetryRequested
  faults,    \* faults so far
  dropped    \* mandates whose claim the store failed

rows == <<man, work>>
chain == <<ops, mined>>
procVars == <<queue, boot, loop, req>>
vars == <<man, work, expired, run, chain, procVars, faults, dropped>>

Statuses == {"absent", "pending_activation", "active", "activation_uncertain",
             "revoked"}
Fenced == {"submitting", "submitted"}
Leased == {"running"} \cup Fenced
Mandate == [status : Statuses, key : BOOLEAN, hash : Nat]
ActivationWork == [status : {"none", "pending", "uncertain", "done"} \cup Leased,
                   lease : Procs \cup {None}, late : BOOLEAN, hash : Nat]
NoMandate == [status |-> "absent", key |-> FALSE, hash |-> 0]
NoWork == [status |-> "none", lease |-> None, late |-> FALSE, hash |-> 0]
Steps == {"idle", "load", "fence", "send", "sent", "receipt", "check",
          "evaluate", "active", "revoked", "unknown", "uncertain"}
Idle == [pc |-> "idle", hash |-> 0]

-----------------------------------------------------------------------------
\* Rows.

Ended(w, s) == [w EXCEPT !.status = s, !.lease = None, !.late = FALSE]

\* cleanupExpiredLocked: what any call that meets an expired mandate writes.
CleanedWork(m) ==
  IF work[m].status \in {"pending", "running"} THEN NoWork
  ELSE IF work[m].status \in Fenced THEN Ended(work[m], "uncertain")
  ELSE work[m]
CleanedMandate(m) ==
  [man[m] EXCEPT !.key = FALSE,
     !.status = IF work[m].status \in Fenced THEN "activation_uncertain" ELSE @]

Known(m) == man[m].status # "absent"
Expired(m) == Known(m) /\ expired[m]

Put(m, r, w) ==
  /\ man' = [man EXCEPT ![m] = r]
  /\ work' = [work EXCEPT ![m] = w]

\* A call on m that refuses: it cleans the mandate up if it has expired.
Refuse(m) ==
  Put(m, IF Expired(m) THEN CleanedMandate(m) ELSE man[m],
      IF Expired(m) THEN CleanedWork(m) ELSE work[m])

\* assertLive and assertLease
Live(p, m) == ~expired[m] /\ work[m].lease = p /\ ~work[m].late

\* Variant: an expired lease is retried whatever it had reached.
ReconciledRetries(m) ==
  IF work[m].status \in Leased /\ work[m].late THEN Ended(work[m], "pending")
  ELSE work[m]

\* reconcileExpired: before the fence the row is tried again, past it nobody
\* knows whether the operation was sent.
Reconciled(m) ==
  IF work[m].status \in Leased /\ work[m].late
  THEN Ended(work[m], IF work[m].status = "running" THEN "pending" ELSE "uncertain")
  ELSE work[m]

Fault == faults < MaxFaults /\ faults' = faults + 1

-----------------------------------------------------------------------------
Init ==
  /\ man = [m \in Mandates |-> NoMandate]
  /\ work = [m \in Mandates |-> NoWork]
  /\ expired = [m \in Mandates |-> FALSE]
  /\ run = [p \in Procs |-> [m \in Mandates |-> Idle]]
  /\ ops = [m \in Mandates |-> 0]
  /\ mined = [m \in Mandates |-> {}]
  /\ queue = [p \in Procs |-> {}]
  /\ boot = [p \in Procs |-> "resume"]
  /\ loop = [p \in Procs |-> "idle"]
  /\ req = [p \in Procs |-> FALSE]
  /\ faults = 0
  /\ dropped = {}

-----------------------------------------------------------------------------
\* Requests.

Capacity == Concurrency + MaxPending

\* Variant: a refused enqueue is forgotten.
ScheduleOnce(p, m) ==
  /\ queue' = [queue EXCEPT ![p] = IF Cardinality(@) < Capacity THEN @ \cup {m}
                                   ELSE @]
  /\ UNCHANGED req

\* scheduleMandateActivation: what the queue refuses, because it is full or
\* holds m already, is left to the retry timer.
Schedule(p, m) ==
  LET accepted == m \notin queue[p] /\ Cardinality(queue[p]) < Capacity
  IN /\ queue' = [queue EXCEPT ![p] = IF accepted THEN @ \cup {m} ELSE @]
     /\ req' = [req EXCEPT ![p] = @ \/ ~accepted]

\* POST /mandate of a new mandate: both rows are inserted in one transaction.
Register(p, m) ==
  /\ boot[p] = "up"
  /\ ~Known(m)
  /\ ~expired[m]
  /\ Put(m, [NoMandate EXCEPT !.status = "pending_activation", !.key = TRUE],
         [NoWork EXCEPT !.status = "pending"])
  /\ Schedule(p, m)
  /\ UNCHANGED <<expired, run, chain, boot, loop, faults, dropped>>

\* POST /mandate again, a replay: only a pending row is scheduled.
RegisterAgain(p, m) ==
  /\ boot[p] = "up"
  /\ Known(m)
  /\ Refuse(m)
  /\ IF ~expired[m] /\ work[m].status = "pending" THEN Schedule(p, m)
     ELSE UNCHANGED <<queue, req>>
  /\ UNCHANGED <<expired, run, chain, boot, loop, faults, dropped>>

\* Variant: the mandate is marked and its work row forgotten.
RevokeMandateOnly(m) ==
  /\ Known(m)
  /\ Put(m, IF expired[m] THEN CleanedMandate(m)
            ELSE [man[m] EXCEPT !.status = "revoked", !.key = FALSE],
         IF expired[m] THEN CleanedWork(m) ELSE work[m])

\* mandatesV3.revoke
revoke(m) ==
  /\ Known(m)
  /\ Put(m, IF expired[m] THEN CleanedMandate(m)
            ELSE [man[m] EXCEPT !.status = "revoked", !.key = FALSE],
         IF expired[m] THEN CleanedWork(m) ELSE NoWork)

\* POST /mandate/revoke, served by any process.
RevokeRequest(m) ==
  /\ \E p \in Procs : boot[p] = "up"
  /\ revoke(m)
  /\ UNCHANGED <<expired, run, chain, procVars, faults, dropped>>

\* Reading an expired mandate (status, authority, get) cleans it up.
ReadExpired(m) ==
  /\ \E p \in Procs : boot[p] = "up"
  /\ Expired(m)
  /\ Refuse(m)
  /\ UNCHANGED <<expired, run, chain, procVars, faults, dropped>>

-----------------------------------------------------------------------------
\* The worker: dispatchMandateActivation and runMandateActivation.

\* What evaluateMandateStatus may answer.
Verdicts == {"active", "revoked", "unknown"}

Goto(p, m, step) == run' = [run EXCEPT ![p][m].pc = step]

\* The run ends and its item leaves the queue.
Leave(p, m) ==
  /\ run' = [run EXCEPT ![p][m] = Idle]
  /\ queue' = [queue EXCEPT ![p] = @ \ {m}]

\* Where an exception at this step leads: before the fence the run just ends,
\* past it the catch block calls finishActivationUncertain.
Throw(p, m) ==
  IF run[p][m].pc \in {"load", "fence", "uncertain"} THEN Leave(p, m)
  ELSE Goto(p, m, "uncertain") /\ UNCHANGED queue

Dispatched(p, m) ==
  /\ boot[p] # "down"
  /\ m \in queue[p]
  /\ run[p][m].pc = "idle"
  /\ Cardinality({n \in queue[p] : run[p][n].pc # "idle"}) < Concurrency

Claimable(m) ==
  ~expired[m] /\ man[m].status = "pending_activation" /\ work[m].status = "pending"

Claim(p, m) ==
  /\ Dispatched(p, m)
  /\ Claimable(m)
  /\ work' = [work EXCEPT ![m].status = "running", ![m].lease = p]
  /\ Goto(p, m, "load")
  /\ UNCHANGED <<man, expired, chain, procVars, faults, dropped>>

\* claim answers null, or throws and dispatch answers false: the item leaves
\* the queue and no retry is requested.
ClaimRefused(p, m) ==
  /\ Dispatched(p, m)
  /\ IF Claimable(m) THEN Fault /\ dropped' = dropped \cup {m}
     ELSE UNCHANGED <<faults, dropped>>
  /\ Refuse(m)
  /\ Leave(p, m)
  /\ UNCHANGED <<expired, chain, boot, loop, req>>

\* The stored mandate is read and canonicalStoredBinding accepts it.
Load(p, m) ==
  /\ run[p][m].pc = "load"
  /\ man[m].key /\ ~expired[m]
  /\ Goto(p, m, "fence")
  /\ UNCHANGED <<rows, expired, chain, procVars, faults, dropped>>

\* canonicalStoredBinding refuses: no key, expired, or a binding that no longer
\* matches the deployment's configuration.  The worker revokes.
BindingRefused(p, m) ==
  /\ run[p][m].pc \in {"load", "check"} \cup Verdicts
  /\ run[p][m].pc # "load" => Live(p, m)
  /\ revoke(m)
  /\ Leave(p, m)
  /\ UNCHANGED <<expired, chain, boot, loop, req, faults, dropped>>

\* checkpoint('submitting'), the durable fence before the send.
Fence(p, m) ==
  /\ run[p][m].pc = "fence"
  /\ Live(p, m) /\ work[m].status = "running"
  /\ work' = [work EXCEPT ![m].status = "submitting"]
  /\ Goto(p, m, "send")
  /\ UNCHANGED <<man, expired, chain, procVars, faults, dropped>>

\* sendUserOperation: the bundler takes the operation and its hash comes back,
\* or the call throws whether it took it or not.
Send(p, m) ==
  /\ run[p][m].pc = "send"
  /\ ops' = [ops EXCEPT ![m] = @ + 1]
  /\ \/ run' = [run EXCEPT ![p][m] = [pc |-> "sent", hash |-> ops'[m]]]
     \/ Goto(p, m, "uncertain")
  /\ UNCHANGED <<rows, expired, mined, procVars, faults, dropped>>

SendFails(p, m) ==
  /\ run[p][m].pc = "send"
  /\ Goto(p, m, "uncertain")
  /\ UNCHANGED <<rows, expired, chain, procVars, faults, dropped>>

\* onSubmitted: checkpoint('submitted') with the hash.
Submitted(p, m) ==
  /\ run[p][m].pc = "sent"
  /\ Live(p, m) /\ work[m].status = "submitting"
  /\ work' = [work EXCEPT ![m].status = "submitted", ![m].hash = run[p][m].hash]
  /\ Goto(p, m, "receipt")
  /\ UNCHANGED <<man, expired, chain, procVars, faults, dropped>>

\* The receipt shows success, inside the mandate's window.
Receipt(p, m) ==
  /\ run[p][m].pc = "receipt"
  /\ run[p][m].hash \in mined[m] /\ ~expired[m]
  /\ Goto(p, m, "check")
  /\ UNCHANGED <<rows, expired, chain, procVars, faults, dropped>>

\* The wait times out, the operation failed, or the receipt comes too late.
ReceiptMissing(p, m) ==
  /\ run[p][m].pc = "receipt"
  /\ Goto(p, m, "uncertain")
  /\ UNCHANGED <<rows, expired, chain, procVars, faults, dropped>>

\* The lease is renewed and the record read again, still pending.
Check(p, m) ==
  /\ run[p][m].pc = "check"
  /\ Live(p, m) /\ man[m].status = "pending_activation"
  /\ Goto(p, m, "evaluate")
  /\ UNCHANGED <<rows, expired, chain, procVars, faults, dropped>>

\* evaluateMandateStatus reads the chain, or throws; its verdict is held while
\* other processes go on.
Evaluate(p, m) ==
  /\ run[p][m].pc = "evaluate"
  /\ \E step \in Verdicts \cup {"uncertain"} : Goto(p, m, step)
  /\ UNCHANGED <<rows, expired, chain, procVars, faults, dropped>>

Finishable(p, m) ==
  /\ Live(p, m)
  /\ man[m].status = "pending_activation"
  /\ work[m].status = "submitted" /\ work[m].hash = run[p][m].hash

\* Variant: the verdict is written to the mandate whoever holds the row.
FinishActiveLate(p, m) ==
  /\ run[p][m].pc = "active"
  /\ Put(m, [man[m] EXCEPT !.status = "active", !.hash = run[p][m].hash],
         Ended(work[m], "done"))
  /\ Leave(p, m)
  /\ UNCHANGED <<expired, chain, boot, loop, req, faults, dropped>>

\* The lease is renewed, the record read once more, and finishActive writes
\* both rows.
FinishActive(p, m) ==
  /\ run[p][m].pc = "active"
  /\ Finishable(p, m)
  /\ Put(m, [man[m] EXCEPT !.status = "active", !.hash = run[p][m].hash],
         Ended(work[m], "done"))
  /\ Leave(p, m)
  /\ UNCHANGED <<expired, chain, boot, loop, req, faults, dropped>>

\* finishRevoked: the chain says the permission is gone.
FinishRevoked(p, m) ==
  /\ run[p][m].pc = "revoked"
  /\ Finishable(p, m)
  /\ Put(m, [status |-> "revoked", key |-> FALSE, hash |-> run[p][m].hash], NoWork)
  /\ Leave(p, m)
  /\ UNCHANGED <<expired, chain, boot, loop, req, faults, dropped>>

\* finishActivationUncertain keeps the hash, if one was seen.
FinishUncertain(p, m) ==
  /\ run[p][m].pc \in {"unknown", "uncertain"}
  /\ Live(p, m) /\ work[m].status \in Fenced
  /\ Put(m, [man[m] EXCEPT !.status = "activation_uncertain"],
         [Ended(work[m], "uncertain") EXCEPT
            !.hash = IF run[p][m].hash # 0 THEN run[p][m].hash ELSE @])
  /\ Leave(p, m)
  /\ UNCHANGED <<expired, chain, boot, loop, req, faults, dropped>>

\* What the step of a run needs of the rows it is about to write.
Granted(p, m) ==
  CASE run[p][m].pc = "load" -> man[m].key /\ ~expired[m]
    [] run[p][m].pc = "fence" -> Live(p, m) /\ work[m].status = "running"
    [] run[p][m].pc = "sent" -> Live(p, m) /\ work[m].status = "submitting"
    [] run[p][m].pc \in {"check"} \cup Verdicts -> Live(p, m)
    [] run[p][m].pc = "uncertain" -> Live(p, m) /\ work[m].status \in Fenced
    [] OTHER -> TRUE

\* The store refuses a call of the run, or fails although it should not.
RunThrows(p, m) ==
  /\ run[p][m].pc \in {"load", "fence", "sent", "check", "uncertain"} \cup Verdicts
  /\ run[p][m].pc = "load" => Granted(p, m)
  /\ IF Granted(p, m) THEN Fault ELSE UNCHANGED faults
  /\ Refuse(m)
  /\ Throw(p, m)
  /\ UNCHANGED <<expired, chain, boot, loop, req, dropped>>

-----------------------------------------------------------------------------
\* Resuming: at startup, and by the retry timer.

Swept(m) == IF Expired(m) THEN CleanedWork(m) ELSE Reconciled(m)

\* reconcileExpired cleans every expired mandate up and releases every lease
\* past its time.
reconcileExpired ==
  /\ work' = [m \in Mandates |-> Swept(m)]
  /\ man' = [m \in Mandates |->
       IF Expired(m) THEN CleanedMandate(m)
       ELSE IF Swept(m).status = "uncertain"
            THEN [man[m] EXCEPT !.status = "activation_uncertain"]
            ELSE man[m]]

\* listRecoverable
Recoverable ==
  {m \in Mandates : /\ work[m].status = "pending"
                    /\ man[m].status = "pending_activation" /\ ~expired[m]}

\* The recoverable rows are queued in their order until the queue is full;
\* one it refuses requests a retry.
resumeMandateActivations(p) ==
  /\ reconcileExpired
  /\ \E accepted \in SUBSET (Recoverable' \ queue[p]) :
       /\ Cardinality(queue[p] \cup accepted) <= Capacity
       /\ \/ accepted = Recoverable' \ queue[p]
          \/ Cardinality(queue[p] \cup accepted) = Capacity
       /\ queue' = [queue EXCEPT ![p] = @ \cup accepted]
       /\ req' = [req EXCEPT ![p] = @ \/ Recoverable' # accepted]

BootResume(p) ==
  /\ boot[p] = "resume"
  /\ UNCHANGED <<expired, run, chain, loop, faults, dropped>>
  /\ resumeMandateActivations(p)
  /\ boot' = [boot EXCEPT ![p] = "drain"]

\* The queue has drained: the listener opens.
BootUp(p) ==
  /\ boot[p] = "drain" /\ queue[p] = {}
  /\ boot' = [boot EXCEPT ![p] = "up"]
  /\ UNCHANGED <<rows, expired, run, chain, queue, loop, req, faults, dropped>>

\* The timer is armed whenever a retry is requested and none is running.
RetryFires(p) ==
  /\ boot[p] # "down"
  /\ loop[p] = "idle" /\ req[p]
  /\ loop' = [loop EXCEPT ![p] = "scan"]
  /\ req' = [req EXCEPT ![p] = FALSE]
  /\ UNCHANGED <<rows, expired, run, chain, queue, boot, faults, dropped>>

RetryResume(p) ==
  /\ loop[p] = "scan"
  /\ UNCHANGED <<expired, run, chain, boot, faults, dropped>>
  /\ resumeMandateActivations(p)
  /\ loop' = [loop EXCEPT ![p] = "drain"]

\* A scan that fails asks for another.
RetryFails(p) ==
  /\ loop[p] = "scan"
  /\ Fault
  /\ loop' = [loop EXCEPT ![p] = "idle"]
  /\ req' = [req EXCEPT ![p] = TRUE]
  /\ UNCHANGED <<rows, expired, run, chain, queue, boot, dropped>>

\* After the drain, rows that are still recoverable request the next scan.
RetryEnds(p) ==
  /\ loop[p] = "drain" /\ queue[p] = {}
  /\ loop' = [loop EXCEPT ![p] = "idle"]
  /\ req' = [req EXCEPT ![p] = Recoverable # {}]
  /\ man' = [m \in Mandates |-> IF Expired(m) THEN CleanedMandate(m) ELSE man[m]]
  /\ work' = [m \in Mandates |-> IF Expired(m) THEN CleanedWork(m) ELSE work[m]]
  /\ UNCHANGED <<expired, run, chain, queue, boot, faults, dropped>>

-----------------------------------------------------------------------------
\* The environment.

Crash(p) ==
  /\ boot[p] # "down"
  /\ Fault
  /\ boot' = [boot EXCEPT ![p] = "down"]
  /\ run' = [run EXCEPT ![p] = [m \in Mandates |-> Idle]]
  /\ queue' = [queue EXCEPT ![p] = {}]
  /\ loop' = [loop EXCEPT ![p] = "idle"]
  /\ req' = [req EXCEPT ![p] = FALSE]
  /\ UNCHANGED <<rows, expired, chain, dropped>>

Restart(p) ==
  /\ boot[p] = "down"
  /\ boot' = [boot EXCEPT ![p] = "resume"]
  /\ UNCHANGED <<rows, expired, run, chain, queue, loop, req, faults, dropped>>

\* The heartbeat keeps the lease of a run alive, unless the process stalls.
LeaseExpires(m) ==
  /\ work[m].lease # None /\ ~work[m].late
  /\ IF \E p \in Procs : p = work[m].lease /\ run[p][m].pc # "idle"
     THEN Fault ELSE UNCHANGED faults
  /\ work' = [work EXCEPT ![m].late = TRUE]
  /\ UNCHANGED <<man, expired, run, chain, procVars, dropped>>

MandateExpires(m) ==
  /\ Known(m) /\ ~expired[m]
  /\ Cardinality({n \in Mandates : expired[n]}) < MaxExpired
  /\ expired' = [expired EXCEPT ![m] = TRUE]
  /\ UNCHANGED <<rows, run, chain, procVars, faults, dropped>>

OpMined(m) ==
  /\ \E h \in (1..ops[m]) \ mined[m] : mined' = [mined EXCEPT ![m] = @ \cup {h}]
  /\ UNCHANGED <<rows, expired, run, ops, procVars, faults, dropped>>

-----------------------------------------------------------------------------
\* A step of a run that is under way.
Step(p, m) ==
  \/ Load(p, m) \/ BindingRefused(p, m) \/ Fence(p, m)
  \/ Send(p, m) \/ SendFails(p, m) \/ Submitted(p, m)
  \/ Receipt(p, m) \/ ReceiptMissing(p, m) \/ Check(p, m) \/ Evaluate(p, m)
  \/ FinishActive(p, m) \/ FinishRevoked(p, m) \/ FinishUncertain(p, m)
  \/ RunThrows(p, m)

Dispatch(p, m) == Claim(p, m) \/ ClaimRefused(p, m)

Resume(p) ==
  \/ BootResume(p) \/ BootUp(p) \/ Restart(p)
  \/ RetryFires(p) \/ RetryResume(p) \/ RetryFails(p) \/ RetryEnds(p)

Next ==
  \/ \E m \in Mandates :
       \/ \E p \in Procs : \/ Register(p, m) \/ RegisterAgain(p, m)
                           \/ Dispatch(p, m) \/ Step(p, m)
       \/ RevokeRequest(m) \/ ReadExpired(m)
       \/ LeaseExpires(m) \/ MandateExpires(m) \/ OpMined(m)
  \/ \E p \in Procs : Resume(p) \/ Crash(p)

Spec == Init /\ [][Next]_vars

-----------------------------------------------------------------------------
TypeOK ==
  /\ man \in [Mandates -> Mandate]
  /\ work \in [Mandates -> ActivationWork]
  /\ expired \in [Mandates -> BOOLEAN]
  /\ run \in [Procs -> [Mandates -> [pc : Steps, hash : Nat]]]
  /\ ops \in [Mandates -> Nat]
  /\ mined \in [Mandates -> SUBSET Nat]
  /\ queue \in [Procs -> SUBSET Mandates]
  /\ boot \in [Procs -> {"down", "resume", "drain", "up"}]
  /\ loop \in [Procs -> {"idle", "scan", "drain"}]
  /\ req \in [Procs -> BOOLEAN]
  /\ faults \in Nat
  /\ dropped \subseteq Mandates

\* A mandate's session key signs at most one activation operation, whichever
\* processes crash, lose their leases or resume the row (the submitting fence
\* of runMandateActivation and reconcileExpired).
ActivatedAtMostOnce == \A m \in Mandates : ops[m] <= 1

\* The two tables tell one story: a revoked mandate has no key and no work, an
\* active one a finished activation that the chain included, and work that may
\* still be driven belongs to a pending mandate.
TablesAgree ==
  \A m \in Mandates :
    /\ man[m].status = "revoked" => ~man[m].key /\ work[m] = NoWork
    /\ man[m].status = "active" =>
         work[m].status = "done" /\ man[m].hash \in mined[m]
    /\ man[m].status = "activation_uncertain" <=> work[m].status = "uncertain"
    /\ work[m].status \in {"pending"} \cup Leased =>
         man[m].status = "pending_activation"
    /\ work[m].status \in Leased <=> work[m].lease # None

\* A worker's late result never brings a mandate back: revoked stays revoked
\* and an uncertain or active mandate can only be revoked.
NeverResurrected ==
  [][\A m \in Mandates :
       man[m].status \in {"active", "activation_uncertain", "revoked"} =>
         man'[m].status \in {man[m].status, "revoked"}]_vars

\* No lost wake-up: whatever is pending and still valid is queued in some
\* process or will be found by a scan that is due, unless its claim failed.  A
\* full queue, an item queued twice, a crash or a failed scan drop nothing.
Tracked(m) ==
  \E p \in Procs : \/ m \in queue[p] \/ req[p]
                   \/ boot[p] \in {"down", "resume"} \/ loop[p] # "idle"
PendingTracked ==
  \A m \in Mandates :
    work[m].status = "pending" /\ ~expired[m] => Tracked(m) \/ m \in dropped
=============================================================================
