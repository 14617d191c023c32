---------------------------- MODULE BaseDeposits ---------------------------
(***************************************************************************)
(* The deposits a farm job makes on Base once its mint is confirmed: the   *)
(* evidence log of each child (relayer/src/baseEvidenceOutbox.mjs), the    *)
(* fenced dispatch and the read-only reconciliation of its user operation  *)
(* (base/orchestrator.mjs), the farm run at boot (httpRouter.mjs,          *)
(* flows/farm.mjs), and the recovery an owner asks for afterwards          *)
(* (baseRecovery.mjs, server.mjs, the recovery work of sqliteStores.mjs).  *)
(*                                                                         *)
(* All children belong to one mandate, so to one kernel account and its    *)
(* sequence of nonces.  A step runs from one await to the next.  The       *)
(* bundler, the chain, the agent index's answers, leases that run out, and *)
(* crashes are the environment.                                            *)
(***************************************************************************)
EXTENDS Naturals, Sequences

CONSTANTS
  Children,      \* allocations of farm jobs
  Jobs,          \* farm jobs of one mandate
  Kids,          \* the children of each job, in order
  Terms,         \* pool and amount of each child
  Workers,       \* recovery runs that may be under way at once
  Answers,       \* how the agent index may answer a report it does not confirm
  MaxAttempts,   \* deliveries of an evidence row before it is dead
  MaxFaults,     \* bound on restarts, lost leases and changes of the authority
  Lateness,      \* whether operations may execute after the reconcile window
  CountRequests, \* whether owner requests are limited
  MaxRequests,   \* the limit
  None           \* null

Runs == Jobs \cup Workers

ASSUME DepositNames ==
  /\ Jobs \cap Workers = {}
  /\ None \notin Runs \cup Children \cup Nat
  /\ Kids \in [Jobs -> Seq(Children)]
  /\ Answers \subseteq {"unavailable", "rejected", "conflict"}
  /\ MaxAttempts \in Nat \ {0}
  /\ MaxFaults \in Nat /\ Lateness \subseteq BOOLEAN
  /\ CountRequests \in BOOLEAN /\ MaxRequests \in Nat

ASSUME DepositTerms == DOMAIN Terms = Children

VARIABLES
  log,       \* the evidence log of each child, the last entry is its head
  owner,     \* submission owner token of each head: the run that claimed it
  outbox,    \* delivery of each child's log to the agent index
  seen,      \* how many entries of the log the agent index has applied
  job,       \* state of each farm job
  auth,      \* the mandate: whether it is active, and updated_at
  nonce,     \* next nonce of the kernel account
  sends,     \* calls of sendUserOperation for each child
  pool,      \* user operations the bundler has accepted
  mined,     \* user operations the chain has executed
  work,      \* the latest recovery work row of each child
  tokens,    \* children whose row has its claim token in memory
  farm,      \* the boot's run of each job
  run,       \* the dispatch or reconciliation each run has under way
  up,        \* whether the boot's resumption is over
  faults,    \* restarts, lost leases and changes of the authority so far
  requests   \* owner requests so far, when they are counted

evidence == <<log, owner>>
chain == <<nonce, sends, pool, mined>>
works == <<work, tokens>>
vars == <<log, owner, outbox, seen, job, auth, nonce, sends, pool, mined, work, tokens,
          farm, run, up, faults, requests>>

-----------------------------------------------------------------------------
(* The evidence log *)

States == {"minted", "submitting", "submitted", "confirmed", "failed", "unknown", "blocked"}

\* A checkpoint: its state, the nonce of its reconcile handle, the child whose
\* user operation its hash names, and its reason.  "minted" stands for
\* cctp_mint confirmed, which precedes the base_deposit phase.
Checkpoint(s, n, op, why) == [state |-> s, nonce |-> n, op |-> op, why |-> why]

Reasons == {"none", "encode", "receipt", "reconcile", "mandate"}
Checkpoints == [state: States, nonce: Nat \cup {None}, op: Children \cup {None}, why: Reasons]

Latest(c) == log[c][Len(log[c])]
StateOf(c) == Latest(c).state

Recorded(c, s) == {i \in 1..Len(log[c]) : log[c][i].state = s}

allowedTransition(from, to) ==
  \/ from = "minted" /\ to # "minted"
  \/ from = "submitting" /\ to \in {"submitted", "confirmed", "failed", "unknown", "blocked"}
  \/ from = "submitted" /\ to \in {"confirmed", "failed", "unknown", "blocked"}
  \/ from = "unknown" /\ to = "confirmed"

\* Variant: the reconcile handle may change between checkpoints.
EnqueueAnyHandle(c, p) ==
  /\ Recorded(c, p.state) = {}
  /\ allowedTransition(Latest(c).state, p.state)

\* enqueueInternal appends p, unless an entry of its state exists (equal: a
\* duplicate that changes nothing; different: it throws), the transition is
\* out of order, the handle changes, or it disputes a known hash.
Enqueues(c, p) ==
  /\ Recorded(c, p.state) = {}
  /\ allowedTransition(Latest(c).state, p.state)
  /\ Latest(c).state # "minted" => p.nonce = Latest(c).nonce
  /\ Latest(c).state = "unknown" /\ Latest(c).op # None => p.op = Latest(c).op

Duplicate(c, p) == \E i \in Recorded(c, p.state) : log[c][i] = p

Accepted(c, p) == Enqueues(c, p) \/ Duplicate(c, p)
Appended(c, p) == IF Enqueues(c, p) THEN [log EXCEPT ![c] = Append(@, p)] ELSE log

\* enqueue, which leaves the owner token alone.
enqueue(c, p) == Accepted(c, p) /\ log' = Appended(c, p) /\ owner' = owner

\* enqueueOwned, which needs the token of run r and clears it.
OwnedAccepted(r, c, p) == run[r].token /\ owner[c] = r /\ Accepted(c, p)
enqueueOwned(r, c, p) ==
  /\ OwnedAccepted(r, c, p)
  /\ log' = Appended(c, p)
  /\ owner' = [owner EXCEPT ![c] = None]

-----------------------------------------------------------------------------
(* Runs *)

\* Where a run is: between calls, before it reads the nonce, before it reads
\* the authority, before the claim, before it encodes the call, before the
\* last check of a recovery, before the send, holding a hash, waiting for the
\* receipt, reading the chain, holding what it read, or done with a result.
Places == {"idle", "gate", "capture", "authority", "claim", "encode", "fence", "send",
           "submitted", "receipt", "read", "apply", "result"}
Results == {"fulfilled", "held", "uncertain", "owner", "rejected", "threw"}

Ops == [child: Children, nonce: Nat]
Mined == [child: Children, nonce: Nat, ok: BOOLEAN, late: BOOLEAN]

Run == [pc: Places, child: Children \cup {None}, version: Nat, nonce: Nat \cup {None},
        snapshot: Nat, token: BOOLEAN, op: Children \cup {None},
        found: Mined \cup {None}, result: Results \cup {None}]

IdleRun == [pc |-> "idle", child |-> None, version |-> 0, nonce |-> None, snapshot |-> 0,
            token |-> FALSE, op |-> None, found |-> None, result |-> None]

Farm == [pc: {"start", "loop", "child", "end"}, at: Nat,
         view: [Children -> Checkpoints], hold: BOOLEAN, doubt: BOOLEAN, full: BOOLEAN]

\* A job the boot has not reached, and one it is done with.
FarmAt(pc) == [pc |-> pc, at |-> 1, hold |-> FALSE, doubt |-> FALSE, full |-> TRUE,
               view |-> [c \in Children |-> Checkpoint("minted", None, None, "none")]]

\* "over" stands for the terminal states done, uncertain, blocked and
\* owner_action_required, which nothing leaves.
WorkStates == {"none", "pending", "running", "held", "over"}

\* A row is keyed by child and evidence version.  Only the latest is kept: the
\* agent index refuses every claim for an older version.
Row == [state: WorkStates, version: Nat, holder: Workers \cup {None}]

\* A child's outbox rows are delivered in order: how many are delivered, and
\* the attempts and the state of the first one that is not, which every later
\* one waits for.
Outbox == [done: Nat, attempts: Nat, state: {"pending", "dead", "conflict"}]

JobOf(c) == CHOOSE j \in Jobs : \E i \in 1..Len(Kids[j]) : Kids[j][i] = c

Forward(r) == r \in Jobs

\* Whether run r holds the lease of the row it took.
Leases(r) == LET row == work[run[r].child]
             IN row.version = run[r].version /\ row.holder = r

Goto(r, pc) == run' = [run EXCEPT ![r].pc = pc]
Ends(r, result) ==
  run' = [run EXCEPT ![r] = [IdleRun EXCEPT !.pc = "result", !.child = run[r].child,
                                            !.version = run[r].version, !.result = result]]

Init ==
  /\ log = [c \in Children |-> <<Checkpoint("minted", None, None, "none")>>]
  /\ owner = [c \in Children |-> None]
  /\ outbox = [c \in Children |-> [done |-> 0, attempts |-> 0, state |-> "pending"]]
  /\ seen = [c \in Children |-> 0]
  /\ job = [j \in Jobs |-> "deposit_pending"]
  /\ auth = [active |-> TRUE, at |-> 0]
  /\ nonce = 0
  /\ sends = [c \in Children |-> 0]
  /\ pool = {} /\ mined = {}
  /\ work = [c \in Children |-> [state |-> "none", version |-> 0, holder |-> None]]
  /\ tokens = {}
  /\ farm = [j \in Jobs |-> FarmAt("start")]
  /\ run = [r \in Runs |-> IdleRun]
  /\ up = FALSE /\ faults = 0 /\ requests = 0

-----------------------------------------------------------------------------
(* dispatchDeposits of one allocation *)

\* The reconcile handle: the nonce the EntryPoint reports, which operations
\* that are still pending have not consumed.
captureReconcileHandle(r) ==
  /\ run[r].pc = "capture"
  /\ \/ run' = [run EXCEPT ![r].pc = "authority", ![r].nonce = nonce]
     \/ Ends(r, "held")
  /\ UNCHANGED <<evidence, outbox, seen, job, auth, chain, works, farm, up, faults, requests>>

\* onBeforeClaimSubmitting: a fresh read of the mandate.  The boot's run also
\* compares it with the record it opened the key from.
onBeforeClaimSubmitting(r) ==
  /\ run[r].pc = "authority"
  /\ IF auth.active /\ (Forward(r) => auth.at = run[r].snapshot)
     THEN run' = [run EXCEPT ![r].pc = "claim", ![r].snapshot = auth.at]
     ELSE Ends(r, "held")
  /\ UNCHANGED <<evidence, outbox, seen, job, auth, chain, works, farm, up, faults, requests>>

\* Variant: the claim trusts the authority that was read before.
AuthorizedBefore(r) == job[JobOf(run[r].child)] = "deposit_confirming"

\* What claimAuthorizedSubmission checks in the transaction of the claim.
Authorized(r) ==
  /\ auth.active /\ auth.at = run[r].snapshot
  /\ job[JobOf(run[r].child)] = "deposit_confirming"

Submitting(r) == Checkpoint("submitting", run[r].nonce, None, "none")

\* Variant: the claim is made but not recorded.
ClaimUnrecorded(r) ==
  LET c == run[r].child IN
  /\ run[r].pc = "claim"
  /\ run' = [run EXCEPT ![r].pc = "encode", ![r].token = TRUE]
  /\ owner' = [owner EXCEPT ![c] = r]
  /\ UNCHANGED <<log, outbox, seen, job, auth, chain, works, farm, up, faults, requests>>

\* claimAuthorizedSubmission: the submitting entry and the owner token, in one
\* transaction, or a refusal (held), or a throw (uncertain).  A handle of the
\* same nonce is the same evidence if it was read at the same block.
claimAuthorizedSubmission(r) ==
  LET c == run[r].child
      p == Submitting(r)
      claims == Authorized(r) /\ Enqueues(c, p) /\ owner[c] = None
  IN /\ run[r].pc = "claim"
     /\ \/ /\ claims
           /\ log' = Appended(c, p)
           /\ owner' = [owner EXCEPT ![c] = r]
           /\ run' = [run EXCEPT ![r].pc = "encode", ![r].token = TRUE]
        \/ /\ ~claims
           /\ \/ ~Authorized(r) /\ Ends(r, "held")
              \/ Authorized(r) /\ StateOf(c) = "submitting" /\ Duplicate(c, p) /\ Ends(r, "held")
              \/ Authorized(r) /\ Ends(r, "uncertain")
           /\ UNCHANGED evidence
     /\ UNCHANGED <<outbox, seen, job, auth, chain, works, farm, up, faults, requests>>

\* encodeCalls; when it fails the deposit is recorded as never sent.
EncodeCalls(r) ==
  /\ run[r].pc = "encode"
  /\ \/ /\ Goto(r, IF Forward(r) THEN "send" ELSE "fence")
        /\ UNCHANGED evidence
     \/ LET c == run[r].child
            p == Checkpoint("failed", run[r].nonce, None, "encode")
        IN IF OwnedAccepted(r, c, p)
           THEN enqueueOwned(r, c, p) /\ Ends(r, "rejected")
           ELSE Ends(r, "threw") /\ UNCHANGED evidence
  /\ UNCHANGED <<outbox, seen, job, auth, chain, works, farm, up, faults, requests>>

\* The agent index renews a claim only at the version it was made for.
Renewable(r) == seen[run[r].child] = run[r].version /\ Leases(r)

FenceHolds(r) == auth.active /\ Renewable(r)

\* onBeforeSend of a recovery: authority and both leases once more.  A lease
\* may also be refused for a reason of its own.
onBeforeSend(r) ==
  /\ run[r].pc = "fence"
  /\ \/ FenceHolds(r) /\ Goto(r, "send") /\ UNCHANGED evidence
     \/ LET c == run[r].child
            p == Checkpoint("unknown", run[r].nonce, None, "none")
        IN IF OwnedAccepted(r, c, p)
           THEN enqueueOwned(r, c, p) /\ Ends(r, "uncertain")
           ELSE Ends(r, "held") /\ UNCHANGED evidence
  /\ UNCHANGED <<outbox, seen, job, auth, chain, works, farm, up, faults, requests>>

\* Variant: a send that throws is tried again.
SendRetried(r) ==
  LET c == run[r].child
      op == [child |-> c, nonce |-> run[r].nonce]
  IN /\ run[r].pc = "send"
     /\ sends' = [sends EXCEPT ![c] = @ + 1]
     /\ pool' \in {pool, pool \cup {op}}
     /\ \/ op \in pool' /\ run' = [run EXCEPT ![r].pc = "submitted", ![r].op = c]
        \/ run' = run
     /\ UNCHANGED <<evidence, nonce, mined, outbox, seen, job, auth, works, farm, up, faults,
                    requests>>

\* sendUserOperation: it returns the hash, or it throws although the bundler
\* took the operation, or it throws and the bundler did not.
SendUserOperation(r) ==
  LET c == run[r].child
      op == [child |-> c, nonce |-> run[r].nonce]
      unknown == Checkpoint("unknown", run[r].nonce, None, "none")
  IN /\ run[r].pc = "send"
     /\ sends' = [sends EXCEPT ![c] = @ + 1]
     /\ pool' \in {pool, pool \cup {op}}
     /\ \/ /\ op \in pool'
           /\ run' = [run EXCEPT ![r].pc = "submitted", ![r].op = c]
           /\ UNCHANGED evidence
        \/ IF OwnedAccepted(r, c, unknown)
           THEN enqueueOwned(r, c, unknown) /\ Ends(r, "uncertain")
           ELSE Ends(r, "threw") /\ UNCHANGED evidence
     /\ UNCHANGED <<nonce, mined, outbox, seen, job, auth, works, farm, up, faults, requests>>

\* The submitted checkpoint; when it fails, unknown with the hash.
CheckpointSubmitted(r) ==
  LET c == run[r].child
      submitted == Checkpoint("submitted", run[r].nonce, c, "none")
      unknown == Checkpoint("unknown", run[r].nonce, c, "none")
  IN /\ run[r].pc = "submitted"
     /\ \/ /\ enqueueOwned(r, c, submitted)
           /\ run' = [run EXCEPT ![r].pc = "receipt", ![r].token = FALSE]
        \/ IF OwnedAccepted(r, c, unknown)
           THEN enqueueOwned(r, c, unknown) /\ Ends(r, "uncertain")
           ELSE Ends(r, "threw") /\ UNCHANGED evidence
     /\ UNCHANGED <<outbox, seen, job, auth, chain, works, farm, up, faults, requests>>

MinedOf(c) == {m \in mined : m.child = c}

\* waitForUserOperationReceipt and proveDepositReceipt; when the confirmed
\* checkpoint fails, unknown with the hash.
AwaitReceipt(r) ==
  LET c == run[r].child
      Settle(p, result) == IF Accepted(c, p) THEN enqueue(c, p) /\ Ends(r, result)
                           ELSE Ends(r, "threw") /\ UNCHANGED evidence
  IN /\ run[r].pc = "receipt"
     /\ \/ Ends(r, "held") /\ UNCHANGED evidence
        \/ \E m \in MinedOf(c) :
             /\ m.nonce = run[r].nonce
             /\ \/ m.ok /\ Settle(Checkpoint("confirmed", m.nonce, c, "none"), "fulfilled")
                \/ m.ok /\ Settle(Checkpoint("unknown", m.nonce, c, "none"), "uncertain")
                \/ ~m.ok /\ Settle(Checkpoint("failed", m.nonce, c, "receipt"), "owner")
     /\ UNCHANGED <<outbox, seen, job, auth, chain, works, farm, up, faults, requests>>

-----------------------------------------------------------------------------
(* reconcileBaseDeposit *)

Matches(m, h, op) == m.nonce = h /\ ~m.late /\ (op = None \/ m.child = op)

\* readBaseDepositEvidence: the one operation of this sender and nonce within
\* the block window, by its hash if that is known.  A read may fail.
readBaseDepositEvidence(r) ==
  /\ run[r].pc = "read"
  /\ \/ Ends(r, "held")
     \/ \E m \in mined :
          /\ Matches(m, run[r].nonce, run[r].op)
          /\ run' = [run EXCEPT ![r].pc = "apply", ![r].found = m]
  /\ UNCHANGED <<evidence, outbox, seen, job, auth, chain, works, farm, up, faults, requests>>

\* Variant: the receipt's event is not compared with the allocation.
AnyTerms(m, c) == TRUE
SameTerms(m, c) == Terms[m.child] = Terms[c]

\* What was read is checkpointed.  A throw is an ambiguous result of the
\* boot's run, and holds a recovery.
reconcileBaseDeposit(r) ==
  LET c == run[r].child
      m == run[r].found
      refused == IF Forward(r) THEN "uncertain" ELSE "held"
      Settle(p, result) == IF Accepted(c, p) THEN enqueue(c, p) /\ Ends(r, result)
                           ELSE Ends(r, refused) /\ UNCHANGED evidence
  IN /\ run[r].pc = "apply"
     /\ \/ m.ok /\ SameTerms(m, c)
           /\ Settle(Checkpoint("confirmed", m.nonce, m.child, "none"), "fulfilled")
        \/ m.ok /\ ~SameTerms(m, c) /\ Ends(r, refused) /\ UNCHANGED evidence
        \/ ~m.ok /\ Settle(Checkpoint("failed", m.nonce, m.child, "reconcile"), "owner")
     /\ UNCHANGED <<outbox, seen, job, auth, chain, works, farm, up, faults, requests>>

-----------------------------------------------------------------------------
(* The boot's run of a job: resumeFarmIntentsV2 *)

\* The evidence of every child is read once, before the first await.
FarmStart(j) ==
  /\ ~up /\ farm[j].pc = "start"
  /\ farm' = [farm EXCEPT ![j].pc = "loop", ![j].view = [c \in Children |-> Latest(c)]]
  /\ job' = [job EXCEPT ![j] = "deposit_confirming"]
  /\ UNCHANGED <<evidence, outbox, seen, auth, chain, works, run, up, faults, requests>>

Advance(j, hold, doubt, full) ==
  farm' = [farm EXCEPT ![j].pc = "loop", ![j].at = @ + 1, ![j].hold = @ \/ hold,
                       ![j].doubt = @ \/ doubt, ![j].full = @ /\ full]

\* The next child, by what its evidence was at the start.
FarmChild(j) ==
  LET c == Kids[j][farm[j].at]
      view == farm[j].view[c]
      sent == view.state \in {"submitting", "unknown"}
      actionable == view.state # "confirmed" /\ ~farm[j].hold /\ ~sent
      Call(pc, n, op) ==
        /\ run' = [run EXCEPT ![j] = [IdleRun EXCEPT !.pc = pc, !.child = c, !.nonce = n,
                                                     !.op = op, !.snapshot = auth.at]]
        /\ farm' = [farm EXCEPT ![j].pc = "child"]
        /\ job' = job
  IN /\ farm[j].pc = "loop" /\ farm[j].at \in 1..Len(Kids[j])
     /\ \/ /\ ~actionable
           /\ IF view.state = "confirmed" THEN Advance(j, FALSE, FALSE, TRUE)
              ELSE Advance(j, TRUE, ~farm[j].hold, FALSE)
           /\ UNCHANGED <<job, run>>
        \/ /\ actionable /\ ~auth.active
           /\ job' = [job EXCEPT ![j] = "blocked"]
           /\ farm' = [farm EXCEPT ![j] = FarmAt("end")]
           /\ run' = run
        \/ /\ actionable /\ auth.active
           /\ \/ view.state = "minted" /\ Call("capture", None, None)
              \/ view.state = "submitted" /\ Call("read", view.nonce, view.op)
              \/ /\ view.state \in {"failed", "blocked"}
                 /\ Advance(j, TRUE, FALSE, FALSE)
                 /\ UNCHANGED <<job, run>>
     /\ UNCHANGED <<evidence, outbox, seen, auth, chain, works, up, faults, requests>>

FarmResult(j) ==
  /\ farm[j].pc = "child" /\ run[j].pc = "result" /\ run[j].result # "threw"
  /\ LET ok == run[j].result = "fulfilled"
     IN Advance(j, ~ok, run[j].result = "uncertain", ok)
  /\ run' = [run EXCEPT ![j] = IdleRun]
  /\ UNCHANGED <<evidence, outbox, seen, job, auth, chain, works, up, faults, requests>>

FarmFinish(j) ==
  /\ farm[j].pc = "loop" /\ farm[j].at > Len(Kids[j])
  /\ job' = [job EXCEPT ![j] = IF farm[j].full THEN "done"
                               ELSE IF farm[j].doubt THEN "uncertain" ELSE @]
  /\ farm' = [farm EXCEPT ![j] = FarmAt("end")]
  /\ UNCHANGED <<evidence, outbox, seen, auth, chain, works, run, up, faults, requests>>

\* startVerifiedRelayer: workers and listener start when every job has run.
OpenListener ==
  /\ ~up /\ \A j \in Jobs : farm[j].pc = "end"
  /\ up' = TRUE
  /\ UNCHANGED <<evidence, outbox, seen, job, auth, chain, works, farm, run, faults, requests>>

-----------------------------------------------------------------------------
(* Recovery *)

\* A row that was not delivered: pending again, or dead at the last attempt.
markRetry(c) ==
  LET tries == outbox[c].attempts + 1
  IN outbox' = [outbox EXCEPT ![c] = [done |-> outbox[c].done, attempts |-> tries,
                                      state |-> IF tries >= MaxAttempts THEN "dead" ELSE "pending"]]

Ended(state) == state \in {"done", "uncertain", "blocked"}

\* markConflict also blocks the job; it rolls back when the job has ended
\* otherwise, and the row is tried again once its lease is over.
markConflict(c) ==
  LET j == JobOf(c) IN
  IF Ended(job[j]) /\ job[j] # "blocked"
  THEN markRetry(c) /\ job' = job
  ELSE /\ outbox' = [outbox EXCEPT ![c].state = "conflict"]
       /\ job' = [job EXCEPT ![j] = "blocked"]

\* One attempt of the outbox worker.  The agent index may have applied a row
\* although its answer is lost (unavailable) or malformed (rejected).
Deliver(c) ==
  LET next == outbox[c].done + 1
      applied == IF seen[c] < next THEN next ELSE seen[c]
  IN /\ up /\ outbox[c].state = "pending" /\ next <= Len(log[c])
     /\ \/ /\ seen' = [seen EXCEPT ![c] = applied]
           /\ outbox' = [outbox EXCEPT ![c].done = next, ![c].attempts = 0]
           /\ job' = job
        \/ /\ "unavailable" \in Answers
           /\ seen' \in {seen, [seen EXCEPT ![c] = applied]}
           /\ markRetry(c)
           /\ job' = job
        \/ /\ "rejected" \in Answers
           /\ seen' \in {seen, [seen EXCEPT ![c] = applied]}
           /\ outbox' = [outbox EXCEPT ![c].state = "dead"]
           /\ job' = job
        \/ /\ "conflict" \in Answers
           /\ markConflict(c)
           /\ seen' = seen
     /\ UNCHANGED <<evidence, auth, chain, works, farm, run, up, faults, requests>>

\* What a recovery of the child knows of it: the agent index's version.
View(c, version) == log[c][version].state
Submits(r) == View(run[r].child, run[r].version) = "minted"
Fenced == {"submitting", "submitted", "unknown"}

\* handleFarmRecover: an owner with a claim at the current version adds the
\* row, or reattaches one that is held.
handleFarmRecover(c) ==
  /\ up /\ seen[c] > 0
  /\ View(c, seen[c]) \in Fenced \cup {"minted"}
  /\ work[c].version < seen[c] \/ work[c].state = "held"
  /\ IF CountRequests THEN requests < MaxRequests /\ requests' = requests + 1
     ELSE requests' = requests
  /\ work' = [work EXCEPT ![c] = [state |-> "pending", version |-> seen[c], holder |-> None]]
  /\ tokens' = tokens \cup {c}
  /\ UNCHANGED <<evidence, outbox, seen, job, auth, chain, farm, run, up, faults>>

\* The run scheduled by the request, or by a tick of the recovery worker: it
\* takes a pending row whose token this process has.
StartRecovery(r, c) ==
  /\ up /\ run[r].pc = "idle"
  /\ work[c].state = "pending" /\ c \in tokens
  /\ work' = [work EXCEPT ![c].state = "running", ![c].holder = r]
  /\ run' = [run EXCEPT ![r] = [IdleRun EXCEPT !.pc = "gate", !.child = c,
                                               !.version = work[c].version]]
  /\ UNCHANGED <<evidence, outbox, seen, job, auth, chain, tokens, farm, up, faults, requests>>

\* hold and finish change a row only for the run that holds its lease.
Leave(r, state) ==
  LET c == run[r].child IN
  IF Leases(r)
  THEN /\ work' = [work EXCEPT ![c].state = state, ![c].holder = None]
       /\ tokens' = tokens \ {c}
  ELSE UNCHANGED works

\* Variant: the owner-action projection carries the handle of the head.
ProjectWithHandle(c) == Checkpoint("blocked", Latest(c).nonce, None, "mandate")
projectBaseDepositOwnerAction(c) == Checkpoint("blocked", None, None, "mandate")

\* The executor up to the operation: the claim is read and renewed, and the
\* local linkage checked; a submission needs an active mandate, and without
\* one the child is handed to its owner.  An error that may pass holds the
\* row; any other (a refusal by the agent index, a changed selection, local
\* records that disagree) finishes it as uncertain or blocked.
RecoveryGate(r) ==
  LET c == run[r].child
      p == projectBaseDepositOwnerAction(c)
      Stop(state) == Leave(r, state) /\ run' = [run EXCEPT ![r] = IdleRun]
  IN /\ run[r].pc = "gate"
     /\ \/ \E state \in {"held", "over"} : Stop(state) /\ UNCHANGED evidence
        \/ /\ Renewable(r) /\ Submits(r) /\ ~auth.active
           /\ IF Accepted(c, p) THEN enqueue(c, p) /\ Stop("over")
              ELSE Stop("held") /\ UNCHANGED evidence
        \/ /\ Renewable(r) /\ Submits(r) /\ auth.active
           /\ Goto(r, "capture")
           /\ UNCHANGED <<evidence, works>>
        \/ /\ Renewable(r) /\ ~Submits(r)
           /\ run' = [run EXCEPT ![r].pc = "read", ![r].nonce = log[c][run[r].version].nonce,
                                 ![r].op = log[c][run[r].version].op]
           /\ UNCHANGED <<evidence, works>>
     /\ UNCHANGED <<outbox, seen, job, auth, chain, farm, up, faults, requests>>

\* A poll that found nothing is held.  Every other result is final for the
\* row, also that of a submission which stopped before its claim.
Outcome(r) ==
  IF run[r].result = "held" /\ ~Submits(r) THEN "held" ELSE "over"

RecoveryResult(r) ==
  /\ r \in Workers /\ run[r].pc = "result"
  /\ Leave(r, Outcome(r))
  /\ run' = [run EXCEPT ![r] = IdleRun]
  /\ UNCHANGED <<evidence, outbox, seen, job, auth, chain, farm, up, faults, requests>>

-----------------------------------------------------------------------------
(* Environment *)

Fault == faults < MaxFaults /\ faults' = faults + 1

\* A lease that was not renewed in time: the row is held, the run goes on.
ExpireLease(c) ==
  /\ Fault
  /\ work[c].state = "running"
  /\ work' = [work EXCEPT ![c].state = "held", ![c].holder = None]
  /\ tokens' = tokens \ {c}
  /\ UNCHANGED <<evidence, outbox, seen, job, auth, chain, farm, run, up, requests>>

\* The chain executes an accepted operation whose nonce is next.
Mine(op) ==
  /\ op \in pool /\ op.nonce = nonce
  /\ \E ok \in BOOLEAN, late \in Lateness :
       mined' = mined \cup {[child |-> op.child, nonce |-> op.nonce, ok |-> ok, late |-> late]}
  /\ nonce' = nonce + 1
  /\ UNCHANGED <<evidence, outbox, seen, job, auth, sends, pool, works, farm, run, up, faults,
                 requests>>

\* The owner revokes the mandate, or its key envelope is rotated.
ChangeAuthority ==
  /\ Fault
  /\ auth.active
  /\ \E active \in BOOLEAN : auth' = [active |-> active, at |-> auth.at + 1]
  /\ UNCHANGED <<evidence, outbox, seen, job, chain, works, farm, run, up, requests>>

\* A crash or restart: runs and tokens are lost, rows are held.
Restart ==
  /\ Fault
  /\ up' = FALSE
  /\ run' = [r \in Runs |-> IdleRun]
  /\ farm' = [j \in Jobs |->
       FarmAt(IF job[j] \in {"deposit_pending", "deposit_confirming"} THEN "start" ELSE "end")]
  /\ work' = [c \in Children |-> IF work[c].state \in {"pending", "running"}
                                 THEN [work[c] EXCEPT !.state = "held", !.holder = None]
                                 ELSE work[c]]
  /\ tokens' = {}
  /\ UNCHANGED <<evidence, outbox, seen, job, auth, chain, requests>>

Dispatch(r) ==
  \/ captureReconcileHandle(r) \/ onBeforeClaimSubmitting(r) \/ claimAuthorizedSubmission(r)
  \/ EncodeCalls(r) \/ onBeforeSend(r) \/ SendUserOperation(r) \/ CheckpointSubmitted(r)
  \/ AwaitReceipt(r) \/ readBaseDepositEvidence(r) \/ reconcileBaseDeposit(r)

FarmStep(j) == FarmStart(j) \/ FarmChild(j) \/ FarmResult(j) \/ FarmFinish(j)
RecoveryStep(r) == RecoveryGate(r) \/ RecoveryResult(r)

Next ==
  \/ \E r \in Runs : Dispatch(r)
  \/ \E j \in Jobs : FarmStep(j)
  \/ OpenListener
  \/ \E c \in Children : Deliver(c) \/ handleFarmRecover(c) \/ ExpireLease(c)
  \/ \E r \in Workers, c \in Children : StartRecovery(r, c)
  \/ \E r \in Workers : RecoveryStep(r)
  \/ \E op \in pool : Mine(op)
  \/ ChangeAuthority \/ Restart

Spec == Init /\ [][Next]_vars

\* Every await ends and the outbox goes on trying; the owner asks again as
\* long as a request would be taken, and the reads and renewals of a poll
\* that is tried again and again succeed at last.
Fairness ==
  /\ \A r \in Runs : WF_vars(Dispatch(r))
  /\ \A r \in Workers : WF_vars(RecoveryStep(r))
  /\ \A r \in Workers : SF_vars(RecoveryGate(r) /\ run'[r].pc = "read")
  /\ \A r \in Runs : SF_vars(readBaseDepositEvidence(r) /\ run'[r].pc = "apply")
  /\ \A j \in Jobs : WF_vars(FarmStep(j))
  /\ WF_vars(OpenListener)
  /\ \A c \in Children : WF_vars(Deliver(c))
  /\ \A c \in Children : WF_vars(handleFarmRecover(c))
  /\ \A c \in Children : WF_vars(\E r \in Workers : StartRecovery(r, c))

FairSpec == Spec /\ Fairness

-----------------------------------------------------------------------------
(* Properties *)

TypeOK ==
  /\ log \in [Children -> Seq(Checkpoints)]
  /\ owner \in [Children -> Runs \cup {None}]
  /\ outbox \in [Children -> Outbox]
  /\ seen \in [Children -> Nat]
  /\ job \in [Jobs -> {"deposit_pending", "deposit_confirming", "done", "uncertain", "blocked"}]
  /\ auth \in [active: BOOLEAN, at: Nat]
  /\ nonce \in Nat
  /\ sends \in [Children -> Nat]
  /\ pool \subseteq Ops
  /\ mined \subseteq Mined
  /\ work \in [Children -> Row]
  /\ tokens \subseteq Children
  /\ farm \in [Jobs -> Farm]
  /\ run \in [Runs -> Run]
  /\ up \in BOOLEAN
  /\ faults \in Nat
  /\ requests \in Nat

Deposited(c) == \E m \in mined : m.child = c /\ m.ok

\* A child's user operation is sent at most once, whatever faults, owner
\* requests, lost leases and crashes there are (orchestrator.mjs: the claim).
OneSend == \A c \in Children : sends[c] <= 1

\* Every operation the bundler took can be found again: its nonce is in the
\* log before it is sent, so a crash at any point leaves a handle to it.
SendsTraceable ==
  \A op \in pool : \E i \in Recorded(op.child, "submitting") : log[op.child][i].nonce = op.nonce

\* A child is confirmed only by an operation of its own that deposited, and a
\* job is done only when every child of it has deposited.
ConfirmedOwn ==
  /\ \A c \in Children : StateOf(c) = "confirmed" => Deposited(c)
  /\ \A j \in Jobs : job[j] = "done" => \A i \in 1..Len(Kids[j]) : Deposited(Kids[j][i])

\* A child recorded failed or blocked has not deposited and never will, so
\* the owner may take the funds out of the kernel.
FailedIsFinal == \A c \in Children : StateOf(c) \in {"failed", "blocked"} => ~Deposited(c)

\* A child whose deposit was not fenced when the mandate was revoked is never
\* sent, although runs read the authority before they claim.
RevokedStaysUnsent ==
  \A c \in Children : [](~auth.active /\ StateOf(c) = "minted" => [](sends[c] = 0))

\* Nothing tries again to find the outcome of c: a row of its evidence is
\* dead or in conflict, which holds back every later one, or the recovery of
\* its latest version has ended.
GivenUp(c) ==
  \/ outbox[c].state # "pending"
  \/ seen[c] = Len(log[c]) /\ work[c].version = seen[c] /\ work[c].state = "over"

\* A deposit the chain has executed within the reconcile window is confirmed
\* in the end, wherever the relayer was when it crashed or lost its lease and
\* although its owner may have to ask, unless the relayer gave the child up:
\* its evidence could not be delivered or its recovery ended for good.
OutcomeFound ==
  \A c \in Children :
    (\E m \in mined : m.child = c /\ m.ok /\ ~m.late) ~> StateOf(c) = "confirmed" \/ GivenUp(c)
=============================================================================
