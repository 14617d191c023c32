------------------------------ MODULE CctpRelay -----------------------------
(***************************************************************************)
(* The relayer's CCTP relay: the durable relay-work store                  *)
(* (relayer/src/store.mjs, sqliteStores.mjs), the watcher that drives a    *)
(* burn from attestation to confirmed mint (cctp/watcher.mjs), the         *)
(* periodic sweep that resumes abandoned rows, and the farm flow that      *)
(* deposits once the mint is confirmed (flows/farm.mjs).                   *)
(*                                                                         *)
(* A worker is one asynchronous call in some relayer process.  A step is   *)
(* one store transaction together with the read of the network that led to *)
(* it, or one send.  Iris, the two chains, the clock, store failures and   *)
(* crashes are the environment.                                            *)
(***************************************************************************)
EXTENDS Naturals

CONSTANTS
  Execs,          \* execution ids
  Domains,        \* source domains relayed: a subset of {"stellar", "base"}
  Hashes,         \* burn transaction hashes
  Digests,        \* digests of the immutable expectation
  Callers,        \* slots that run relayMint and resumeExisting
  Sweepers,       \* slots that run sweepStuck, one per process
  Procs,          \* relayer processes that share the store
  ProcOf,         \* the process each slot belongs to
  Messages,       \* raw messages that match the expectation
  Attestations,   \* attestations Iris may attach
  CountFaults,    \* whether faults are limited
  MaxFaults,      \* the limit
  None            \* null

Workers == Callers \cup Sweepers

Intents == [domain: Domains, burn: Hashes, digest: Digests]

ASSUME NamesAssumption ==
  /\ Domains \subseteq {"stellar", "base"}
  /\ None \notin Workers \cup Messages \cup Attestations \cup Intents \cup Execs
  /\ Callers \cap Sweepers = {}
  /\ ProcOf \in [Workers -> Procs]

ASSUME FaultsAssumption == CountFaults \in BOOLEAN /\ MaxFaults \in Nat

VARIABLES
  rec,         \* the durable row of each execution id
  call,        \* what each worker is doing
  sends,       \* sends made to the destination chain for each row
  mint,        \* fate of the transaction last sent for each row
  wire,        \* message and attestation that send carried
  dispatched,  \* rows whose deposits the farm flow has dispatched
  faults       \* faults so far, when they are counted

chainVars == <<sends, mint, wire>>
vars == <<rec, call, sends, mint, wire, dispatched, faults>>

-----------------------------------------------------------------------------
(* Rows *)

RELAY_CLAIMABLE_STATES == {"attestation_pending", "attested", "mint_submitted"}
RELAY_TERMINAL_STATES == {"minted", "blocked", "uncertain"}
RELAY_ALL_STATES ==
  RELAY_CLAIMABLE_STATES \cup {"mint_submitting"} \cup RELAY_TERMINAL_STATES

RELAY_BLOCKED_REASONS ==
  {"message_mismatch", "message_ambiguous", "attested_evidence_changed", "destination_reverted"}
RELAY_UNCERTAIN_REASONS ==
  {"submission_unknown", "submitted_checkpoint_failed", "submission_lease_expired"}

\* A mint hash is the number of the send that returned it; 0 is null.
Row == [state: RELAY_ALL_STATES \cup {"absent"}, intent: Intents \cup {None},
        lease: Workers \cup {None}, expired: BOOLEAN,
        msg: Messages \cup {None}, att: Attestations \cup {None}, hash: Nat,
        reason: RELAY_BLOCKED_REASONS \cup RELAY_UNCERTAIN_REASONS \cup {None}]

NoRow == [state |-> "absent", intent |-> None, lease |-> None, expired |-> FALSE,
          msg |-> None, att |-> None, hash |-> 0, reason |-> None]

relayNewPendingRecord(i) == [NoRow EXCEPT !.state = "attestation_pending", !.intent = i]

Claimable(r) == r.state \in RELAY_CLAIMABLE_STATES
Terminal(r) == r.state \in RELAY_TERMINAL_STATES

Unleased(r) == [r EXCEPT !.lease = None, !.expired = FALSE]

relayFinishMinted(r) == [Unleased(r) EXCEPT !.state = "minted"]
relayFinishBlocked(r, reason) == [Unleased(r) EXCEPT !.state = "blocked", !.reason = reason]
relayFinishUncertain(r, hash, reason) ==
  [Unleased(r) EXCEPT !.state = "uncertain", !.reason = reason, !.hash = hash]

\* Variants: an expired lease past the fence only cleared, or the row retried.
ReconcileLeaseOnly(r) == Unleased(r)
ReconcileRetries(r) ==
  IF r.state = "mint_submitting" THEN [Unleased(r) EXCEPT !.state = "attested"] ELSE Unleased(r)

\* An expired lease is cleared; past the fence a send may have happened.
relayReconcileExpired(r) ==
  IF r.state = "mint_submitting"
  THEN relayFinishUncertain(r, r.hash, "submission_lease_expired")
  ELSE Unleased(r)

Expired(r) == r.lease # None /\ r.expired /\ ~Terminal(r)

\* Variant: every identity includes the digest.
ConflictsByDigest(r, i) == r.state # "absent" /\ r.intent = i

\* Whether an existing row owns the source identity of intent i.
relayIdentityConflicts(r, i) ==
  /\ r.state # "absent"
  /\ r.intent.domain = i.domain
  /\ r.intent.burn = i.burn
  /\ i.domain = "base" => r.intent.digest = i.digest

-----------------------------------------------------------------------------
(* Calls *)

\* A worker between await points: about to claim, waiting for Iris, about to
\* cross the fence, past it, holding a hash, told the send failed, waiting for
\* the receipt, or between two rows of a sweep.
Driving == {"poll", "fence", "send", "sent", "failed", "confirm"}

Call == [pc: {"idle", "sweep", "drive"} \cup Driving, kind: {"relay", "resume", "sweep", None},
         exec: Execs \cup {None}, from: RELAY_CLAIMABLE_STATES \cup {None},
         msg: Messages \cup {None}, att: Attestations \cup {None}, hash: Nat,
         todo: SUBSET Execs]

IdleCall == [pc |-> "idle", kind |-> None, exec |-> None, from |-> None,
             msg |-> None, att |-> None, hash |-> 0, todo |-> {}]

RowOf(w) == rec[call[w].exec]

\* The lease token is the call that claimed: a call claims a row at most once.
Holds(w) == RowOf(w).lease = w /\ ~RowOf(w).expired

\* Rows that relayMint or resumeExisting is working on in process p.
inFlight(p) ==
  {call[w].exec : w \in {x \in Callers : ProcOf[x] = p /\ call[x].pc # "idle"}}

\* The call is over; a sweep goes on to its next row.
AfterCall(c) ==
  IF c.todo # {} THEN [IdleCall EXCEPT !.pc = "sweep", !.kind = c.kind, !.todo = c.todo]
                 ELSE IdleCall

Return(w) == call' = [call EXCEPT ![w] = AfterCall(@)]

Save(w, r) == rec' = [rec EXCEPT ![call[w].exec] = r]

Fault ==
  /\ CountFaults => faults < MaxFaults
  /\ faults' = IF CountFaults THEN faults + 1 ELSE faults

Init ==
  /\ rec = [e \in Execs |-> NoRow]
  /\ call = [w \in Workers |-> IdleCall]
  /\ sends = [e \in Execs |-> 0]
  /\ mint = [e \in Execs |-> "none"]
  /\ wire = [e \in Execs |-> <<None, None>>]
  /\ dispatched = {}
  /\ faults = 0

-----------------------------------------------------------------------------
(* Starting work *)

\* relayMint: enqueue is idempotent for the same intent, refuses a changed
\* intent and refuses a burn that belongs to another execution id.
EnqueueAllowed(e, i) ==
  IF rec[e].state = "absent" THEN \A f \in Execs : ~relayIdentityConflicts(rec[f], i)
                             ELSE rec[e].intent = i

Enqueued(e, i) == IF rec[e].state = "absent" THEN relayNewPendingRecord(i) ELSE rec[e]

\* Variant: a submitted mint counts as minted.
DepositsOnSubmitted(r, e) ==
  dispatched' = IF r.state \in {"minted", "mint_submitted"} /\ r.intent.domain = "stellar"
                THEN dispatched \cup {e} ELSE dispatched

\* farm deposits the proceeds of a burn on Stellar once relayMint reports it minted.
Deposits(r, e) ==
  dispatched' = IF r.state = "minted" /\ r.intent.domain = "stellar"
                THEN dispatched \cup {e} ELSE dispatched

relayMint(w, e, i) ==
  /\ call[w].pc = "idle"
  /\ e \notin inFlight(ProcOf[w])
  /\ EnqueueAllowed(e, i)
  /\ rec' = [rec EXCEPT ![e] = Enqueued(e, i)]
  /\ call' = IF Terminal(Enqueued(e, i)) THEN call
             ELSE [call EXCEPT ![w] = [IdleCall EXCEPT !.pc = "drive", !.kind = "relay", !.exec = e]]
  /\ Deposits(Enqueued(e, i), e)
  /\ UNCHANGED <<chainVars, faults>>

Reconciled(r) == IF Expired(r) THEN relayReconcileExpired(r) ELSE r

\* resumeExisting: only a row of a Base burn that already exists.
resumeExisting(w, e) ==
  /\ call[w].pc = "idle"
  /\ e \notin inFlight(ProcOf[w])
  /\ rec[e].state # "absent" /\ rec[e].intent.domain = "base"
  /\ rec' = [rec EXCEPT ![e] = Reconciled(@)]
  /\ call' = IF Terminal(rec'[e]) THEN call
             ELSE [call EXCEPT ![w] = [IdleCall EXCEPT !.pc = "drive", !.kind = "resume", !.exec = e]]
  /\ UNCHANGED <<chainVars, dispatched, faults>>

\* Variant: rows that wait for a receipt are left out of the sweep.
SweepableUnsubmitted(rows) ==
  {e \in Execs : rows[e].state \in {"attestation_pending", "attested"} /\ rows[e].lease = None}

\* sweepStuck: reconcile every expired lease, then list the rows to drive.
Sweepable(rows) == {e \in Execs : Claimable(rows[e]) /\ rows[e].lease = None}

sweepStuck(w) ==
  /\ call[w].pc = "idle"
  /\ rec' = [e \in Execs |-> Reconciled(rec[e])]
  /\ call' = [call EXCEPT ![w] = AfterCall([@ EXCEPT !.kind = "sweep", !.todo = Sweepable(rec')])]
  /\ UNCHANGED <<chainVars, dispatched, faults>>

\* The sweep's loop: a row that a call of this process works on is skipped.
SweepRow(w, e) ==
  /\ call[w].pc = "sweep"
  /\ e \in call[w].todo
  /\ LET rest == [call[w] EXCEPT !.todo = @ \ {e}] IN
     call' = [call EXCEPT ![w] = IF e \in inFlight(ProcOf[w]) THEN AfterCall(rest)
                                 ELSE [rest EXCEPT !.pc = "drive", !.exec = e]]
  /\ UNCHANGED <<rec, chainVars, dispatched, faults>>

\* drive, up to its first await: answer from a terminal row, else claim.
relayClaimable(r) == Claimable(r) /\ r.lease = None

DriveClaim(w) ==
  /\ call[w].pc = "drive"
  /\ relayClaimable(RowOf(w))
  /\ Save(w, [RowOf(w) EXCEPT !.lease = w, !.expired = FALSE])
  /\ call' = [call EXCEPT ![w].pc = IF RowOf(w).state = "mint_submitted" THEN "confirm" ELSE "poll",
                          ![w].from = RowOf(w).state, ![w].hash = RowOf(w).hash]
  /\ UNCHANGED <<chainVars, dispatched, faults>>

DriveAnswer(w) ==
  /\ call[w].pc = "drive"
  /\ ~relayClaimable(RowOf(w))
  /\ Return(w)
  /\ IF call[w].kind = "relay" THEN Deposits(RowOf(w), call[w].exec) ELSE UNCHANGED dispatched
  /\ UNCHANGED <<rec, chainVars, faults>>

-----------------------------------------------------------------------------
(* One claimed row: poll, fence, send, checkpoint, confirm *)

\* Variant: recordAttested does not check the lease.
AttestAnyLease(w, m, a) ==
  /\ call[w].pc = "poll"
  /\ RowOf(w).state = "attestation_pending" \/ (RowOf(w).state = "attested" /\ RowOf(w).msg = m)
  /\ Save(w, [RowOf(w) EXCEPT !.state = "attested", !.msg = m, !.att = a])
  /\ call' = [call EXCEPT ![w].pc = "fence", ![w].msg = m, ![w].att = a]
  /\ UNCHANGED <<chainVars, dispatched, faults>>

\* pollPhase: Iris returns one matching message, and it is checkpointed.
PollAttested(w, m, a) ==
  /\ call[w].pc = "poll"
  /\ Holds(w)
  /\ RowOf(w).state = "attestation_pending" \/ (RowOf(w).state = "attested" /\ RowOf(w).msg = m)
  /\ Save(w, [RowOf(w) EXCEPT !.state = "attested", !.msg = m, !.att = a])
  /\ call' = [call EXCEPT ![w].pc = "fence", ![w].msg = m, ![w].att = a]
  /\ UNCHANGED <<chainVars, dispatched, faults>>

\* pollPhase: wrong, ambiguous or changed evidence ends the row.
PollVerdicts(w) ==
  {"message_mismatch", "message_ambiguous"}
    \cup (IF call[w].from = "attested" /\ \E m \in Messages : m # RowOf(w).msg
          THEN {"attested_evidence_changed"} ELSE {})

PollBlocked(w, reason) ==
  /\ call[w].pc = "poll"
  /\ Holds(w)
  /\ reason \in PollVerdicts(w)
  /\ Save(w, relayFinishBlocked(RowOf(w), reason))
  /\ Return(w)
  /\ UNCHANGED <<chainVars, dispatched, faults>>

\* markMintSubmitting: the durable fence before the send.
SubmitFence(w) ==
  /\ call[w].pc = "fence"
  /\ Holds(w)
  /\ RowOf(w).state = "attested"
  /\ Save(w, [RowOf(w) EXCEPT !.state = "mint_submitting"])
  /\ call' = [call EXCEPT ![w].pc = "send"]
  /\ UNCHANGED <<chainVars, dispatched, faults>>

\* The send: the chain may or may not take it, whatever the caller is told.
SubmitSend(w, fate, answer) ==
  /\ call[w].pc = "send"
  /\ LET e == call[w].exec IN
     /\ sends' = [sends EXCEPT ![e] = @ + 1]
     /\ mint' = [mint EXCEPT ![e] = fate]
     /\ wire' = [wire EXCEPT ![e] = <<call[w].msg, call[w].att>>]
     /\ call' = [call EXCEPT ![w].pc = answer, ![w].hash = IF answer = "sent" THEN sends'[e] ELSE @]
  /\ UNCHANGED <<rec, dispatched, faults>>

\* Variant: a late hash is stored whatever became of the row.
CheckpointAnyState(w) ==
  /\ call[w].pc = "sent"
  /\ Save(w, [RowOf(w) EXCEPT !.state = "mint_submitted", !.hash = call[w].hash,
                               !.reason = None])
  /\ call' = [call EXCEPT ![w].pc = "confirm"]
  /\ UNCHANGED <<chainVars, dispatched, faults>>

\* The send returned a hash and markMintSubmitted stores it.
SubmitCheckpoint(w) ==
  /\ call[w].pc = "sent"
  /\ Holds(w)
  /\ RowOf(w).state = "mint_submitting"
  /\ Save(w, [RowOf(w) EXCEPT !.state = "mint_submitted", !.hash = call[w].hash])
  /\ call' = [call EXCEPT ![w].pc = "confirm"]
  /\ UNCHANGED <<chainVars, dispatched, faults>>

\* The send threw, or its hash could not be checkpointed: the row is uncertain.
SubmitUnknown(w) ==
  /\ call[w].pc = "failed"
  /\ Holds(w)
  /\ RowOf(w).state = "mint_submitting"
  /\ Save(w, relayFinishUncertain(RowOf(w), RowOf(w).hash, "submission_unknown"))
  /\ Return(w)
  /\ UNCHANGED <<chainVars, dispatched, faults>>

SubmitCheckpointFailed(w) ==
  /\ call[w].pc = "sent"
  /\ Holds(w)
  /\ RowOf(w).state = "mint_submitting"
  /\ Fault
  /\ Save(w, relayFinishUncertain(RowOf(w), call[w].hash, "submitted_checkpoint_failed"))
  /\ Return(w)
  /\ UNCHANGED <<chainVars, dispatched>>

\* confirmPhase: the receipt of exactly the checkpointed hash.
Receipt(w) == IF call[w].hash = sends[call[w].exec] THEN mint[call[w].exec] ELSE "none"

ConfirmMinted(w) ==
  /\ call[w].pc = "confirm"
  /\ Receipt(w) = "ok"
  /\ Holds(w)
  /\ RowOf(w).state = "mint_submitted" /\ RowOf(w).hash = call[w].hash
  /\ Save(w, relayFinishMinted(RowOf(w)))
  /\ Return(w)
  /\ IF call[w].kind = "relay" THEN Deposits(relayFinishMinted(RowOf(w)), call[w].exec)
                               ELSE UNCHANGED dispatched
  /\ UNCHANGED <<chainVars, faults>>

ConfirmReverted(w) ==
  /\ call[w].pc = "confirm"
  /\ Receipt(w) = "reverted"
  /\ Holds(w)
  /\ Save(w, relayFinishBlocked(RowOf(w), "destination_reverted"))
  /\ Return(w)
  /\ UNCHANGED <<chainVars, dispatched, faults>>

-----------------------------------------------------------------------------
(* Giving up *)

\* releaseQuietly: release the lease if it is still held in a safe state.
relayRelease(w) == IF Holds(w) /\ Claimable(RowOf(w)) THEN Unleased(RowOf(w)) ELSE RowOf(w)

\* Variant: a missing receipt is taken for a revert.
TimeoutIsRevert(w) ==
  /\ call[w].pc = "confirm"
  /\ Receipt(w) \notin {"ok", "reverted"}
  /\ Holds(w)
  /\ Save(w, relayFinishBlocked(RowOf(w), "destination_reverted"))
  /\ Return(w)
  /\ UNCHANGED <<chainVars, dispatched, faults>>

\* No receipt yet: keep the hash for a later confirmation.
ConfirmPending(w) ==
  /\ call[w].pc = "confirm"
  /\ Receipt(w) \notin {"ok", "reverted"}
  /\ Save(w, relayRelease(w))
  /\ Return(w)
  /\ UNCHANGED <<chainVars, dispatched, faults>>

\* The transition the call needs is refused: its lease is gone.
Refused(w) ==
  /\ call[w].pc \in Driving \ {"send"}
  /\ ~Holds(w)
  /\ Return(w)
  /\ UNCHANGED <<rec, chainVars, dispatched, faults>>

\* Iris times out, the receipt cannot be read, or the store fails: the call
\* releases its lease, unless that fails too, and ends.
GiveUp(w, released) ==
  /\ call[w].pc \in (Driving \ {"send"}) \cup {"drive"}
  /\ released => call[w].pc # "drive"
  /\ Fault
  /\ Save(w, IF released THEN relayRelease(w) ELSE RowOf(w))
  /\ Return(w)
  /\ UNCHANGED <<chainVars, dispatched>>

-----------------------------------------------------------------------------
(* Environment *)

\* A process dies: its calls are gone, their leases stay in the store.
Crash(p) ==
  /\ \E w \in Workers : ProcOf[w] = p /\ call[w].pc # "idle"
  /\ Fault
  /\ call' = [w \in Workers |-> IF ProcOf[w] = p THEN IdleCall ELSE call[w]]
  /\ UNCHANGED <<rec, chainVars, dispatched>>

Alive(e) == \E w \in Workers : rec[e].lease = w /\ call[w].exec = e /\ call[w].pc \in Driving

\* A lease runs out.  It is sized to outlive its call, so one that expires
\* under a live call is a fault.
LeaseExpires(e) ==
  /\ rec[e].lease # None /\ ~rec[e].expired
  /\ IF Alive(e) THEN Fault ELSE UNCHANGED faults
  /\ rec' = [rec EXCEPT ![e].expired = TRUE]
  /\ UNCHANGED <<call, chainVars, dispatched>>

ChainSettles(e, fate) ==
  /\ mint[e] = "pending"
  /\ mint' = [mint EXCEPT ![e] = fate]
  /\ UNCHANGED <<rec, call, sends, wire, dispatched, faults>>

Work(w) ==
  \/ \E e \in Execs : SweepRow(w, e)
  \/ DriveClaim(w) \/ DriveAnswer(w)
  \/ \E m \in Messages, a \in Attestations : PollAttested(w, m, a)
  \/ \E reason \in RELAY_BLOCKED_REASONS : PollBlocked(w, reason)
  \/ SubmitFence(w)
  \/ \E fate \in {"pending", "lost"}, answer \in {"sent", "failed"} : SubmitSend(w, fate, answer)
  \/ SubmitCheckpoint(w) \/ SubmitUnknown(w)
  \/ ConfirmMinted(w) \/ ConfirmReverted(w) \/ ConfirmPending(w)
  \/ Refused(w)

Next ==
  \/ \E w \in Workers : Work(w) \/ SubmitCheckpointFailed(w)
  \/ \E w \in Callers, e \in Execs, i \in Intents : relayMint(w, e, i)
  \/ \E w \in Callers, e \in Execs : resumeExisting(w, e)
  \/ \E w \in Sweepers : sweepStuck(w)
  \/ \E w \in Workers, released \in BOOLEAN : GiveUp(w, released)
  \/ \E p \in Procs : Crash(p)
  \/ \E e \in Execs : LeaseExpires(e) \/ \E fate \in {"ok", "reverted"} : ChainSettles(e, fate)

Spec == Init /\ [][Next]_vars

\* A call that is not cut short runs on, the sweep is started again and again,
\* an abandoned lease runs out, and a pending transaction is decided.
Fairness ==
  /\ \A w \in Workers : WF_vars(Work(w))
  /\ \A w \in Sweepers : WF_vars(sweepStuck(w))
  /\ \A e \in Execs : WF_vars(LeaseExpires(e) /\ ~Alive(e))
  /\ \A e \in Execs : WF_vars(\E fate \in {"ok", "reverted"} : ChainSettles(e, fate))

FairSpec == Spec /\ Fairness

-----------------------------------------------------------------------------
(* Properties *)

TypeOK ==
  /\ rec \in [Execs -> Row]
  /\ call \in [Workers -> Call]
  /\ sends \in [Execs -> Nat]
  /\ mint \in [Execs -> {"none", "pending", "lost", "ok", "reverted"}]
  /\ wire \in [Execs -> (Messages \cup {None}) \X (Attestations \cup {None})]
  /\ dispatched \subseteq Execs
  /\ faults \in Nat

\* One Stellar transaction is one burn; one Base transaction may bundle
\* several, told apart by their expectations.
SameBurn(i, j) ==
  i.domain = j.domain /\ i.burn = j.burn /\ (i.domain = "stellar" \/ i.digest = j.digest)

\* A burn is submitted to the destination at most once: not twice by one
\* execution id, whatever expires, crashes or is retried between the fence and
\* the checkpoint, and not once by each of two execution ids
\* (watcher.mjs: "exactly one external submission").
AtMostOneSubmission ==
  \A e \in Execs :
    /\ sends[e] <= 1
    /\ \A f \in Execs \ {e} :
         sends[e] > 0 /\ sends[f] > 0 => ~SameBurn(rec[e].intent, rec[f].intent)

\* What the store demands of every row it reads.
assertCanonicalRelayRecord(r) ==
  /\ Terminal(r) => r.lease = None
  /\ r.lease = None => ~r.expired
  /\ (r.msg = None) = (r.att = None)
  /\ r.state # "blocked" => (r.msg = None) = (r.state = "attestation_pending")
  /\ r.state = "mint_submitting" => r.lease # None
  /\ LET needsMintHash == \/ r.state \in {"mint_submitted", "minted"}
                          \/ r.state = "blocked" /\ r.reason = "destination_reverted"
     IN /\ needsMintHash => r.hash # 0
        /\ ~needsMintHash /\ r.state # "uncertain" => r.hash = 0
  /\ r.state = "blocked" => r.reason \in RELAY_BLOCKED_REASONS
  /\ r.state = "uncertain" => r.reason \in RELAY_UNCERTAIN_REASONS
  /\ r.state \notin {"blocked", "uncertain"} => r.reason = None

\* Every row a transition writes passes assertCanonicalRelayRecord; a row that
\* does not makes every later read and the whole sweep throw.
CanonicalRecords ==
  \A e \in Execs : rec[e].state # "absent" => assertCanonicalRelayRecord(rec[e])

\* What a settled row says of the chain is true: minted rows have a mint that
\* succeeded, and a blocked row has no transaction that can still succeed, so
\* an operator may safely act on it.
VerdictsTrue ==
  \A e \in Execs :
    /\ rec[e].state = "minted" => mint[e] = "ok" /\ rec[e].hash = sends[e]
    /\ rec[e].state = "blocked" => mint[e] \in {"none", "reverted"}

\* farm never deposits before the mint has succeeded on the destination.
DepositsBacked == \A e \in dispatched : mint[e] = "ok"

\* What was sent is what the row holds: no late poll, retry or recovery
\* replaces the evidence of a submission.
SubmittedEvidenceKept ==
  \A e \in Execs : sends[e] > 0 => wire[e] = <<rec[e].msg, rec[e].att>>

\* A terminal row never changes again, under duplicate calls, late workers,
\* sweeps and restarts (watcher.mjs: "byte-for-byte stable").
TerminalStable ==
  [][\A e \in Execs : Terminal(rec[e]) => rec'[e] = rec[e]]_vars

\* Once faults stop, every row that was accepted is settled, a row left behind
\* the fence included (the sweep declares it uncertain), except one whose
\* transaction the destination dropped after returning its hash.
RowsSettle ==
  \A e \in Execs : rec[e].state # "absent" ~>
    Terminal(rec[e]) \/ (rec[e].state = "mint_submitted" /\ mint[e] = "lost")

\* The relay implements the ledger of one-shot sends.
StatusOf(r) ==
  CASE r.state \in {"attestation_pending", "attested"} -> "open"
    [] r.state = "mint_submitting" -> "fenced"
    [] r.state = "mint_submitted"  -> "submitted"
    [] OTHER -> r.state

Ledger == INSTANCE MintLedger WITH
  status <- [e \in Execs |-> StatusOf(rec[e])],
  ticket <- {e \in Execs : \E w \in Workers : call[w].pc = "send" /\ call[w].exec = e}

ImplementsLedger == Ledger!LedgerSpec
=============================================================================
