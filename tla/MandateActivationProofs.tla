----------------------- MODULE MandateActivationProofs ----------------------
(***************************************************************************)
(* Proofs about MandateActivation, for any number of mandates and relayer  *)
(* processes: the type invariant, one activation operation per mandate,    *)
(* agreement of the two tables, no resurrection and no lost wake-up.       *)
(***************************************************************************)
EXTENDS MandateActivation, TLAPS

\* Nothing was sent for m and nobody is about to.
Unsent(m) == ops[m] = 0 /\ \A p \in Procs : run[p][m].pc # "send"

\* The row can still lead to the fence.
Open(m) == work[m].status \in {"pending", "running"} \/ man[m].status = "absent"

\* Before the fence nothing was sent, and past it one run holds the only
\* right to send.
SendInv ==
  \A m \in Mandates :
    /\ ops[m] <= 1
    /\ Open(m) => Unsent(m)
    /\ \A p \in Procs : run[p][m].pc = "send" =>
         /\ ops[m] = 0
         /\ \A q \in Procs : run[q][m].pc = "send" => q = p

\* What a row pair and the included operations must satisfy together.
Agree(r, w, included) ==
  /\ r.status = "revoked" => ~r.key /\ w = NoWork
  /\ r.status = "active" => w.status = "done" /\ r.hash \in included
  /\ r.status = "activation_uncertain" <=> w.status = "uncertain"
  /\ w.status \in {"pending"} \cup Leased => r.status = "pending_activation"
  /\ w.status \in Leased <=> w.lease # None

\* A run that has seen its receipt holds the hash of an included operation.
ReceiptInv ==
  \A p \in Procs, m \in Mandates :
    run[p][m].pc \in {"check", "evaluate"} \cup Verdicts => run[p][m].hash \in mined[m]

\* A run under way is one of its process's queue items.
RunQueued ==
  \A p \in Procs, m \in Mandates : run[p][m].pc # "idle" => m \in queue[p]

\* Who will find m: a queue in which no run has taken it yet, or a scan.
Awaits(p, m) ==
  \/ m \in queue[p] /\ run[p][m].pc = "idle"
  \/ req[p]
  \/ boot[p] \in {"down", "resume"}
  \/ loop[p] # "idle"
WakeInv ==
  \A m \in Mandates :
    work[m].status = "pending" /\ ~expired[m] =>
      m \in dropped \/ \E p \in Procs : Awaits(p, m)

IInv == TypeOK /\ SendInv /\ TablesAgree /\ ReceiptInv /\ RunQueued /\ WakeInv

-----------------------------------------------------------------------------
\* Types.

RowTypes ==
  /\ man' \in [Mandates -> Mandate]
  /\ work' \in [Mandates -> ActivationWork]

\* A cleaned-up, reconciled or swept row is a row.
LEMMA CleanedTypes ==
  ASSUME TypeOK, NEW m \in Mandates
  PROVE  /\ man[m] \in Mandate /\ work[m] \in ActivationWork
         /\ CleanedMandate(m) \in Mandate /\ CleanedWork(m) \in ActivationWork
         /\ Reconciled(m) \in ActivationWork /\ Swept(m) \in ActivationWork
         /\ NoMandate \in Mandate /\ NoWork \in ActivationWork
<1>1. man[m] \in Mandate /\ work[m] \in ActivationWork
  BY DEF TypeOK
<1>2. NoMandate \in Mandate /\ NoWork \in ActivationWork
  BY DEF NoMandate, NoWork, Mandate, ActivationWork, Statuses
<1>3. CleanedMandate(m) \in Mandate
  BY <1>1 DEF CleanedMandate, Mandate, Statuses
<1>4. \A s \in {"pending", "uncertain"} : Ended(work[m], s) \in ActivationWork
  BY <1>1 DEF Ended, ActivationWork
<1>5. CleanedWork(m) \in ActivationWork
  BY <1>1, <1>2, <1>4 DEF CleanedWork
<1>6. Reconciled(m) \in ActivationWork
  BY <1>1, <1>4 DEF Reconciled
<1>7. Swept(m) \in ActivationWork
  BY <1>5, <1>6 DEF Swept
<1> QED  BY <1>1, <1>2, <1>3, <1>5, <1>6, <1>7

\* Writing a row pair keeps the tables' types.
LEMMA PutTypes ==
  ASSUME TypeOK, NEW m \in Mandates, NEW r \in Mandate, NEW w \in ActivationWork,
         Put(m, r, w)
  PROVE  RowTypes
  BY DEF TypeOK, Put, RowTypes

\* So does a call that refuses, and a revocation.
LEMMA RefuseTypes ==
  ASSUME TypeOK, NEW m \in Mandates, Refuse(m) \/ revoke(m)
  PROVE  RowTypes
<1> USE CleanedTypes
<1>1. CASE Refuse(m)
  <2> DEFINE r == IF Expired(m) THEN CleanedMandate(m) ELSE man[m]
  <2> DEFINE w == IF Expired(m) THEN CleanedWork(m) ELSE work[m]
  <2>1. r \in Mandate /\ w \in ActivationWork
    OBVIOUS
  <2>2. Put(m, r, w)
    BY <1>1 DEF Refuse
  <2> HIDE DEF r, w
  <2> QED  BY <2>1, <2>2, PutTypes
<1>2. CASE revoke(m)
  <2> DEFINE r == IF expired[m] THEN CleanedMandate(m)
                  ELSE [man[m] EXCEPT !.status = "revoked", !.key = FALSE]
  <2> DEFINE w == IF expired[m] THEN CleanedWork(m) ELSE NoWork
  <2>1. r \in Mandate /\ w \in ActivationWork
    BY DEF Mandate, Statuses
  <2>2. Put(m, r, w)
    BY <1>2 DEF revoke
  <2> HIDE DEF r, w
  <2> QED  BY <2>1, <2>2, PutTypes
<1> QED  BY <1>1, <1>2

\* The sweeps keep the tables' types.
LEMMA SweepTypes ==
  ASSUME TypeOK, reconcileExpired \/ \E p \in Procs : RetryEnds(p)
  PROVE  RowTypes
<1>1. \A m \in Mandates : /\ [man[m] EXCEPT !.status = "activation_uncertain"] \in Mandate
                          /\ man[m] \in Mandate /\ work[m] \in ActivationWork
                          /\ CleanedMandate(m) \in Mandate
                          /\ CleanedWork(m) \in ActivationWork
                          /\ Swept(m) \in ActivationWork
  BY CleanedTypes DEF Mandate, Statuses
<1>2. CASE reconcileExpired
  <2>1. man' \in [Mandates -> Mandate]
    BY <1>1, <1>2 DEF reconcileExpired
  <2>2. work' \in [Mandates -> ActivationWork]
    BY <1>1, <1>2 DEF reconcileExpired
  <2> QED  BY <2>1, <2>2 DEF RowTypes
<1>3. ASSUME NEW p \in Procs, RetryEnds(p)
      PROVE  RowTypes
  <2>1. man' \in [Mandates -> Mandate]
    BY <1>1, <1>3 DEF RetryEnds
  <2>2. work' \in [Mandates -> ActivationWork]
    BY <1>1, <1>3 DEF RetryEnds
  <2> QED  BY <2>1, <2>2 DEF RowTypes
<1> QED  BY <1>2, <1>3

\* How a run's record changes: one record is replaced, the others stay.
Job == [pc : Steps, hash : Nat]
Runs == [Procs -> [Mandates -> Job]]
RunBecomes(p, m, j) ==
  /\ run' \in Runs
  /\ \A q \in Procs, n \in Mandates :
       run'[q][n] = IF q = p /\ n = m THEN j ELSE run[q][n]

\* Replacing one run's record.
LEMMA SetRun ==
  ASSUME TypeOK, NEW p \in Procs, NEW m \in Mandates, NEW j \in Job,
         run' = [run EXCEPT ![p][m] = j]
  PROVE  RunBecomes(p, m, j)
<1>1. run \in Runs
  BY DEF TypeOK, Runs, Job
<1> DEFINE row == [run[p] EXCEPT ![m] = j]
<1>2. /\ row \in [Mandates -> Job]
      /\ \A n \in Mandates : row[n] = IF n = m THEN j ELSE run[p][n]
  BY <1>1 DEF Runs
<1>3. run' = [run EXCEPT ![p] = row]
  OBVIOUS
<1> HIDE DEF row
<1> QED  BY <1>1, <1>2, <1>3 DEF RunBecomes, Runs

\* Moving a run to its next step keeps the hash it holds.
LEMMA GotoRun ==
  ASSUME TypeOK, NEW p \in Procs, NEW m \in Mandates, NEW s \in Steps, Goto(p, m, s)
  PROVE  RunBecomes(p, m, [pc |-> s, hash |-> run[p][m].hash])
<1> DEFINE j == [pc |-> s, hash |-> run[p][m].hash]
<1>1. run[p][m] \in Job
  BY DEF TypeOK, Job
<1>2. j = [run[p][m] EXCEPT !.pc = s] /\ j \in Job
  BY <1>1 DEF Job
<1>3. run' = [run EXCEPT ![p][m] = [run[p][m] EXCEPT !.pc = s]]
  BY DEF Goto
<1>4. run' = [run EXCEPT ![p][m] = j]
  BY <1>2, <1>3
<1> HIDE DEF j
<1>5. RunBecomes(p, m, j)
  BY <1>2, <1>4, SetRun
<1> QED  BY <1>5 DEF j

\* A run that ends is idle again.
LEMMA LeaveRun ==
  ASSUME TypeOK, NEW p \in Procs, NEW m \in Mandates, Leave(p, m)
  PROVE  RunBecomes(p, m, Idle) /\ queue' \in [Procs -> SUBSET Mandates]
<1>1. Idle \in Job
  BY DEF Idle, Job, Steps
<1> QED  BY <1>1, SetRun DEF Leave, TypeOK

\* An exception ends the run or sends it to "uncertain".
LEMMA ThrowRun ==
  ASSUME TypeOK, NEW p \in Procs, NEW m \in Mandates, Throw(p, m)
  PROVE  /\ \/ Leave(p, m) /\ RunBecomes(p, m, Idle)
            \/ /\ RunBecomes(p, m, [pc |-> "uncertain", hash |-> run[p][m].hash])
               /\ UNCHANGED queue
               /\ run[p][m].pc \notin {"load", "fence", "uncertain"}
         /\ queue' \in [Procs -> SUBSET Mandates]
<1>1. CASE Leave(p, m)
  BY <1>1, LeaveRun
<1>2. CASE ~Leave(p, m)
  <2>1. Goto(p, m, "uncertain") /\ UNCHANGED queue
        /\ run[p][m].pc \notin {"load", "fence", "uncertain"}
    BY <1>2 DEF Throw
  <2>2. "uncertain" \in Steps
    BY DEF Steps
  <2> QED  BY <2>1, <2>2, GotoRun DEF TypeOK
<1> QED  BY <1>1, <1>2

\* Scheduling and resuming keep the queue's type.
QueueTypes ==
  /\ queue' \in [Procs -> SUBSET Mandates]
  /\ req' \in [Procs -> BOOLEAN]

\* Scheduling one mandate.
LEMMA ScheduleTypes ==
  ASSUME TypeOK, NEW p \in Procs, NEW m \in Mandates, Schedule(p, m)
  PROVE  QueueTypes
  BY DEF TypeOK, Schedule, QueueTypes

\* Queueing what a scan found.
LEMMA ResumeTypes ==
  ASSUME TypeOK, NEW p \in Procs, resumeMandateActivations(p)
  PROVE  QueueTypes
  BY DEF TypeOK, resumeMandateActivations, Recoverable, QueueTypes

\* Every action keeps the types; first the steps that read or write one mandate
\* in one process.
LEMMA RunStepTypes ==
  ASSUME TypeOK, NEW p \in Procs, NEW m \in Mandates,
         Register(p, m) \/ RegisterAgain(p, m) \/ Dispatch(p, m) \/ Step(p, m)
  PROVE  TypeOK'
<1> DEFINE At(s) == RunBecomes(p, m, [pc |-> s, hash |-> run[p][m].hash])
<1>a. \A s \in Steps : Goto(p, m, s) => At(s)
  BY GotoRun
<1>b. man[m] \in Mandate /\ work[m] \in ActivationWork /\ run[p][m] \in Job
  BY DEF TypeOK, Job
<1>c. run[p][m].hash \in Nat
  BY <1>b DEF Job
<1>d. "load" \in Steps /\ "fence" \in Steps /\ "send" \in Steps /\ "sent" \in Steps
      /\ "receipt" \in Steps /\ "check" \in Steps /\ "evaluate" \in Steps
      /\ "uncertain" \in Steps /\ Verdicts \subseteq Steps
  BY DEF Steps, Verdicts
<1>e. Fault => faults' \in Nat
  BY DEF Fault, TypeOK
<1> HIDE DEF At
<1>Register. CASE Register(p, m)
  <2> DEFINE r == [NoMandate EXCEPT !.status = "pending_activation", !.key = TRUE]
  <2> DEFINE w == [NoWork EXCEPT !.status = "pending"]
  <2>1. r \in Mandate /\ w \in ActivationWork
    BY <1>b, <1>c, CleanedTypes
    DEF NoMandate, NoWork, Mandate, ActivationWork, Statuses
  <2>2. Put(m, r, w)
    BY <1>Register DEF Register
  <2> HIDE DEF r, w
  <2>3. RowTypes
    BY <2>1, <2>2, PutTypes
  <2> QED  BY <1>Register, <2>3, ScheduleTypes
           DEF Register, TypeOK, rows, chain, procVars, RowTypes, QueueTypes
<1>RegisterAgain. CASE RegisterAgain(p, m)
  BY <1>RegisterAgain, RefuseTypes, ScheduleTypes
  DEF RegisterAgain, TypeOK, rows, chain, procVars, RowTypes, QueueTypes
<1>Claim. CASE Claim(p, m)
  <2>1. work' \in [Mandates -> ActivationWork]
    BY <1>Claim, <1>b, <1>c DEF Claim, TypeOK, ActivationWork, Leased, Fenced
  <2> QED  BY <1>Claim, <2>1, <1>a, <1>d
           DEF Claim, TypeOK, rows, chain, procVars, At, RunBecomes, Runs, Job
<1>ClaimRefused. CASE ClaimRefused(p, m)
  BY <1>ClaimRefused, <1>e, RefuseTypes, LeaveRun
  DEF ClaimRefused, TypeOK, rows, chain, procVars, RowTypes, RunBecomes, Runs, Job
<1>Load. CASE Load(p, m)
  BY <1>Load, <1>a, <1>d
  DEF Load, TypeOK, rows, chain, procVars, At, RunBecomes, Runs, Job
<1>BindingRefused. CASE BindingRefused(p, m)
  BY <1>BindingRefused, RefuseTypes, LeaveRun
  DEF BindingRefused, TypeOK, rows, chain, procVars, RowTypes, RunBecomes, Runs,
      Job
<1>Fence. CASE Fence(p, m)
  <2>1. work' \in [Mandates -> ActivationWork]
    BY <1>Fence, <1>b, <1>c DEF Fence, TypeOK, ActivationWork, Leased, Fenced
  <2> QED  BY <1>Fence, <2>1, <1>a, <1>d
           DEF Fence, TypeOK, rows, chain, procVars, At, RunBecomes, Runs, Job
<1>Send. CASE Send(p, m)
  <2>1. ops' \in [Mandates -> Nat] /\ ops'[m] \in Nat
    BY <1>Send DEF Send, TypeOK
  <2>2. run' \in Runs
    <3>1. CASE Goto(p, m, "uncertain")
      BY <3>1, <1>a, <1>d DEF At, RunBecomes
    <3>2. CASE run' = [run EXCEPT ![p][m] = [pc |-> "sent", hash |-> ops'[m]]]
      <4> DEFINE j == [pc |-> "sent", hash |-> ops'[m]]
      <4>1. j \in Job
        BY <2>1, <1>d DEF Job
      <4> HIDE DEF j
      <4> QED  BY <3>2, <4>1, SetRun DEF RunBecomes, j
    <3> QED  BY <1>Send, <3>1, <3>2 DEF Send
  <2> QED  BY <1>Send, <2>1, <2>2
           DEF Send, TypeOK, rows, chain, procVars, Runs, Job
<1>SendFails. CASE SendFails(p, m)
  BY <1>SendFails, <1>a, <1>d
  DEF SendFails, TypeOK, rows, chain, procVars, At, RunBecomes, Runs, Job
<1>Submitted. CASE Submitted(p, m)
  <2>1. work' \in [Mandates -> ActivationWork]
    BY <1>Submitted, <1>b, <1>c
    DEF Submitted, TypeOK, ActivationWork, Leased, Fenced
  <2> QED  BY <1>Submitted, <2>1, <1>a, <1>d
           DEF Submitted, TypeOK, rows, chain, procVars, At, RunBecomes, Runs, Job
<1>Receipt. CASE Receipt(p, m)
  BY <1>Receipt, <1>a, <1>d
  DEF Receipt, TypeOK, rows, chain, procVars, At, RunBecomes, Runs, Job
<1>ReceiptMissing. CASE ReceiptMissing(p, m)
  BY <1>ReceiptMissing, <1>a, <1>d
  DEF ReceiptMissing, TypeOK, rows, chain, procVars, At, RunBecomes, Runs, Job
<1>Check. CASE Check(p, m)
  BY <1>Check, <1>a, <1>d
  DEF Check, TypeOK, rows, chain, procVars, At, RunBecomes, Runs, Job
<1>Evaluate. CASE Evaluate(p, m)
  BY <1>Evaluate, <1>a, <1>d
  DEF Evaluate, TypeOK, rows, chain, procVars, At, RunBecomes, Runs, Job
<1>FinishActive. CASE FinishActive(p, m)
  <2> DEFINE r == [man[m] EXCEPT !.status = "active", !.hash = run[p][m].hash]
  <2> DEFINE w == Ended(work[m], "done")
  <2>1. r \in Mandate /\ w \in ActivationWork
    BY <1>b, <1>c, CleanedTypes DEF Ended, Mandate, ActivationWork, Statuses
  <2>2. Put(m, r, w)
    BY <1>FinishActive DEF FinishActive
  <2> HIDE DEF r, w
  <2>3. RowTypes
    BY <2>1, <2>2, PutTypes
  <2> QED  BY <1>FinishActive, <2>3, LeaveRun
           DEF FinishActive, TypeOK, rows, chain, procVars, RowTypes, RunBecomes,
               Runs, Job
<1>FinishRevoked. CASE FinishRevoked(p, m)
  <2> DEFINE r == [status |-> "revoked", key |-> FALSE, hash |-> run[p][m].hash]
  <2> DEFINE w == NoWork
  <2>1. r \in Mandate /\ w \in ActivationWork
    BY <1>b, <1>c, CleanedTypes DEF Mandate, Statuses
  <2>2. Put(m, r, w)
    BY <1>FinishRevoked DEF FinishRevoked
  <2> HIDE DEF r, w
  <2>3. RowTypes
    BY <2>1, <2>2, PutTypes
  <2> QED  BY <1>FinishRevoked, <2>3, LeaveRun
           DEF FinishRevoked, TypeOK, rows, chain, procVars, RowTypes,
               RunBecomes, Runs, Job
<1>FinishUncertain. CASE FinishUncertain(p, m)
  <2> DEFINE r == [man[m] EXCEPT !.status = "activation_uncertain"]
  <2> DEFINE w == [Ended(work[m], "uncertain") EXCEPT
                    !.hash = IF run[p][m].hash # 0 THEN run[p][m].hash ELSE @]
  <2>a. man[m] \in Mandate /\ work[m] \in ActivationWork
    BY CleanedTypes
  <2>b. Ended(work[m], "uncertain") \in ActivationWork
    BY <2>a DEF Ended, ActivationWork, Statuses
  <2>c. r \in Mandate
    BY <2>a DEF Mandate, Statuses
  <2>d. run[p][m].hash \in Nat
    BY <1>b, <1>c DEF Job
  <2>e. w \in ActivationWork
    BY <2>b, <2>d DEF ActivationWork
  <2>1. r \in Mandate /\ w \in ActivationWork
    BY <2>c, <2>e
  <2>2. Put(m, r, w)
    BY <1>FinishUncertain DEF FinishUncertain
  <2> HIDE DEF r, w
  <2>3. RowTypes
    BY <2>1, <2>2, PutTypes
  <2> QED  BY <1>FinishUncertain, <2>3, LeaveRun
           DEF FinishUncertain, TypeOK, rows, chain, procVars, RowTypes,
               RunBecomes, Runs, Job
<1>RunThrows. CASE RunThrows(p, m)
  BY <1>RunThrows, <1>e, RefuseTypes, ThrowRun
  DEF RunThrows, TypeOK, rows, chain, procVars, RowTypes, RunBecomes, Runs, Job
<1> QED
  BY <1>Register, <1>RegisterAgain, <1>Claim, <1>ClaimRefused,
     <1>Load, <1>BindingRefused, <1>Fence, <1>Send, <1>SendFails,
     <1>Submitted, <1>Receipt, <1>ReceiptMissing, <1>Check,
     <1>Evaluate, <1>FinishActive, <1>FinishRevoked,
     <1>FinishUncertain, <1>RunThrows
  DEF Dispatch, Step

\* The steps of one process, of one mandate, and of the environment.
LEMMA OtherStepTypes ==
  ASSUME TypeOK,
         \/ \E m \in Mandates : \/ RevokeRequest(m) \/ ReadExpired(m)
                                \/ LeaseExpires(m) \/ MandateExpires(m) \/ OpMined(m)
         \/ \E p \in Procs : Resume(p) \/ Crash(p)
  PROVE  TypeOK'
<1>e. Fault => faults' \in Nat
  BY DEF Fault, TypeOK
<1>RevokeRequest. ASSUME NEW m \in Mandates, RevokeRequest(m) PROVE TypeOK'
  BY <1>RevokeRequest, RefuseTypes
  DEF RevokeRequest, TypeOK, rows, chain, procVars, RowTypes
<1>ReadExpired. ASSUME NEW m \in Mandates, ReadExpired(m) PROVE TypeOK'
  BY <1>ReadExpired, RefuseTypes
  DEF ReadExpired, TypeOK, rows, chain, procVars, RowTypes
<1>LeaseExpires. ASSUME NEW m \in Mandates, LeaseExpires(m) PROVE TypeOK'
  <2> DEFINE w == [work[m] EXCEPT !.late = TRUE]
  <2>a. w \in ActivationWork
    BY CleanedTypes DEF ActivationWork
  <2>b. work' = [work EXCEPT ![m] = w]
    BY <1>LeaseExpires DEF LeaseExpires
  <2> HIDE DEF w
  <2>1. work' \in [Mandates -> ActivationWork]
    BY <2>a, <2>b DEF TypeOK
  <2> QED  BY <1>LeaseExpires, <2>1, <1>e
           DEF LeaseExpires, TypeOK, rows, chain, procVars
<1>MandateExpires. ASSUME NEW m \in Mandates, MandateExpires(m) PROVE TypeOK'
  BY <1>MandateExpires DEF MandateExpires, TypeOK, rows, chain, procVars
<1>OpMined. ASSUME NEW m \in Mandates, OpMined(m) PROVE TypeOK'
  BY <1>OpMined DEF OpMined, TypeOK, rows, chain, procVars
<1>BootResume. ASSUME NEW p \in Procs, BootResume(p) PROVE TypeOK'
  BY <1>BootResume, SweepTypes, ResumeTypes
 
 DEF BootResume, resumeMandateActivations, TypeOK, rows, chain, procVars,
     RowTypes, QueueTypes
<1>BootUp. ASSUME NEW p \in Procs, BootUp(p) PROVE TypeOK'
  BY <1>BootUp DEF BootUp, TypeOK, rows, chain, procVars
<1>Restart. ASSUME NEW p \in Procs, Restart(p) PROVE TypeOK'
  BY <1>Restart DEF Restart, TypeOK, rows, chain, procVars
<1>RetryFires. ASSUME NEW p \in Procs, RetryFires(p) PROVE TypeOK'
  BY <1>RetryFires DEF RetryFires, TypeOK, rows, chain, procVars
<1>RetryResume. ASSUME NEW p \in Procs, RetryResume(p) PROVE TypeOK'
  BY <1>RetryResume, SweepTypes, ResumeTypes
 
 DEF RetryResume, resumeMandateActivations, TypeOK, rows, chain, procVars,
     RowTypes, QueueTypes
<1>RetryFails. ASSUME NEW p \in Procs, RetryFails(p) PROVE TypeOK'
  BY <1>RetryFails, <1>e DEF RetryFails, TypeOK, rows, chain, procVars
<1>RetryEnds. ASSUME NEW p \in Procs, RetryEnds(p) PROVE TypeOK'
  BY <1>RetryEnds, SweepTypes
  DEF RetryEnds, TypeOK, rows, chain, procVars, RowTypes
<1>Crash. ASSUME NEW p \in Procs, Crash(p) PROVE TypeOK'
  <2>1. Idle \in [pc : Steps, hash : Nat]
    BY DEF Idle, Steps
  <2> QED  BY <1>Crash, <1>e, <2>1 DEF Crash, TypeOK, rows, chain, procVars
<1> QED
  BY <1>RevokeRequest, <1>ReadExpired, <1>LeaseExpires,
     <1>MandateExpires, <1>OpMined, <1>BootResume, <1>BootUp,
     <1>Restart, <1>RetryFires, <1>RetryResume, <1>RetryFails,
     <1>RetryEnds, <1>Crash
  DEF Resume

\* The steps of Next, grouped by what they are about.
LEMMA NextCases ==
  ASSUME Next
  PROVE  \/ \E p \in Procs, m \in Mandates :
              Register(p, m) \/ RegisterAgain(p, m) \/ Dispatch(p, m) \/ Step(p, m)
         \/ \E m \in Mandates : \/ RevokeRequest(m) \/ ReadExpired(m)
                                \/ LeaseExpires(m) \/ MandateExpires(m) \/ OpMined(m)
         \/ \E p \in Procs : Resume(p) \/ Crash(p)
  BY DEF Next

\* The type invariant, for every set of mandates and processes.
THEOREM ActivationTypeCorrect == Spec => []TypeOK
<1>1. Init => TypeOK
  BY
  DEF Init, TypeOK, NoMandate, NoWork, Idle, Mandate, ActivationWork, Statuses,
      Steps
<1>2. TypeOK /\ [Next]_vars => TypeOK'
  <2> SUFFICES ASSUME TypeOK, [Next]_vars PROVE TypeOK'
    OBVIOUS
  <2>1. CASE Next
    BY <2>1, NextCases, RunStepTypes, OtherStepTypes
  <2>2. CASE UNCHANGED vars
    BY <2>2 DEF vars, chain, procVars, TypeOK
  <2> QED  BY <2>1, <2>2
<1> QED  BY <1>1, <1>2, PTL DEF Spec

-----------------------------------------------------------------------------
\* The two tables.

Settled == {"active", "activation_uncertain", "revoked"}

\* What a step may do to the rows of m, as a condition on the new ones: they
\* agree, a mandate past the fence does not open again, and none is resurrected.
RowMove(m, r, w) ==
  /\ Agree(r, w, mined[m])
  /\ w.status \in {"pending", "running"} \/ r.status = "absent" => Open(m)
  /\ man[m].status \in Settled => r.status \in {man[m].status, "revoked"}
RowsMove == \A n \in Mandates : RowMove(n, man'[n], work'[n])

\* TablesAgree, row by row.
LEMMA AgreeEverywhere ==
  TablesAgree <=> \A m \in Mandates : Agree(man[m], work[m], mined[m])
  BY DEF TablesAgree, Agree

\* Leaving the rows alone, cleaning them up and releasing a lease are moves.
LEMMA CleanedMoves ==
  ASSUME TypeOK, TablesAgree, NEW m \in Mandates
  PROVE  /\ RowMove(m, man[m], work[m])
         /\ RowMove(m, CleanedMandate(m), CleanedWork(m))
         /\ Reconciled(m).status = "uncertain" =>
              RowMove(m, [man[m] EXCEPT !.status = "activation_uncertain"], Reconciled(m))
         /\ Reconciled(m).status # "uncertain" => RowMove(m, man[m], Reconciled(m))
         /\ Known(m) => RowMove(m, [man[m] EXCEPT !.status = "revoked", !.key = FALSE], NoWork)
<1>1. man[m] \in Mandate /\ work[m] \in ActivationWork
  BY DEF TypeOK
<1>2. Agree(man[m], work[m], mined[m])
  BY AgreeEverywhere
<1>3. NoWork.status = "none" /\ NoWork.lease = None
  BY DEF NoWork
<1>4. RowMove(m, man[m], work[m])
  BY <1>2 DEF RowMove, Open
<1>5. /\ CleanedMandate(m).status = IF work[m].status \in Fenced
                                    THEN "activation_uncertain" ELSE man[m].status
      /\ CleanedMandate(m).key = FALSE /\ CleanedMandate(m).hash = man[m].hash
  BY <1>1 DEF CleanedMandate, Mandate
<1>6. \A s : Ended(work[m], s).status = s /\ Ended(work[m], s).lease = None
  BY <1>1 DEF Ended, ActivationWork
<1>7. RowMove(m, CleanedMandate(m), CleanedWork(m))
  <2>1. CASE work[m].status \in {"pending", "running"}
    <3>1. CleanedWork(m) = NoWork /\ CleanedMandate(m).status = "pending_activation"
      BY <2>1, <1>2, <1>5 DEF CleanedWork, Agree, Leased, Fenced
    <3> QED  BY <3>1, <1>2, <1>3, <2>1
             DEF RowMove, Agree, Leased, Fenced, Open, Settled
  <2>2. CASE work[m].status \in Fenced
    <3>1. /\ CleanedWork(m).status = "uncertain" /\ CleanedWork(m).lease = None
          /\ CleanedMandate(m).status = "activation_uncertain"
          /\ man[m].status = "pending_activation"
      BY <2>2, <1>2, <1>5, <1>6 DEF CleanedWork, Agree, Leased, Fenced
    <3> QED  BY <3>1 DEF RowMove, Agree, Leased, Fenced, Open, Settled
  <2>3. CASE work[m].status \notin {"pending", "running"} \cup Fenced
    <3>1. CleanedWork(m) = work[m] /\ CleanedMandate(m).status = man[m].status
      BY <2>3, <1>5 DEF CleanedWork
    <3> QED  BY <3>1, <1>2, <1>5, <2>3 DEF RowMove, Agree, Open
  <2> QED  BY <2>1, <2>2, <2>3
<1>8. CASE work[m].status \in Leased /\ work[m].late
  <2>1. man[m].status = "pending_activation"
    BY <1>2, <1>8 DEF Agree
  <2>2. CASE work[m].status = "running"
    <3>1. Reconciled(m).status = "pending" /\ Reconciled(m).lease = None
      BY <1>6, <1>8, <2>2 DEF Reconciled
    <3>2. RowMove(m, man[m], Reconciled(m))
      BY <2>1, <2>2, <3>1 DEF RowMove, Agree, Open, Settled, Leased, Fenced
    <3>3. Known(m) => RowMove(m, [man[m] EXCEPT !.status = "revoked", !.key = FALSE], NoWork)
      BY <1>1, <1>3 DEF RowMove, Agree, Mandate, Leased, Fenced
    <3> QED  BY <1>4, <1>7, <3>1, <3>2, <3>3
  <2>3. CASE work[m].status # "running"
    <3>1. Reconciled(m).status = "uncertain" /\ Reconciled(m).lease = None
      BY <1>6, <1>8, <2>3 DEF Reconciled
    <3>2. RowMove(m, [man[m] EXCEPT !.status = "activation_uncertain"], Reconciled(m))
      BY <1>1, <2>1, <3>1
      DEF RowMove, Agree, Mandate, Open, Settled, Leased, Fenced
    <3>3. Known(m) => RowMove(m, [man[m] EXCEPT !.status = "revoked", !.key = FALSE], NoWork)
      BY <1>1, <1>3 DEF RowMove, Agree, Mandate, Leased, Fenced
    <3> QED  BY <1>4, <1>7, <3>1, <3>2, <3>3
  <2> QED  BY <2>2, <2>3
<1>9. CASE ~(work[m].status \in Leased /\ work[m].late)
  <2>1. Reconciled(m) = work[m]
    BY <1>9 DEF Reconciled
  <2>2. work[m].status = "uncertain" =>
          RowMove(m, [man[m] EXCEPT !.status = "activation_uncertain"], work[m])
    <3>1. SUFFICES ASSUME work[m].status = "uncertain"
                   PROVE  RowMove(m, [man[m] EXCEPT !.status = "activation_uncertain"], work[m])
      OBVIOUS
    <3>2. man[m].status = "activation_uncertain"
      BY <1>2, <3>1 DEF Agree
    <3>3. [man[m] EXCEPT !.status = "activation_uncertain"] = man[m]
      BY <1>1, <3>2 DEF Mandate
    <3> QED  BY <1>4, <3>3
  <2>3. Known(m) => RowMove(m, [man[m] EXCEPT !.status = "revoked", !.key = FALSE], NoWork)
    BY <1>1, <1>3 DEF RowMove, Agree, Mandate, Leased, Fenced
  <2> QED  BY <1>4, <1>7, <2>1, <2>2, <2>3
<1> QED  BY <1>8, <1>9

\* A write of one row pair is a move of every row when it is one of that pair.
LEMMA PutMoves ==
  ASSUME TypeOK, TablesAgree, NEW m \in Mandates, NEW r, NEW w,
         Put(m, r, w), RowMove(m, r, w)
  PROVE  RowsMove
<1>1. \A n \in Mandates : RowMove(n, man[n], work[n])
  BY CleanedMoves
<1>2. \A n \in Mandates : /\ man'[n] = IF n = m THEN r ELSE man[n]
                          /\ work'[n] = IF n = m THEN w ELSE work[n]
  BY DEF TypeOK, Put
<1> QED  BY <1>1, <1>2 DEF RowsMove

\* A refused call and a revocation move the rows.
LEMMA RefuseMoves ==
  ASSUME TypeOK, TablesAgree, NEW m \in Mandates, Refuse(m) \/ revoke(m)
  PROVE  RowsMove
<1>1. CASE Refuse(m)
  BY <1>1, PutMoves, CleanedMoves DEF Refuse
<1>2. CASE revoke(m)
  BY <1>2, PutMoves, CleanedMoves DEF revoke
<1> QED  BY <1>1, <1>2

\* So do the two sweeps.
LEMMA SweepMoves ==
  ASSUME TypeOK, TablesAgree, reconcileExpired \/ \E p \in Procs : RetryEnds(p)
  PROVE  RowsMove
<1> SUFFICES ASSUME NEW n \in Mandates PROVE RowMove(n, man'[n], work'[n])
  BY DEF RowsMove
<1>1. CASE reconcileExpired
  <2>1. CASE Expired(n)
    BY <1>1, <2>1, CleanedMoves DEF reconcileExpired, Swept
  <2>2. CASE ~Expired(n)
    BY <1>1, <2>2, CleanedMoves DEF reconcileExpired, Swept
  <2> QED  BY <2>1, <2>2
<1>2. CASE \E p \in Procs : RetryEnds(p)
  BY <1>2, CleanedMoves DEF RetryEnds
<1> QED  BY <1>1, <1>2

\* Rows that stay as they are.
LEMMA SameMoves ==
  ASSUME TypeOK, TablesAgree, UNCHANGED rows
  PROVE  RowsMove
  BY CleanedMoves DEF rows, RowsMove

\* Every step moves the rows, and only FinishActive needs to know that a run
\* past its receipt holds an included hash.
LEMMA StepMoves ==
  ASSUME TypeOK, TablesAgree, ReceiptInv, Next
  PROVE  RowsMove
<1>a. \A n \in Mandates : /\ man[n] \in Mandate /\ work[n] \in ActivationWork
                          /\ Agree(man[n], work[n], mined[n])
  BY AgreeEverywhere DEF TypeOK
<1>b. NoWork.status = "none" /\ NoWork.lease = None
  BY DEF NoWork
<1>Register. ASSUME NEW p \in Procs, NEW m \in Mandates, Register(p, m)
  PROVE  RowsMove
  <2> DEFINE r == [NoMandate EXCEPT !.status = "pending_activation", !.key = TRUE]
  <2> DEFINE w == [NoWork EXCEPT !.status = "pending"]
  <2>1. r.status = "pending_activation" /\ w.status = "pending" /\ w.lease = None
    BY <1>a, <1>b, <1>Register
    DEF Register, Mandate, ActivationWork, NoMandate, NoWork, Known
  <2>2. Put(m, r, w)
    BY <1>a, <1>Register DEF Register, Put, TypeOK
  <2>3. RowMove(m, r, w)
    <3> HIDE DEF r, w
    <3> QED  BY <2>1, <1>a, <1>b, <1>Register
             DEF Register, RowMove, Agree, Open, Settled, Leased, Fenced, Known
  <2> HIDE DEF r, w
  <2> QED  BY <2>2, <2>3, PutMoves
<1>RegisterAgain. ASSUME NEW p \in Procs, NEW m \in Mandates, RegisterAgain(p, m)
  PROVE  RowsMove
  BY <1>RegisterAgain, RefuseMoves DEF RegisterAgain
<1>Claim. ASSUME NEW p \in Procs, NEW m \in Mandates, Claim(p, m)
  PROVE  RowsMove
  <2> DEFINE r == man[m]
  <2> DEFINE w == [work[m] EXCEPT !.status = "running", !.lease = p]
  <2>1. /\ r.status = "pending_activation" /\ r.key = man[m].key
        /\ w.status = "running" /\ w.lease # None
    BY <1>a, <1>b, <1>Claim, ActivationAssumption
    DEF Claim, Mandate, ActivationWork, Claimable
  <2>2. Put(m, r, w)
    BY <1>a, <1>Claim DEF Claim, Put, TypeOK
  <2>3. RowMove(m, r, w)
    <3> HIDE DEF r, w
    <3> QED  BY <2>1, <1>a, <1>b, <1>Claim
             DEF Claim, RowMove, Agree, Open, Settled, Leased, Fenced, Claimable
  <2> HIDE DEF r, w
  <2> QED  BY <2>2, <2>3, PutMoves
<1>ClaimRefused. ASSUME NEW p \in Procs, NEW m \in Mandates, ClaimRefused(p, m)
  PROVE  RowsMove
  BY <1>ClaimRefused, RefuseMoves DEF ClaimRefused
<1>Load. ASSUME NEW p \in Procs, NEW m \in Mandates, Load(p, m)
  PROVE  RowsMove
  BY <1>Load, SameMoves DEF Load, rows
<1>BindingRefused. ASSUME NEW p \in Procs, NEW m \in Mandates, BindingRefused(p, m)
  PROVE  RowsMove
  BY <1>BindingRefused, RefuseMoves DEF BindingRefused
<1>Fence. ASSUME NEW p \in Procs, NEW m \in Mandates, Fence(p, m)
  PROVE  RowsMove
  <2> DEFINE r == man[m]
  <2> DEFINE w == [work[m] EXCEPT !.status = "submitting"]
  <2>1. /\ r.status = "pending_activation"
        /\ w.status = "submitting" /\ w.lease # None
    BY <1>a, <1>b, <1>Fence
    DEF Fence, Mandate, ActivationWork, Agree, Leased, Fenced
  <2>2. Put(m, r, w)
    BY <1>a, <1>Fence DEF Fence, Put, TypeOK
  <2>3. RowMove(m, r, w)
    <3> HIDE DEF r, w
    <3> QED  BY <2>1, <1>a, <1>b, <1>Fence
             DEF Fence, RowMove, Agree, Open, Settled, Leased, Fenced
  <2> HIDE DEF r, w
  <2> QED  BY <2>2, <2>3, PutMoves
<1>Send. ASSUME NEW p \in Procs, NEW m \in Mandates, Send(p, m)
  PROVE  RowsMove
  BY <1>Send, SameMoves DEF Send, rows
<1>SendFails. ASSUME NEW p \in Procs, NEW m \in Mandates, SendFails(p, m)
  PROVE  RowsMove
  BY <1>SendFails, SameMoves DEF SendFails, rows
<1>Submitted. ASSUME NEW p \in Procs, NEW m \in Mandates, Submitted(p, m)
  PROVE  RowsMove
  <2> DEFINE r == man[m]
  <2> DEFINE w == [work[m] EXCEPT !.status = "submitted", !.hash = run[p][m].hash]
  <2>1. /\ r.status = "pending_activation"
        /\ w.status = "submitted" /\ w.lease # None
    BY <1>a, <1>b, <1>Submitted
    DEF Submitted, Mandate, ActivationWork, Agree, Leased, Fenced
  <2>2. Put(m, r, w)
    BY <1>a, <1>Submitted DEF Submitted, Put, TypeOK
  <2>3. RowMove(m, r, w)
    <3> HIDE DEF r, w
    <3> QED  BY <2>1, <1>a, <1>b, <1>Submitted
             DEF Submitted, RowMove, Agree, Open, Settled, Leased, Fenced
  <2> HIDE DEF r, w
  <2> QED  BY <2>2, <2>3, PutMoves
<1>Receipt. ASSUME NEW p \in Procs, NEW m \in Mandates, Receipt(p, m)
  PROVE  RowsMove
  BY <1>Receipt, SameMoves DEF Receipt, rows
<1>ReceiptMissing. ASSUME NEW p \in Procs, NEW m \in Mandates, ReceiptMissing(p, m)
  PROVE  RowsMove
  BY <1>ReceiptMissing, SameMoves DEF ReceiptMissing, rows
<1>Check. ASSUME NEW p \in Procs, NEW m \in Mandates, Check(p, m)
  PROVE  RowsMove
  BY <1>Check, SameMoves DEF Check, rows
<1>Evaluate. ASSUME NEW p \in Procs, NEW m \in Mandates, Evaluate(p, m)
  PROVE  RowsMove
  BY <1>Evaluate, SameMoves DEF Evaluate, rows
<1>FinishActive. ASSUME NEW p \in Procs, NEW m \in Mandates, FinishActive(p, m)
  PROVE  RowsMove
  <2> DEFINE r == [man[m] EXCEPT !.status = "active", !.hash = run[p][m].hash]
  <2> DEFINE w == Ended(work[m], "done")
  <2>1. /\ r.status = "active" /\ r.hash = run[p][m].hash
        /\ w.status = "done" /\ w.lease = None
    BY <1>a, <1>b, <1>FinishActive
    DEF FinishActive, Mandate, ActivationWork, Ended
  <2>2. Put(m, r, w)
    BY <1>a, <1>FinishActive DEF FinishActive, Put, TypeOK
  <2>3. RowMove(m, r, w)
    <3> HIDE DEF r, w
    <3> QED  BY <2>1, <1>a, <1>b, <1>FinishActive
            
            DEF FinishActive, RowMove, Agree, Open, Settled, Leased, Fenced,
                Finishable, ReceiptInv, Verdicts
  <2> HIDE DEF r, w
  <2> QED  BY <2>2, <2>3, PutMoves
<1>FinishRevoked. ASSUME NEW p \in Procs, NEW m \in Mandates, FinishRevoked(p, m)
  PROVE  RowsMove
  <2> DEFINE r == [status |-> "revoked", key |-> FALSE, hash |-> run[p][m].hash]
  <2> DEFINE w == NoWork
  <2>1. r.status = "revoked" /\ ~r.key /\ w = NoWork
    BY <1>a, <1>b, <1>FinishRevoked DEF FinishRevoked, Mandate, ActivationWork
  <2>2. Put(m, r, w)
    BY <1>a, <1>FinishRevoked DEF FinishRevoked, Put, TypeOK
  <2>3. RowMove(m, r, w)
    <3> HIDE DEF r, w
    <3> QED  BY <2>1, <1>a, <1>b, <1>FinishRevoked
             DEF FinishRevoked, RowMove, Agree, Open, Settled, Leased, Fenced
  <2> HIDE DEF r, w
  <2> QED  BY <2>2, <2>3, PutMoves
<1>FinishUncertain. ASSUME NEW p \in Procs, NEW m \in Mandates, FinishUncertain(p, m)
  PROVE  RowsMove
  <2> DEFINE r == [man[m] EXCEPT !.status = "activation_uncertain"]
  <2> DEFINE w == [Ended(work[m], "uncertain") EXCEPT
                    !.hash = IF run[p][m].hash # 0 THEN run[p][m].hash ELSE @]
  <2>1. /\ r.status = "activation_uncertain"
        /\ w.status = "uncertain" /\ w.lease = None
    BY <1>a, <1>b, <1>FinishUncertain
    DEF FinishUncertain, Mandate, ActivationWork, Ended
  <2>2. Put(m, r, w)
    BY <1>a, <1>FinishUncertain DEF FinishUncertain, Put, TypeOK
  <2>3. RowMove(m, r, w)
    <3> HIDE DEF r, w
    <3> QED  BY <2>1, <1>a, <1>b, <1>FinishUncertain
             DEF FinishUncertain, RowMove, Agree, Open, Settled, Leased, Fenced
  <2> HIDE DEF r, w
  <2> QED  BY <2>2, <2>3, PutMoves
<1>RunThrows. ASSUME NEW p \in Procs, NEW m \in Mandates, RunThrows(p, m)
  PROVE  RowsMove
  BY <1>RunThrows, RefuseMoves DEF RunThrows
<1>RevokeRequest. ASSUME NEW m \in Mandates, RevokeRequest(m)
  PROVE  RowsMove
  BY <1>RevokeRequest, RefuseMoves DEF RevokeRequest
<1>ReadExpired. ASSUME NEW m \in Mandates, ReadExpired(m)
  PROVE  RowsMove
  BY <1>ReadExpired, RefuseMoves DEF ReadExpired
<1>LeaseExpires. ASSUME NEW m \in Mandates, LeaseExpires(m)
  PROVE  RowsMove
  <2> DEFINE r == man[m]
  <2> DEFINE w == [work[m] EXCEPT !.late = TRUE]
  <2>1. /\ r = man[m] /\ w.status = work[m].status /\ w.lease = work[m].lease
        /\ work[m].status \in Leased
    BY <1>a, <1>b, <1>LeaseExpires
    DEF LeaseExpires, Mandate, ActivationWork, Agree, Leased, Fenced
  <2>2. Put(m, r, w)
    BY <1>a, <1>LeaseExpires DEF LeaseExpires, Put, TypeOK
  <2>3. RowMove(m, r, w)
    <3> HIDE DEF r, w
    <3> QED  BY <2>1, <1>a, <1>b, <1>LeaseExpires
             DEF LeaseExpires, RowMove, Agree, Open, Settled, Leased, Fenced
  <2> HIDE DEF r, w
  <2> QED  BY <2>2, <2>3, PutMoves
<1>MandateExpires. ASSUME NEW m \in Mandates, MandateExpires(m)
  PROVE  RowsMove
  BY <1>MandateExpires, SameMoves DEF MandateExpires, rows
<1>OpMined. ASSUME NEW m \in Mandates, OpMined(m)
  PROVE  RowsMove
  BY <1>OpMined, SameMoves DEF OpMined, rows
<1>BootResume. ASSUME NEW p \in Procs, BootResume(p)
  PROVE  RowsMove
  BY <1>BootResume, SweepMoves DEF BootResume, resumeMandateActivations
<1>BootUp. ASSUME NEW p \in Procs, BootUp(p)
  PROVE  RowsMove
  BY <1>BootUp, SameMoves DEF BootUp, rows
<1>Restart. ASSUME NEW p \in Procs, Restart(p)
  PROVE  RowsMove
  BY <1>Restart, SameMoves DEF Restart, rows
<1>RetryFires. ASSUME NEW p \in Procs, RetryFires(p)
  PROVE  RowsMove
  BY <1>RetryFires, SameMoves DEF RetryFires, rows
<1>RetryResume. ASSUME NEW p \in Procs, RetryResume(p)
  PROVE  RowsMove
  BY <1>RetryResume, SweepMoves DEF RetryResume, resumeMandateActivations
<1>RetryFails. ASSUME NEW p \in Procs, RetryFails(p)
  PROVE  RowsMove
  BY <1>RetryFails, SameMoves DEF RetryFails, rows
<1>RetryEnds. ASSUME NEW p \in Procs, RetryEnds(p)
  PROVE  RowsMove
  BY <1>RetryEnds, SweepMoves
<1>Crash. ASSUME NEW p \in Procs, Crash(p)
  PROVE  RowsMove
  BY <1>Crash, SameMoves DEF Crash, rows
<1> QED
  BY NextCases, <1>Register, <1>RegisterAgain, <1>Claim, <1>ClaimRefused,
     <1>Load, <1>BindingRefused, <1>Fence, <1>Send, <1>SendFails,
     <1>Submitted, <1>Receipt, <1>ReceiptMissing, <1>Check,
     <1>Evaluate, <1>FinishActive, <1>FinishRevoked,
     <1>FinishUncertain, <1>RunThrows, <1>RevokeRequest,
     <1>ReadExpired, <1>LeaseExpires, <1>MandateExpires, <1>OpMined,
     <1>BootResume, <1>BootUp, <1>Restart, <1>RetryFires,
     <1>RetryResume, <1>RetryFails, <1>RetryEnds, <1>Crash
  DEF Dispatch, Step, Resume

-----------------------------------------------------------------------------
\* The runs.

Seen == {"check", "evaluate"} \cup Verdicts

\* A step keeps what is known of runs, and included operations stay included.
RunsMove ==
  /\ \A n \in Mandates : mined[n] \subseteq mined'[n]
  /\ \A q \in Procs, n \in Mandates :
       /\ run'[q][n].pc \in Seen => run'[q][n].hash \in mined[n]
       /\ run'[q][n].pc # "idle" => n \in queue'[q]

\* Replacing the record of one run keeps what is known of all.
LEMMA BecomesMove ==
  ASSUME TypeOK, ReceiptInv, RunQueued, NEW p \in Procs, NEW m \in Mandates, NEW j,
         RunBecomes(p, m, j), UNCHANGED mined,
         j.pc \in Seen => j.hash \in mined[m],
         j.pc # "idle" => m \in queue'[p],
         \A q \in Procs, n \in Mandates :
           n \in queue[q] /\ (q # p \/ n # m) => n \in queue'[q]
  PROVE  RunsMove
  BY DEF ReceiptInv, RunQueued, RunBecomes, RunsMove, Seen

\* So does a run's next step ...
LEMMA GotoMove ==
  ASSUME TypeOK, ReceiptInv, RunQueued, NEW p \in Procs, NEW m \in Mandates,
         NEW s \in Steps, Goto(p, m, s), UNCHANGED <<mined, queue>>,
         m \in queue[p], s \in Seen => run[p][m].hash \in mined[m]
  PROVE  RunsMove
<1> DEFINE j == [pc |-> s, hash |-> run[p][m].hash]
<1>1. RunBecomes(p, m, j)
  BY GotoRun
<1>2. j.pc = s /\ j.hash = run[p][m].hash
  OBVIOUS
<1> HIDE DEF j
<1> QED  BY <1>1, <1>2, BecomesMove

\* ... and its end.
LEMMA LeaveMove ==
  ASSUME TypeOK, ReceiptInv, RunQueued, NEW p \in Procs, NEW m \in Mandates,
         Leave(p, m), UNCHANGED mined
  PROVE  RunsMove
<1>1. RunBecomes(p, m, Idle)
  BY LeaveRun
<1>2. Idle.pc = "idle"
  BY DEF Idle
<1>3. \A q \in Procs, n \in Mandates :
        n \in queue[q] /\ (q # p \/ n # m) => n \in queue'[q]
  BY DEF Leave, TypeOK
<1> QED  BY <1>1, <1>2, <1>3, BecomesMove DEF Seen, Verdicts

\* Steps that touch no run.
LEMMA SameRuns ==
  ASSUME TypeOK, ReceiptInv, RunQueued, UNCHANGED run,
         \A n \in Mandates : mined[n] \subseteq mined'[n],
         \A q \in Procs : queue[q] \subseteq queue'[q]
  PROVE  RunsMove
  BY DEF ReceiptInv, RunQueued, RunsMove, Seen, TypeOK

\* A queue that is added to keeps its items.
LEMMA QueueGrows ==
  ASSUME TypeOK, NEW p \in Procs,
         (\E m \in Mandates : Schedule(p, m)) \/ resumeMandateActivations(p)
  PROVE  \A q \in Procs : queue[q] \subseteq queue'[q]
<1>1. CASE \E m \in Mandates : Schedule(p, m)
  BY <1>1 DEF Schedule, TypeOK
<1>2. CASE resumeMandateActivations(p)
  BY <1>2 DEF resumeMandateActivations, TypeOK
<1> QED  BY <1>1, <1>2

\* Every step keeps what is known of runs.
LEMMA StepRuns ==
  ASSUME TypeOK, ReceiptInv, RunQueued, Next
  PROVE  RunsMove
<1>a. /\ "load" \in Steps /\ "fence" \in Steps /\ "send" \in Steps /\ "sent" \in Steps
      /\ "receipt" \in Steps /\ "check" \in Steps /\ "evaluate" \in Steps
      /\ "uncertain" \in Steps /\ Verdicts \subseteq Steps
      /\ {"load", "fence", "send", "sent", "receipt", "uncertain"} \cap Seen = {}
  BY DEF Steps, Verdicts, Seen
<1>b. \A p \in Procs, m \in Mandates : run[p][m].pc # "idle" => m \in queue[p]
  BY DEF RunQueued
<1>c. \A p \in Procs, m \in Mandates : run[p][m].pc \in Seen => run[p][m].hash \in mined[m]
  BY DEF ReceiptInv, Seen
<1>Register. ASSUME NEW p \in Procs, NEW m \in Mandates, Register(p, m)
  PROVE  RunsMove
  BY <1>Register, SameRuns, QueueGrows DEF Register, chain
<1>RegisterAgain. ASSUME NEW p \in Procs, NEW m \in Mandates, RegisterAgain(p, m)
  PROVE  RunsMove
  BY <1>RegisterAgain, SameRuns, QueueGrows DEF RegisterAgain, chain
<1>Claim. ASSUME NEW p \in Procs, NEW m \in Mandates, Claim(p, m)
  PROVE  RunsMove
  BY <1>Claim, <1>a, GotoMove DEF Claim, Dispatched, chain, procVars
<1>ClaimRefused. ASSUME NEW p \in Procs, NEW m \in Mandates, ClaimRefused(p, m)
  PROVE  RunsMove
  BY <1>ClaimRefused, LeaveMove DEF ClaimRefused, chain
<1>Load. ASSUME NEW p \in Procs, NEW m \in Mandates, Load(p, m)
  PROVE  RunsMove
  BY <1>Load, <1>a, <1>b, <1>c, GotoMove DEF Load, chain, procVars, Seen
<1>BindingRefused. ASSUME NEW p \in Procs, NEW m \in Mandates, BindingRefused(p, m)
  PROVE  RunsMove
  BY <1>BindingRefused, LeaveMove DEF BindingRefused, chain
<1>Fence. ASSUME NEW p \in Procs, NEW m \in Mandates, Fence(p, m)
  PROVE  RunsMove
  BY <1>Fence, <1>a, <1>b, <1>c, GotoMove DEF Fence, chain, procVars, Seen
<1>Send. ASSUME NEW p \in Procs, NEW m \in Mandates, Send(p, m)
  PROVE  RunsMove
  <2> DEFINE j == [pc |-> "sent", hash |-> ops'[m]]
  <2>1. j \in Job /\ j.pc = "sent"
    BY <1>Send, <1>a DEF Send, TypeOK, Job
  <2>2. run' = [run EXCEPT ![p][m] = j] \/ Goto(p, m, "uncertain")
    BY <1>Send DEF Send
  <2>3. m \in queue[p] /\ UNCHANGED <<queue, mined>>
    BY <1>Send, <1>b DEF Send, procVars
  <2> HIDE DEF j
  <2>4. CASE run' = [run EXCEPT ![p][m] = j]
    BY <2>1, <2>3, <2>4, <1>a, SetRun, BecomesMove
  <2>5. CASE Goto(p, m, "uncertain")
    BY <2>3, <2>5, <1>a, GotoMove
  <2> QED  BY <2>2, <2>4, <2>5
<1>SendFails. ASSUME NEW p \in Procs, NEW m \in Mandates, SendFails(p, m)
  PROVE  RunsMove
  BY <1>SendFails, <1>a, <1>b, <1>c, GotoMove DEF SendFails, chain, procVars, Seen
<1>Submitted. ASSUME NEW p \in Procs, NEW m \in Mandates, Submitted(p, m)
  PROVE  RunsMove
  BY <1>Submitted, <1>a, <1>b, <1>c, GotoMove DEF Submitted, chain, procVars, Seen
<1>Receipt. ASSUME NEW p \in Procs, NEW m \in Mandates, Receipt(p, m)
  PROVE  RunsMove
  BY <1>Receipt, <1>a, <1>b, <1>c, GotoMove DEF Receipt, chain, procVars, Seen
<1>ReceiptMissing. ASSUME NEW p \in Procs, NEW m \in Mandates, ReceiptMissing(p, m)
  PROVE  RunsMove
  BY <1>ReceiptMissing, <1>a, <1>b, <1>c, GotoMove
  DEF ReceiptMissing, chain, procVars, Seen
<1>Check. ASSUME NEW p \in Procs, NEW m \in Mandates, Check(p, m)
  PROVE  RunsMove
  BY <1>Check, <1>a, <1>b, <1>c, GotoMove DEF Check, chain, procVars, Seen
<1>Evaluate. ASSUME NEW p \in Procs, NEW m \in Mandates, Evaluate(p, m)
  PROVE  RunsMove
  BY <1>Evaluate, <1>a, <1>b, <1>c, GotoMove DEF Evaluate, chain, procVars, Seen
<1>FinishActive. ASSUME NEW p \in Procs, NEW m \in Mandates, FinishActive(p, m)
  PROVE  RunsMove
  BY <1>FinishActive, LeaveMove DEF FinishActive, chain
<1>FinishRevoked. ASSUME NEW p \in Procs, NEW m \in Mandates, FinishRevoked(p, m)
  PROVE  RunsMove
  BY <1>FinishRevoked, LeaveMove DEF FinishRevoked, chain
<1>FinishUncertain. ASSUME NEW p \in Procs, NEW m \in Mandates, FinishUncertain(p, m)
  PROVE  RunsMove
  BY <1>FinishUncertain, LeaveMove DEF FinishUncertain, chain
<1>RunThrows. ASSUME NEW p \in Procs, NEW m \in Mandates, RunThrows(p, m)
  PROVE  RunsMove
  <2>1. UNCHANGED mined /\ run[p][m].pc # "idle"
    BY <1>RunThrows DEF RunThrows, chain, Verdicts
  <2>2. CASE Leave(p, m)
    BY <2>1, <2>2, LeaveMove
  <2>3. CASE Goto(p, m, "uncertain") /\ UNCHANGED queue
    BY <2>1, <2>3, <1>a, <1>b, GotoMove
  <2> QED  BY <2>2, <2>3, <1>RunThrows DEF RunThrows, Throw
<1>RevokeRequest. ASSUME NEW m \in Mandates, RevokeRequest(m)
  PROVE  RunsMove
  BY <1>RevokeRequest, SameRuns DEF RevokeRequest, chain, procVars
<1>ReadExpired. ASSUME NEW m \in Mandates, ReadExpired(m)
  PROVE  RunsMove
  BY <1>ReadExpired, SameRuns DEF ReadExpired, chain, procVars
<1>LeaseExpires. ASSUME NEW m \in Mandates, LeaseExpires(m)
  PROVE  RunsMove
  BY <1>LeaseExpires, SameRuns DEF LeaseExpires, chain, procVars
<1>MandateExpires. ASSUME NEW m \in Mandates, MandateExpires(m)
  PROVE  RunsMove
  BY <1>MandateExpires, SameRuns DEF MandateExpires, chain, procVars
<1>OpMined. ASSUME NEW m \in Mandates, OpMined(m)
  PROVE  RunsMove
  BY <1>OpMined, SameRuns DEF OpMined, procVars, TypeOK
<1>BootResume. ASSUME NEW p \in Procs, BootResume(p)
  PROVE  RunsMove
  BY <1>BootResume, SameRuns, QueueGrows DEF BootResume, chain
<1>BootUp. ASSUME NEW p \in Procs, BootUp(p)
  PROVE  RunsMove
  BY <1>BootUp, SameRuns DEF BootUp, chain, procVars
<1>Restart. ASSUME NEW p \in Procs, Restart(p)
  PROVE  RunsMove
  BY <1>Restart, SameRuns DEF Restart, chain, procVars
<1>RetryFires. ASSUME NEW p \in Procs, RetryFires(p)
  PROVE  RunsMove
  BY <1>RetryFires, SameRuns DEF RetryFires, chain, procVars
<1>RetryResume. ASSUME NEW p \in Procs, RetryResume(p)
  PROVE  RunsMove
  BY <1>RetryResume, SameRuns, QueueGrows DEF RetryResume, chain
<1>RetryFails. ASSUME NEW p \in Procs, RetryFails(p)
  PROVE  RunsMove
  BY <1>RetryFails, SameRuns DEF RetryFails, chain, procVars
<1>RetryEnds. ASSUME NEW p \in Procs, RetryEnds(p)
  PROVE  RunsMove
  BY <1>RetryEnds, SameRuns DEF RetryEnds, chain, procVars
<1>Crash. ASSUME NEW p \in Procs, Crash(p)
  PROVE  RunsMove
  <2>1. \A q \in Procs, n \in Mandates :
          /\ run'[q][n] = IF q = p THEN Idle ELSE run[q][n]
          /\ q # p => queue'[q] = queue[q]
    BY <1>Crash DEF Crash, TypeOK
  <2>2. Idle.pc = "idle" /\ "idle" \notin Seen /\ UNCHANGED mined
    BY <1>Crash DEF Crash, Idle, Seen, Verdicts, chain
  <2> QED  BY <2>1, <2>2, <1>b, <1>c DEF RunsMove
<1> QED
  BY NextCases, <1>Register, <1>RegisterAgain, <1>Claim, <1>ClaimRefused,
     <1>Load, <1>BindingRefused, <1>Fence, <1>Send, <1>SendFails,
     <1>Submitted, <1>Receipt, <1>ReceiptMissing, <1>Check,
     <1>Evaluate, <1>FinishActive, <1>FinishRevoked,
     <1>FinishUncertain, <1>RunThrows, <1>RevokeRequest,
     <1>ReadExpired, <1>LeaseExpires, <1>MandateExpires, <1>OpMined,
     <1>BootResume, <1>BootUp, <1>Restart, <1>RetryFires,
     <1>RetryResume, <1>RetryFails, <1>RetryEnds, <1>Crash
  DEF Dispatch, Step, Resume

-----------------------------------------------------------------------------
\* The right to send.

NoSend ==
  /\ \A n \in Mandates : ops'[n] = ops[n]
  /\ \A q \in Procs, n \in Mandates : run'[q][n].pc = "send" => run[q][n].pc = "send"

\* A run's step, other than to the send, sends nothing.
LEMMA RunNoSend ==
  ASSUME TypeOK, NEW p \in Procs, NEW m \in Mandates, UNCHANGED ops,
         \/ \E s \in Steps \ {"send"} : Goto(p, m, s)
         \/ Leave(p, m) \/ Throw(p, m)
  PROVE  NoSend
<1>1. ASSUME NEW s \in Steps \ {"send"}, Goto(p, m, s)
      PROVE  NoSend
  <2> DEFINE j == [pc |-> s, hash |-> run[p][m].hash]
  <2>1. RunBecomes(p, m, j) /\ j.pc # "send"
    BY <1>1, GotoRun
  <2> HIDE DEF j
  <2> QED  BY <2>1 DEF RunBecomes, NoSend
<1>2. CASE Leave(p, m)
  <2>1. RunBecomes(p, m, Idle) /\ Idle.pc # "send"
    BY <1>2, LeaveRun DEF Idle
  <2> QED  BY <2>1 DEF RunBecomes, NoSend
<1>3. CASE Throw(p, m)
  <2>1. "uncertain" \in Steps \ {"send"}
    BY DEF Steps
  <2> QED  BY <1>1, <1>2, <1>3, <2>1 DEF Throw
<1> QED  BY <1>1, <1>2, <1>3

\* Only the fence leads to a send and only a send reaches the bundler.
LEMMA StepNoSend ==
  ASSUME TypeOK, Next
  PROVE  NoSend \/ \E p \in Procs, m \in Mandates : Fence(p, m) \/ Send(p, m)
<1>a. /\ {"load", "fence", "sent", "receipt", "check", "evaluate", "uncertain"}
           \subseteq Steps \ {"send"}
      /\ Verdicts \subseteq Steps \ {"send"}
  BY DEF Steps, Verdicts
<1>Register. ASSUME NEW p \in Procs, NEW m \in Mandates, Register(p, m)
  PROVE  NoSend
  BY <1>Register DEF Register, chain, NoSend
<1>RegisterAgain. ASSUME NEW p \in Procs, NEW m \in Mandates, RegisterAgain(p, m)
  PROVE  NoSend
  BY <1>RegisterAgain DEF RegisterAgain, chain, NoSend
<1>Claim. ASSUME NEW p \in Procs, NEW m \in Mandates, Claim(p, m)
  PROVE  NoSend
  BY <1>Claim, <1>a, RunNoSend DEF Claim, chain
<1>ClaimRefused. ASSUME NEW p \in Procs, NEW m \in Mandates, ClaimRefused(p, m)
  PROVE  NoSend
  BY <1>ClaimRefused, <1>a, RunNoSend DEF ClaimRefused, chain
<1>Load. ASSUME NEW p \in Procs, NEW m \in Mandates, Load(p, m)
  PROVE  NoSend
  BY <1>Load, <1>a, RunNoSend DEF Load, chain
<1>BindingRefused. ASSUME NEW p \in Procs, NEW m \in Mandates, BindingRefused(p, m)
  PROVE  NoSend
  BY <1>BindingRefused, <1>a, RunNoSend DEF BindingRefused, chain
<1>SendFails. ASSUME NEW p \in Procs, NEW m \in Mandates, SendFails(p, m)
  PROVE  NoSend
  BY <1>SendFails, <1>a, RunNoSend DEF SendFails, chain
<1>Submitted. ASSUME NEW p \in Procs, NEW m \in Mandates, Submitted(p, m)
  PROVE  NoSend
  BY <1>Submitted, <1>a, RunNoSend DEF Submitted, chain
<1>Receipt. ASSUME NEW p \in Procs, NEW m \in Mandates, Receipt(p, m)
  PROVE  NoSend
  BY <1>Receipt, <1>a, RunNoSend DEF Receipt, chain
<1>ReceiptMissing. ASSUME NEW p \in Procs, NEW m \in Mandates, ReceiptMissing(p, m)
  PROVE  NoSend
  BY <1>ReceiptMissing, <1>a, RunNoSend DEF ReceiptMissing, chain
<1>Check. ASSUME NEW p \in Procs, NEW m \in Mandates, Check(p, m)
  PROVE  NoSend
  BY <1>Check, <1>a, RunNoSend DEF Check, chain
<1>Evaluate. ASSUME NEW p \in Procs, NEW m \in Mandates, Evaluate(p, m)
  PROVE  NoSend
  BY <1>Evaluate, <1>a, RunNoSend DEF Evaluate, chain
<1>FinishActive. ASSUME NEW p \in Procs, NEW m \in Mandates, FinishActive(p, m)
  PROVE  NoSend
  BY <1>FinishActive, <1>a, RunNoSend DEF FinishActive, chain
<1>FinishRevoked. ASSUME NEW p \in Procs, NEW m \in Mandates, FinishRevoked(p, m)
  PROVE  NoSend
  BY <1>FinishRevoked, <1>a, RunNoSend DEF FinishRevoked, chain
<1>FinishUncertain. ASSUME NEW p \in Procs, NEW m \in Mandates, FinishUncertain(p, m)
  PROVE  NoSend
  BY <1>FinishUncertain, <1>a, RunNoSend DEF FinishUncertain, chain
<1>RunThrows. ASSUME NEW p \in Procs, NEW m \in Mandates, RunThrows(p, m)
  PROVE  NoSend
  BY <1>RunThrows, <1>a, RunNoSend DEF RunThrows, chain
<1>RevokeRequest. ASSUME NEW m \in Mandates, RevokeRequest(m)
  PROVE  NoSend
  BY <1>RevokeRequest DEF RevokeRequest, chain, NoSend
<1>ReadExpired. ASSUME NEW m \in Mandates, ReadExpired(m)
  PROVE  NoSend
  BY <1>ReadExpired DEF ReadExpired, chain, NoSend
<1>LeaseExpires. ASSUME NEW m \in Mandates, LeaseExpires(m)
  PROVE  NoSend
  BY <1>LeaseExpires DEF LeaseExpires, chain, NoSend
<1>MandateExpires. ASSUME NEW m \in Mandates, MandateExpires(m)
  PROVE  NoSend
  BY <1>MandateExpires DEF MandateExpires, chain, NoSend
<1>OpMined. ASSUME NEW m \in Mandates, OpMined(m)
  PROVE  NoSend
  BY <1>OpMined DEF OpMined, chain, NoSend
<1>BootResume. ASSUME NEW p \in Procs, BootResume(p)
  PROVE  NoSend
  BY <1>BootResume DEF BootResume, chain, NoSend
<1>BootUp. ASSUME NEW p \in Procs, BootUp(p)
  PROVE  NoSend
  BY <1>BootUp DEF BootUp, chain, NoSend
<1>Restart. ASSUME NEW p \in Procs, Restart(p)
  PROVE  NoSend
  BY <1>Restart DEF Restart, chain, NoSend
<1>RetryFires. ASSUME NEW p \in Procs, RetryFires(p)
  PROVE  NoSend
  BY <1>RetryFires DEF RetryFires, chain, NoSend
<1>RetryResume. ASSUME NEW p \in Procs, RetryResume(p)
  PROVE  NoSend
  BY <1>RetryResume DEF RetryResume, chain, NoSend
<1>RetryFails. ASSUME NEW p \in Procs, RetryFails(p)
  PROVE  NoSend
  BY <1>RetryFails DEF RetryFails, chain, NoSend
<1>RetryEnds. ASSUME NEW p \in Procs, RetryEnds(p)
  PROVE  NoSend
  BY <1>RetryEnds DEF RetryEnds, chain, NoSend
<1>Crash. ASSUME NEW p \in Procs, Crash(p)
  PROVE  NoSend
  <2>1. \A q \in Procs, n \in Mandates : run'[q][n] = IF q = p THEN Idle ELSE run[q][n]
    BY <1>Crash DEF Crash, TypeOK
  <2> QED  BY <2>1, <1>Crash DEF Crash, chain, NoSend, Idle
<1> QED
  BY NextCases, <1>Register, <1>RegisterAgain, <1>Claim, <1>ClaimRefused,
     <1>Load, <1>BindingRefused, <1>SendFails, <1>Submitted,
     <1>Receipt, <1>ReceiptMissing, <1>Check, <1>Evaluate,
     <1>FinishActive, <1>FinishRevoked, <1>FinishUncertain,
     <1>RunThrows, <1>RevokeRequest, <1>ReadExpired,
     <1>LeaseExpires, <1>MandateExpires, <1>OpMined, <1>BootResume,
     <1>BootUp, <1>Restart, <1>RetryFires, <1>RetryResume,
     <1>RetryFails, <1>RetryEnds, <1>Crash
  DEF Dispatch, Step, Resume

\* The send invariant is inductive.
LEMMA StepSends ==
  ASSUME TypeOK, TablesAgree, ReceiptInv, SendInv, Next
  PROVE  SendInv'
<1>1. \A n \in Mandates : Open(n)' => Open(n)
  BY StepMoves DEF RowsMove, RowMove, Open
<1>2. \A n \in Mandates : ops[n] \in Nat
  BY DEF TypeOK
<1>3. CASE NoSend
  BY <1>1, <1>3 DEF NoSend, SendInv, Unsent
<1>4. ASSUME NEW p \in Procs, NEW m \in Mandates, Fence(p, m)
      PROVE  SendInv'
  <2> DEFINE j == [pc |-> "send", hash |-> run[p][m].hash]
  <2>1. RunBecomes(p, m, j) /\ j.pc = "send"
    BY <1>4, GotoRun DEF Fence, Steps
  <2>2. Unsent(m)
    BY <1>4 DEF Fence, SendInv, Open
  <2>3. ~Open(m)'
    BY <1>4, <2>2 DEF Fence, Open, TypeOK, ActivationWork, TablesAgree, Leased
  <2>4. UNCHANGED ops
    BY <1>4 DEF Fence, chain
  <2> HIDE DEF j
  <2> QED  BY <1>1, <2>1, <2>2, <2>3, <2>4 DEF RunBecomes, SendInv, Unsent
<1>5. ASSUME NEW p \in Procs, NEW m \in Mandates, Send(p, m)
      PROVE  SendInv'
  <2>1. \E j \in Job : RunBecomes(p, m, j) /\ j.pc # "send"
    <3>1. CASE Goto(p, m, "uncertain")
      <4> DEFINE j == [pc |-> "uncertain", hash |-> run[p][m].hash]
      <4>1. RunBecomes(p, m, j) /\ j.pc # "send" /\ "uncertain" \in Steps
        BY <3>1, GotoRun DEF Steps
      <4>2. j \in Job
        BY <4>1 DEF TypeOK, Job
      <4> QED  BY <4>1, <4>2
    <3>2. CASE run' = [run EXCEPT ![p][m] = [pc |-> "sent", hash |-> ops'[m]]]
      <4> DEFINE j == [pc |-> "sent", hash |-> ops'[m]]
      <4>1. j \in Job /\ j.pc # "send"
        BY <1>5 DEF Send, TypeOK, Job, Steps
      <4> HIDE DEF j
      <4> QED  BY <3>2, <4>1, SetRun DEF j
    <3> QED  BY <1>5, <3>1, <3>2 DEF Send
  <2>2. \A n \in Mandates : ops'[n] = IF n = m THEN ops[m] + 1 ELSE ops[n]
    BY <1>5 DEF Send, TypeOK
  <2>3. ops[m] = 0 /\ ~Open(m) /\ \A q \in Procs : run[q][m].pc = "send" => q = p
    BY <1>5 DEF Send, SendInv, Unsent
  <2> QED  BY <1>1, <1>2, <2>1, <2>2, <2>3 DEF RunBecomes, SendInv, Unsent
<1> QED  BY <1>3, <1>4, <1>5, StepNoSend

-----------------------------------------------------------------------------
\* Wake-ups.

Waiting(n) == work[n].status = "pending" /\ ~expired[n]

\* Whoever would find n still will.
KeepsWaiting == \A q \in Procs, n \in Mandates : Awaits(q, n) => Awaits(q, n)'
NothingNew == \A n \in Mandates : Waiting(n)' => Waiting(n)

\* A step that makes nothing wait and drops nobody's watch keeps WakeInv.
LEMMA WakeKept ==
  ASSUME TypeOK, WakeInv, KeepsWaiting, NothingNew, dropped \subseteq dropped'
  PROVE  WakeInv'
  BY DEF WakeInv, KeepsWaiting, NothingNew, Waiting

\* No row becomes pending by a refusal, a revocation or a write that ends it.
LEMMA PutNothingNew ==
  ASSUME TypeOK, NEW m \in Mandates, NEW r, NEW w, Put(m, r, w),
         w.status # "pending" \/ w = work[m], UNCHANGED expired
  PROVE  NothingNew
  BY DEF TypeOK, Put, NothingNew, Waiting

\* The same of a refused call and of a revocation.
LEMMA RefuseNothingNew ==
  ASSUME TypeOK, NEW m \in Mandates, Refuse(m) \/ revoke(m), UNCHANGED expired
  PROVE  NothingNew
<1>1. work[m] \in ActivationWork
  BY DEF TypeOK
<1>2. CleanedWork(m).status # "pending" /\ NoWork.status # "pending"
  BY <1>1 DEF CleanedWork, NoWork, Ended, ActivationWork, Fenced
<1> QED  BY <1>2, PutNothingNew DEF Refuse, revoke

\* The run of m in p, under way, leaves the others' items alone.
LEMMA RunKeepsWaiting ==
  ASSUME TypeOK, NEW p \in Procs, NEW m \in Mandates, run[p][m].pc # "idle",
         UNCHANGED <<boot, loop, req>>,
         \/ \E s \in Steps : Goto(p, m, s) /\ UNCHANGED queue
         \/ Leave(p, m) \/ Throw(p, m)
  PROVE  KeepsWaiting
<1>1. /\ \E j : RunBecomes(p, m, j)
      /\ \A q \in Procs, n \in Mandates :
           n \in queue[q] /\ (q # p \/ n # m) => n \in queue'[q]
  <2>1. CASE Leave(p, m)
    BY <2>1, LeaveRun DEF Leave, TypeOK
  <2>2. ASSUME NEW s \in Steps, Goto(p, m, s), UNCHANGED queue
        PROVE  <1>1!1
    BY <2>2, GotoRun
  <2>3. "uncertain" \in Steps
    BY DEF Steps
  <2> QED  BY <2>1, <2>2, <2>3 DEF Throw
<1> QED  BY <1>1 DEF RunBecomes, KeepsWaiting, Awaits

\* The whole queue changes, and no run.
LEMMA QueueKeepsWaiting ==
  ASSUME TypeOK, UNCHANGED <<run, loop, boot>>,
         \A q \in Procs : queue[q] \subseteq queue'[q] /\ (req[q] => req'[q])
  PROVE  KeepsWaiting
  BY DEF KeepsWaiting, Awaits

\* scheduleMandateActivation leaves m with somebody.
LEMMA ScheduleWakes ==
  ASSUME TypeOK, RunQueued, NEW p \in Procs, NEW m \in Mandates, Schedule(p, m),
         UNCHANGED <<run, loop, boot>>
  PROVE  KeepsWaiting /\ Awaits(p, m)'
<1>1. \A q \in Procs : queue[q] \subseteq queue'[q] /\ (req[q] => req'[q])
  BY QueueGrows DEF Schedule, TypeOK
<1>2. req'[p] \/ (m \notin queue[p] /\ m \in queue'[p])
  BY DEF Schedule, TypeOK
<1> QED  BY <1>1, <1>2, QueueKeepsWaiting DEF Awaits, RunQueued

\* A scan leaves every pending mandate with somebody.
LEMMA ResumeWakes ==
  ASSUME TypeOK, TypeOK', TablesAgree', RunQueued, NEW p \in Procs,
         resumeMandateActivations(p), UNCHANGED run
  PROVE  WakeInv'
<1> SUFFICES ASSUME NEW n \in Mandates, Waiting(n)' PROVE Awaits(p, n)'
  BY DEF WakeInv, Waiting
<1>1. n \in Recoverable'
  BY DEF Waiting, Recoverable, TablesAgree
<1>2. PICK accepted \in SUBSET (Recoverable' \ queue[p]) :
        /\ queue' = [queue EXCEPT ![p] = @ \cup accepted]
        /\ req' = [req EXCEPT ![p] = @ \/ Recoverable' # accepted]
  BY DEF resumeMandateActivations
<1>3. CASE n \in accepted
  <2>1. n \in queue'[p] /\ n \notin queue[p]
    BY <1>2, <1>3 DEF TypeOK
  <2> QED  BY <2>1 DEF Awaits, RunQueued
<1>4. CASE n \notin accepted
  <2>1. Recoverable' # accepted
    BY <1>1, <1>4
  <2>2. req'[p]
    BY <1>2, <2>1 DEF TypeOK
  <2> QED  BY <2>2 DEF Awaits
<1> QED  BY <1>3, <1>4

\* No step loses a wake-up.
LEMMA StepWakes ==
  ASSUME TypeOK, TypeOK', TablesAgree, TablesAgree', RunQueued, WakeInv, Next
  PROVE  WakeInv'
<1>a. /\ {"load", "fence", "send", "sent", "receipt", "check", "evaluate", "uncertain"}
           \subseteq Steps
      /\ Verdicts \subseteq Steps
  BY DEF Steps, Verdicts
<1>b. NoWork.status # "pending"
  BY DEF NoWork
<1>c. \A m \in Mandates : work[m] \in ActivationWork
  BY DEF TypeOK
<1>Register. ASSUME NEW p \in Procs, NEW m \in Mandates, Register(p, m)
  PROVE  WakeInv'
  <2>1. KeepsWaiting /\ Awaits(p, m)'
    BY <1>Register, ScheduleWakes DEF Register
  <2>2. \A n \in Mandates \ {m} : Waiting(n)' => Waiting(n)
    BY <1>Register DEF Register, Put, Waiting, TypeOK
  <2>3. UNCHANGED dropped
    BY <1>Register DEF Register
  <2> QED  BY <2>1, <2>2, <2>3 DEF WakeInv, KeepsWaiting, Waiting
<1>RegisterAgain. ASSUME NEW p \in Procs, NEW m \in Mandates, RegisterAgain(p, m)
  PROVE  WakeInv'
  <2>1. NothingNew
    BY <1>RegisterAgain, RefuseNothingNew DEF RegisterAgain
  <2>2. KeepsWaiting
    BY <1>RegisterAgain, ScheduleWakes, QueueKeepsWaiting DEF RegisterAgain
  <2> QED  BY <1>RegisterAgain, <2>1, <2>2, WakeKept DEF RegisterAgain
<1>Claim. ASSUME NEW p \in Procs, NEW m \in Mandates, Claim(p, m)
  PROVE  WakeInv'
  <2>1. /\ \A n \in Mandates \ {m} : Waiting(n)' => Waiting(n)
        /\ ~Waiting(m)'
    BY <1>Claim, <1>c DEF Claim, Waiting, TypeOK, ActivationWork
  <2>2. RunBecomes(p, m, [pc |-> "load", hash |-> run[p][m].hash])
    BY <1>Claim, <1>a, GotoRun DEF Claim
  <2>3. \A q \in Procs, n \in Mandates \ {m} : Awaits(q, n) => Awaits(q, n)'
    BY <1>Claim, <2>2 DEF Claim, procVars, RunBecomes, Awaits
  <2>4. UNCHANGED dropped
    BY <1>Claim DEF Claim
  <2> QED  BY <2>1, <2>3, <2>4 DEF WakeInv, Waiting
<1>ClaimRefused. ASSUME NEW p \in Procs, NEW m \in Mandates, ClaimRefused(p, m)
  PROVE  WakeInv'
  <2>1. NothingNew
    BY <1>ClaimRefused, RefuseNothingNew DEF ClaimRefused
  <2>2. RunBecomes(p, m, Idle)
    BY <1>ClaimRefused, LeaveRun DEF ClaimRefused
  <2>3. \A q \in Procs, n \in Mandates \ {m} : Awaits(q, n) => Awaits(q, n)'
    BY <1>ClaimRefused, <2>2 DEF ClaimRefused, Leave, TypeOK, RunBecomes, Awaits
  <2>4. Waiting(m) => m \in dropped'
    BY <1>ClaimRefused DEF ClaimRefused, Claimable, Waiting, TablesAgree
  <2>5. dropped \subseteq dropped'
    BY <1>ClaimRefused DEF ClaimRefused
  <2> QED  BY <2>1, <2>3, <2>4, <2>5 DEF WakeInv, NothingNew, Waiting
<1>Load. ASSUME NEW p \in Procs, NEW m \in Mandates, Load(p, m)
  PROVE  WakeInv'
  <2>1. NothingNew
    BY <1>Load DEF Load, rows, NothingNew, Waiting
  <2>2. KeepsWaiting
    BY <1>Load, <1>a, RunKeepsWaiting DEF Load, procVars, Verdicts
  <2> QED  BY <1>Load, <2>1, <2>2, WakeKept DEF Load
<1>BindingRefused. ASSUME NEW p \in Procs, NEW m \in Mandates, BindingRefused(p, m)
  PROVE  WakeInv'
  <2>1. NothingNew
    BY <1>BindingRefused, RefuseNothingNew DEF BindingRefused
  <2>2. KeepsWaiting
    BY <1>BindingRefused, <1>a, RunKeepsWaiting
    DEF BindingRefused, procVars, Verdicts
  <2> QED  BY <1>BindingRefused, <2>1, <2>2, WakeKept DEF BindingRefused
<1>Fence. ASSUME NEW p \in Procs, NEW m \in Mandates, Fence(p, m)
  PROVE  WakeInv'
  <2>1. NothingNew
    BY <1>Fence, <1>c DEF Fence, NothingNew, Waiting, TypeOK, ActivationWork
  <2>2. KeepsWaiting
    BY <1>Fence, <1>a, RunKeepsWaiting DEF Fence, procVars, Verdicts
  <2> QED  BY <1>Fence, <2>1, <2>2, WakeKept DEF Fence
<1>Send. ASSUME NEW p \in Procs, NEW m \in Mandates, Send(p, m)
  PROVE  WakeInv'
  <2>1. NothingNew
    BY <1>Send DEF Send, rows, NothingNew, Waiting
  <2>2. KeepsWaiting
    <3>1. CASE Goto(p, m, "uncertain")
      BY <1>Send, <3>1, <1>a, RunKeepsWaiting DEF Send, procVars
    <3>2. CASE run' = [run EXCEPT ![p][m] = [pc |-> "sent", hash |-> ops'[m]]]
      <4> DEFINE j == [pc |-> "sent", hash |-> ops'[m]]
      <4>1. j \in Job
        BY <1>Send, <1>a DEF Send, TypeOK, Job
      <4> HIDE DEF j
      <4>2. RunBecomes(p, m, j)
        BY <3>2, <4>1, SetRun DEF j
      <4> QED  BY <1>Send, <4>2
               DEF Send, procVars, RunBecomes, KeepsWaiting, Awaits
    <3> QED  BY <1>Send, <3>1, <3>2 DEF Send
  <2> QED  BY <1>Send, <2>1, <2>2, WakeKept DEF Send
<1>SendFails. ASSUME NEW p \in Procs, NEW m \in Mandates, SendFails(p, m)
  PROVE  WakeInv'
  <2>1. NothingNew
    BY <1>SendFails DEF SendFails, rows, NothingNew, Waiting
  <2>2. KeepsWaiting
    BY <1>SendFails, <1>a, RunKeepsWaiting DEF SendFails, procVars, Verdicts
  <2> QED  BY <1>SendFails, <2>1, <2>2, WakeKept DEF SendFails
<1>Submitted. ASSUME NEW p \in Procs, NEW m \in Mandates, Submitted(p, m)
  PROVE  WakeInv'
  <2>1. NothingNew
    BY <1>Submitted, <1>c
    DEF Submitted, NothingNew, Waiting, TypeOK, ActivationWork
  <2>2. KeepsWaiting
    BY <1>Submitted, <1>a, RunKeepsWaiting DEF Submitted, procVars, Verdicts
  <2> QED  BY <1>Submitted, <2>1, <2>2, WakeKept DEF Submitted
<1>Receipt. ASSUME NEW p \in Procs, NEW m \in Mandates, Receipt(p, m)
  PROVE  WakeInv'
  <2>1. NothingNew
    BY <1>Receipt DEF Receipt, rows, NothingNew, Waiting
  <2>2. KeepsWaiting
    BY <1>Receipt, <1>a, RunKeepsWaiting DEF Receipt, procVars, Verdicts
  <2> QED  BY <1>Receipt, <2>1, <2>2, WakeKept DEF Receipt
<1>ReceiptMissing. ASSUME NEW p \in Procs, NEW m \in Mandates, ReceiptMissing(p, m)
  PROVE  WakeInv'
  <2>1. NothingNew
    BY <1>ReceiptMissing DEF ReceiptMissing, rows, NothingNew, Waiting
  <2>2. KeepsWaiting
    BY <1>ReceiptMissing, <1>a, RunKeepsWaiting
    DEF ReceiptMissing, procVars, Verdicts
  <2> QED  BY <1>ReceiptMissing, <2>1, <2>2, WakeKept DEF ReceiptMissing
<1>Check. ASSUME NEW p \in Procs, NEW m \in Mandates, Check(p, m)
  PROVE  WakeInv'
  <2>1. NothingNew
    BY <1>Check DEF Check, rows, NothingNew, Waiting
  <2>2. KeepsWaiting
    BY <1>Check, <1>a, RunKeepsWaiting DEF Check, procVars, Verdicts
  <2> QED  BY <1>Check, <2>1, <2>2, WakeKept DEF Check
<1>Evaluate. ASSUME NEW p \in Procs, NEW m \in Mandates, Evaluate(p, m)
  PROVE  WakeInv'
  <2>1. NothingNew
    BY <1>Evaluate DEF Evaluate, rows, NothingNew, Waiting
  <2>2. KeepsWaiting
    BY <1>Evaluate, <1>a, RunKeepsWaiting DEF Evaluate, procVars, Verdicts
  <2> QED  BY <1>Evaluate, <2>1, <2>2, WakeKept DEF Evaluate
<1>FinishActive. ASSUME NEW p \in Procs, NEW m \in Mandates, FinishActive(p, m)
  PROVE  WakeInv'
  <2>1. NothingNew
    <3> DEFINE w == Ended(work[m], "done")
    <3>1. w.status # "pending"
      BY <1>b, <1>c DEF Ended, ActivationWork
    <3>2. \E r : Put(m, r, w)
      BY <1>FinishActive DEF FinishActive
    <3> HIDE DEF w
    <3> QED  BY <1>FinishActive, <3>1, <3>2, PutNothingNew DEF FinishActive
  <2>2. KeepsWaiting
    BY <1>FinishActive, <1>a, RunKeepsWaiting DEF FinishActive, procVars, Verdicts
  <2> QED  BY <1>FinishActive, <2>1, <2>2, WakeKept DEF FinishActive
<1>FinishRevoked. ASSUME NEW p \in Procs, NEW m \in Mandates, FinishRevoked(p, m)
  PROVE  WakeInv'
  <2>1. NothingNew
    <3> DEFINE w == NoWork
    <3>1. w.status # "pending"
      BY <1>b, <1>c DEF Ended, ActivationWork
    <3>2. \E r : Put(m, r, w)
      BY <1>FinishRevoked DEF FinishRevoked
    <3> HIDE DEF w
    <3> QED  BY <1>FinishRevoked, <3>1, <3>2, PutNothingNew DEF FinishRevoked
  <2>2. KeepsWaiting
    BY <1>FinishRevoked, <1>a, RunKeepsWaiting
    DEF FinishRevoked, procVars, Verdicts
  <2> QED  BY <1>FinishRevoked, <2>1, <2>2, WakeKept DEF FinishRevoked
<1>FinishUncertain. ASSUME NEW p \in Procs, NEW m \in Mandates, FinishUncertain(p, m)
  PROVE  WakeInv'
  <2>1. NothingNew
    <3> DEFINE w == [Ended(work[m], "uncertain") EXCEPT
                       !.hash = IF run[p][m].hash # 0 THEN run[p][m].hash ELSE @]
    <3>1. w.status # "pending"
      BY <1>b, <1>c DEF Ended, ActivationWork
    <3>2. \E r : Put(m, r, w)
      BY <1>FinishUncertain DEF FinishUncertain
    <3> HIDE DEF w
    <3> QED  BY <1>FinishUncertain, <3>1, <3>2, PutNothingNew DEF FinishUncertain
  <2>2. KeepsWaiting
    BY <1>FinishUncertain, <1>a, RunKeepsWaiting
    DEF FinishUncertain, procVars, Verdicts
  <2> QED  BY <1>FinishUncertain, <2>1, <2>2, WakeKept DEF FinishUncertain
<1>RunThrows. ASSUME NEW p \in Procs, NEW m \in Mandates, RunThrows(p, m)
  PROVE  WakeInv'
  <2>1. NothingNew
    BY <1>RunThrows, RefuseNothingNew DEF RunThrows
  <2>2. KeepsWaiting
    BY <1>RunThrows, <1>a, RunKeepsWaiting DEF RunThrows, procVars, Verdicts
  <2> QED  BY <1>RunThrows, <2>1, <2>2, WakeKept DEF RunThrows
<1>RevokeRequest. ASSUME NEW m \in Mandates, RevokeRequest(m)
  PROVE  WakeInv'
  <2>1. NothingNew
    BY <1>RevokeRequest, RefuseNothingNew DEF RevokeRequest
  <2>2. KeepsWaiting
    BY <1>RevokeRequest DEF RevokeRequest, procVars, KeepsWaiting, Awaits
  <2> QED  BY <1>RevokeRequest, <2>1, <2>2, WakeKept DEF RevokeRequest
<1>ReadExpired. ASSUME NEW m \in Mandates, ReadExpired(m)
  PROVE  WakeInv'
  <2>1. NothingNew
    BY <1>ReadExpired, RefuseNothingNew DEF ReadExpired
  <2>2. KeepsWaiting
    BY <1>ReadExpired DEF ReadExpired, procVars, KeepsWaiting, Awaits
  <2> QED  BY <1>ReadExpired, <2>1, <2>2, WakeKept DEF ReadExpired
<1>LeaseExpires. ASSUME NEW m \in Mandates, LeaseExpires(m)
  PROVE  WakeInv'
  <2>1. NothingNew
    BY <1>LeaseExpires, <1>c
    DEF LeaseExpires, NothingNew, Waiting, TypeOK, ActivationWork
  <2>2. KeepsWaiting
    BY <1>LeaseExpires DEF LeaseExpires, procVars, KeepsWaiting, Awaits
  <2> QED  BY <1>LeaseExpires, <2>1, <2>2, WakeKept DEF LeaseExpires
<1>MandateExpires. ASSUME NEW m \in Mandates, MandateExpires(m)
  PROVE  WakeInv'
  <2>1. NothingNew
    BY <1>MandateExpires DEF MandateExpires, rows, NothingNew, Waiting, TypeOK
  <2>2. KeepsWaiting
    BY <1>MandateExpires DEF MandateExpires, procVars, KeepsWaiting, Awaits
  <2> QED  BY <1>MandateExpires, <2>1, <2>2, WakeKept DEF MandateExpires
<1>OpMined. ASSUME NEW m \in Mandates, OpMined(m)
  PROVE  WakeInv'
  <2>1. NothingNew
    BY <1>OpMined DEF OpMined, rows, NothingNew, Waiting
  <2>2. KeepsWaiting
    BY <1>OpMined DEF OpMined, procVars, KeepsWaiting, Awaits
  <2> QED  BY <1>OpMined, <2>1, <2>2, WakeKept DEF OpMined
<1>BootResume. ASSUME NEW p \in Procs, BootResume(p)
  PROVE  WakeInv'
  BY <1>BootResume, ResumeWakes DEF BootResume
<1>BootUp. ASSUME NEW p \in Procs, BootUp(p)
  PROVE  WakeInv'
  <2>1. NothingNew
    BY <1>BootUp DEF BootUp, rows, NothingNew, Waiting
  <2>2. KeepsWaiting
    BY <1>BootUp DEF BootUp, procVars, KeepsWaiting, Awaits, TypeOK
  <2> QED  BY <1>BootUp, <2>1, <2>2, WakeKept DEF BootUp
<1>Restart. ASSUME NEW p \in Procs, Restart(p)
  PROVE  WakeInv'
  <2>1. NothingNew
    BY <1>Restart DEF Restart, rows, NothingNew, Waiting
  <2>2. KeepsWaiting
    BY <1>Restart DEF Restart, procVars, KeepsWaiting, Awaits, TypeOK
  <2> QED  BY <1>Restart, <2>1, <2>2, WakeKept DEF Restart
<1>RetryFires. ASSUME NEW p \in Procs, RetryFires(p)
  PROVE  WakeInv'
  <2>1. NothingNew
    BY <1>RetryFires DEF RetryFires, rows, NothingNew, Waiting
  <2>2. KeepsWaiting
    BY <1>RetryFires DEF RetryFires, procVars, KeepsWaiting, Awaits, TypeOK
  <2> QED  BY <1>RetryFires, <2>1, <2>2, WakeKept DEF RetryFires
<1>RetryResume. ASSUME NEW p \in Procs, RetryResume(p)
  PROVE  WakeInv'
  BY <1>RetryResume, ResumeWakes DEF RetryResume
<1>RetryFails. ASSUME NEW p \in Procs, RetryFails(p)
  PROVE  WakeInv'
  <2>1. req'[p]
    BY <1>RetryFails DEF RetryFails, TypeOK
  <2> QED  BY <2>1 DEF WakeInv, Awaits
<1>RetryEnds. ASSUME NEW p \in Procs, RetryEnds(p)
  PROVE  WakeInv'
  <2> SUFFICES ASSUME NEW n \in Mandates, Waiting(n)' PROVE Awaits(p, n)'
    BY DEF WakeInv, Waiting
  <2>0. ~expired[n] /\ work'[n].status = "pending"
    BY <1>RetryEnds DEF RetryEnds, Waiting
  <2>1. work'[n] = work[n]
    BY <1>RetryEnds, <2>0 DEF RetryEnds, Expired
  <2>a. man[n].status = "pending_activation"
    BY <2>0, <2>1 DEF TablesAgree
  <2>2. n \in Recoverable
    BY <2>0, <2>1, <2>a DEF Recoverable
  <2>b. req \in [Procs -> BOOLEAN]
    BY DEF TypeOK
  <2>c. Recoverable # {}
    BY <2>2
  <2>d. req' = [req EXCEPT ![p] = Recoverable # {}]
    BY <1>RetryEnds DEF RetryEnds
  <2>3. req'[p]
    BY <2>b, <2>c, <2>d
  <2> QED  BY <2>3 DEF Awaits
<1>Crash. ASSUME NEW p \in Procs, Crash(p)
  PROVE  WakeInv'
  <2>1. boot'[p] = "down"
    BY <1>Crash DEF Crash, TypeOK
  <2> QED  BY <2>1 DEF WakeInv, Awaits
<1> QED
  BY NextCases, <1>Register, <1>RegisterAgain, <1>Claim, <1>ClaimRefused,
     <1>Load, <1>BindingRefused, <1>Fence, <1>Send, <1>SendFails,
     <1>Submitted, <1>Receipt, <1>ReceiptMissing, <1>Check,
     <1>Evaluate, <1>FinishActive, <1>FinishRevoked,
     <1>FinishUncertain, <1>RunThrows, <1>RevokeRequest,
     <1>ReadExpired, <1>LeaseExpires, <1>MandateExpires, <1>OpMined,
     <1>BootResume, <1>BootUp, <1>Restart, <1>RetryFires,
     <1>RetryResume, <1>RetryFails, <1>RetryEnds, <1>Crash
  DEF Dispatch, Step, Resume

-----------------------------------------------------------------------------
\* The whole invariant.

\* IInv holds always: every part rests on the types, and the tables rest on
\* the receipts the runs hold.
THEOREM ActivationInvariant == Spec => []IInv
<1>1. Init => IInv
  <2> SUFFICES ASSUME Init PROVE IInv
    OBVIOUS
  <2>1. TypeOK
    BY
    DEF Init, TypeOK, NoMandate, NoWork, Idle, Mandate, ActivationWork, Statuses,
        Steps
  <2>2. \A m \in Mandates : man[m] = NoMandate /\ work[m] = NoWork /\ ops[m] = 0
    BY DEF Init
  <2>3. \A p \in Procs, m \in Mandates : run[p][m].pc = "idle"
    BY DEF Init, Idle
  <2>4. SendInv
    BY <2>2, <2>3 DEF SendInv, Unsent
  <2>5. TablesAgree
    BY <2>2 DEF TablesAgree, NoMandate, NoWork, Leased, Fenced
  <2>6. ReceiptInv /\ RunQueued
    BY <2>3 DEF ReceiptInv, RunQueued, Verdicts
  <2>7. WakeInv
    BY <2>2 DEF WakeInv, NoWork
  <2> QED  BY <2>1, <2>4, <2>5, <2>6, <2>7 DEF IInv
<1>2. IInv /\ [Next]_vars => IInv'
  <2> SUFFICES ASSUME IInv, [Next]_vars PROVE IInv'
    OBVIOUS
  <2>1. CASE Next
    <3> USE <2>1 DEF IInv
    <3>1. TypeOK'
      BY NextCases, RunStepTypes, OtherStepTypes
    <3>2. RowsMove /\ RunsMove
      BY StepMoves, StepRuns
    <3>3. TablesAgree'
      BY <3>2 DEF RowsMove, RowMove, RunsMove, Agree, TablesAgree
    <3>4. ReceiptInv' /\ RunQueued'
      BY <3>2 DEF RunsMove, Seen, ReceiptInv, RunQueued
    <3>5. SendInv'
      BY StepSends
    <3>6. WakeInv'
      BY <3>1, <3>3, StepWakes
    <3> QED  BY <3>1, <3>3, <3>4, <3>5, <3>6
  <2>2. CASE UNCHANGED vars
    BY <2>2
    DEF vars, chain, procVars, IInv, TypeOK, SendInv, Unsent, Open, TablesAgree,
                ReceiptInv, RunQueued, WakeInv, Awaits
  <2> QED  BY <2>1, <2>2
<1> QED  BY <1>1, <1>2, PTL DEF Spec

\* A mandate is activated at most once: the submitting fence of the activation
\* worker together with reconcileExpired, for any number of relayer processes,
\* crashes and lost leases.
THEOREM ActivatedOnce == Spec => []ActivatedAtMostOnce
<1>1. IInv => ActivatedAtMostOnce
  BY DEF IInv, SendInv, ActivatedAtMostOnce
<1> QED  BY <1>1, ActivationInvariant, PTL

\* The mandate and work tables never disagree.
THEOREM TablesAlwaysAgree == Spec => []TablesAgree
<1>1. IInv => TablesAgree
  BY DEF IInv
<1> QED  BY <1>1, ActivationInvariant, PTL

\* No step brings a settled mandate back.
THEOREM Unresurrected == Spec => NeverResurrected
<1>1. IInv /\ [Next]_vars =>
        [\A m \in Mandates :
           man[m].status \in {"active", "activation_uncertain", "revoked"} =>
             man'[m].status \in {man[m].status, "revoked"}]_vars
  <2> SUFFICES ASSUME IInv, Next
               PROVE  \A m \in Mandates :
                        man[m].status \in {"active", "activation_uncertain", "revoked"} =>
                          man'[m].status \in {man[m].status, "revoked"}
    OBVIOUS
  <2>1. RowsMove
    BY StepMoves DEF IInv
  <2> QED  BY <2>1 DEF RowsMove, RowMove, Settled
<1> QED  BY <1>1, ActivationInvariant, PTL DEF Spec, NeverResurrected

\* No pending mandate is forgotten by the queue, the retry timer or a restart.
THEOREM NothingForgotten == Spec => []PendingTracked
<1>1. IInv => PendingTracked
  BY DEF IInv, WakeInv, Awaits, PendingTracked, Tracked
<1> QED  BY <1>1, ActivationInvariant, PTL
=============================================================================
