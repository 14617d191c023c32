------------------------- MODULE BaseDepositsProofs -------------------------
(***************************************************************************)
(* Proofs about BaseDeposits for every set of children, jobs and recovery  *)
(* runs, and any number of faults and requests.                            *)
(*                                                                         *)
(* A child is sent at most once because the right to send comes from the   *)
(* claim, the claim writes the child's only submitting entry, and a log    *)
(* never loses an entry.  A run with that right is armed: no other run is  *)
(* armed for its child, nothing was sent for it, and the nonce it will     *)
(* send is the one of the entry.                                           *)
(***************************************************************************)
EXTENDS BaseDeposits, TLAPS

Armed(r) == run[r].pc \in {"encode", "fence", "send"}

\* What a run holds at each place.
RunGood(r) ==
  /\ run[r].pc # "idle" => run[r].child \in Children
  /\ run[r].pc = "gate" => run[r].version \in 1..Len(log[run[r].child])
  /\ run[r].pc \in {"authority", "claim", "encode", "fence", "send", "submitted"}
       => run[r].nonce \in Nat
  /\ run[r].pc = "apply" => run[r].found \in mined

\* What the agent index has seen and what a row was made for are entries.
ChildGood(c) ==
  /\ Len(log[c]) >= 1 /\ seen[c] <= Len(log[c])
  /\ work[c].version <= Len(log[c])
  /\ work[c].state = "pending" => work[c].version >= 1

TypeInv ==
  /\ TypeOK
  /\ \A r \in Runs : RunGood(r)
  /\ \A c \in Children : ChildGood(c)

Handle(c, n) == \E i \in Recorded(c, "submitting") : log[c][i].nonce = n

SentRecorded == \A c \in Children : sends[c] >= 1 => Recorded(c, "submitting") # {}
ArmedUnsent ==
  \A r \in Runs : Armed(r) => sends[run[r].child] = 0 /\ Handle(run[r].child, run[r].nonce)
ArmedApart == \A q, r \in Runs : Armed(q) /\ Armed(r) /\ q # r => run[q].child # run[r].child
PoolRecorded == \A op \in pool : Handle(op.child, op.nonce)

MintUnclaimed ==
  \A c \in Children : StateOf(c) = "minted" => \A i \in 1..Len(log[c]) : log[c][i].state = "minted"

SendInv ==
  OneSend /\ SentRecorded /\ ArmedUnsent /\ ArmedApart /\ PoolRecorded /\ MintUnclaimed

-----------------------------------------------------------------------------
(* What steps do to the log and to the runs *)

\* Logs only grow.
Grows ==
  \A c \in Children : /\ Len(log[c]) <= Len(log'[c])
                      /\ \A i \in 1..Len(log[c]) : log'[c][i] = log[c][i]

\* Why an entry may be written.  A confirmation has an operation that
\* deposited on the child's terms.  A failure has one that reverted, or
\* belongs to an armed run that gives up its right; a child without a handle
\* is handed to its owner.
Explained(c, p) ==
  /\ p.state # "blocked" => p.nonce \in Nat
  /\ p.state = "blocked" => p.nonce = None
  /\ p.state = "confirmed" => \E m \in mined : m.ok /\ Terms[m.child] = Terms[c]
  /\ p.state = "failed" =>
       \/ \E m \in mined : ~m.ok /\ m.nonce = p.nonce
       \/ \E r \in Runs : Armed(r) /\ run[r].child = c /\ ~Armed(r)'

\* A log changes by one entry that is explained.
Justified ==
  \A c \in Children :
    \/ log'[c] = log[c]
    \/ \E p \in Checkpoints : Enqueues(c, p) /\ Explained(c, p) /\ log'[c] = Append(log[c], p)

EvidenceStep ==
  /\ log' \in [Children -> Seq(Checkpoints)]
  /\ owner' \in [Children -> Runs \cup {None}]
  /\ mined \subseteq mined'
  /\ Grows /\ Justified

\* Run r arms no new send.
Disarms(r) ==
  Armed(r)' => Armed(r) /\ run'[r].child = run[r].child /\ run'[r].nonce = run[r].nonce

RunTyped == run' \in [Runs -> Run] /\ \A r \in Runs : RunGood(r)'
RunStep == RunTyped /\ \A r \in Runs : Disarms(r)

\* A step that sends nothing and gives nobody the right to send.
Quiet ==
  /\ EvidenceStep /\ RunStep /\ sends' = sends /\ pool' = pool
  /\ UNCHANGED <<nonce, mined>> \/ \E op \in pool : Mine(op)

\* Appending an entry keeps the type of the log and what it holds.
LEMMA AppendGrows ==
  ASSUME TypeInv, NEW c \in Children, NEW p \in Checkpoints, Explained(c, p),
         log' = Appended(c, p)
  PROVE  log' \in [Children -> Seq(Checkpoints)] /\ Grows /\ Justified
<1>0. log \in [Children -> Seq(Checkpoints)]
  BY DEF TypeInv, TypeOK
<1>1. CASE log' = log
  BY <1>0, <1>1 DEF Grows, Justified
<1>2. CASE Enqueues(c, p) /\ log' = [log EXCEPT ![c] = Append(@, p)]
  <2>1. log[c] \in Seq(Checkpoints) /\ Append(log[c], p) \in Seq(Checkpoints)
    BY <1>0
  <2>2. Len(Append(log[c], p)) = Len(log[c]) + 1 /\ Append(log[c], p)[Len(log[c]) + 1] = p
    BY <2>1
  <2>3. \A i \in 1..Len(log[c]) : Append(log[c], p)[i] = log[c][i]
    BY <2>1
  <2>4. log'[c] = Append(log[c], p) /\ \A d \in Children \ {c} : log'[d] = log[d]
    BY <1>0, <1>2
  <2>5. Len(log[c]) \in Nat /\ \A d \in Children : Len(log[d]) \in Nat
    BY <1>0
  <2>6. Len(log[c]) <= Len(log'[c]) /\ \A i \in 1..Len(log[c]) : log'[c][i] = log[c][i]
    BY <2>2, <2>3, <2>4, <2>5
  <2>7. Grows
    BY <2>4, <2>5, <2>6 DEF Grows
  <2>8. Justified
    BY <1>2, <2>4 DEF Justified
  <2> QED BY <1>0, <1>2, <2>1, <2>7, <2>8
<1> QED BY <1>1, <1>2 DEF Appended

LEMMA EvidenceKept ==
  ASSUME TypeInv, UNCHANGED evidence, mined \subseteq mined'
  PROVE  EvidenceStep
<1>1. log' = log /\ owner' = owner
  BY DEF evidence
<1> QED BY <1>1 DEF TypeInv, TypeOK, EvidenceStep, Grows, Justified

LEMMA EnqueueStep ==
  ASSUME TypeInv, NEW c \in Children, NEW p \in Checkpoints, Explained(c, p),
         enqueue(c, p), mined' = mined
  PROVE  EvidenceStep
BY AppendGrows DEF enqueue, EvidenceStep, TypeInv, TypeOK

LEMMA EnqueueOwnedStep ==
  ASSUME TypeInv, NEW r \in Runs, NEW c \in Children, NEW p \in Checkpoints,
         Explained(c, p), enqueueOwned(r, c, p), mined' = mined
  PROVE  EvidenceStep
BY AppendGrows DEF enqueueOwned, EvidenceStep, TypeInv, TypeOK

LEMMA CheckpointType ==
  ASSUME NEW s \in States, NEW n \in Nat \cup {None}, NEW op \in Children \cup {None},
         NEW why \in Reasons
  PROVE  Checkpoint(s, n, op, why) \in Checkpoints
BY DEF Checkpoint, Checkpoints

\* Runs that do not move stay as they are while the log grows.
LEMMA OthersStay ==
  ASSUME TypeInv, EvidenceStep, NEW q \in Runs, run'[q] = run[q]
  PROVE  RunGood(q)' /\ Disarms(q)
<1>1. RunGood(q)
  BY DEF TypeInv
<1>2. ASSUME run[q].pc = "gate" PROVE run[q].version \in 1..Len(log'[run[q].child])
  <2>1. run[q].child \in Children /\ run[q].version \in 1..Len(log[run[q].child])
    BY <1>1, <1>2 DEF RunGood
  <2>2. Len(log[run[q].child]) \in Nat /\ Len(log'[run[q].child]) \in Nat
    BY <2>1 DEF TypeInv, TypeOK, EvidenceStep
  <2> QED BY <2>1, <2>2 DEF EvidenceStep, Grows
<1> QED BY <1>1, <1>2 DEF EvidenceStep, RunGood, Disarms, Armed

\* A run that ends keeps its child and its version and is not armed.
LEMMA EndsStep ==
  ASSUME TypeInv, EvidenceStep, NEW r \in Runs, NEW result \in Results,
         run[r].pc # "idle", Ends(r, result)
  PROVE  RunStep
<1>1. run \in [Runs -> Run] /\ run[r].child \in Children /\ run[r].version \in Nat
  BY DEF TypeInv, TypeOK, RunGood, Run
<1> DEFINE ended == [IdleRun EXCEPT !.pc = "result", !.child = run[r].child,
                                    !.version = run[r].version, !.result = result]
<1>2. ended \in Run /\ ended.pc = "result" /\ ended.child = run[r].child
  BY <1>1 DEF IdleRun, Run, Places
<1>3. run' = [run EXCEPT ![r] = ended]
  BY DEF Ends
<1> HIDE DEF ended
<1>4. run' \in [Runs -> Run] /\ run'[r] = ended /\ \A q \in Runs \ {r} : run'[q] = run[q]
  BY <1>1, <1>2, <1>3
<1>5. RunGood(r)' /\ Disarms(r)
  BY <1>1, <1>2, <1>4 DEF RunGood, Disarms, Armed
<1> QED BY <1>4, <1>5, OthersStay DEF RunStep, RunTyped

LEMMA EndsUnarmed ==
  ASSUME TypeInv, NEW r \in Runs, NEW result, Ends(r, result)
  PROVE  run'[r].pc = "result" /\ ~Armed(r)' /\ \A q \in Runs \ {r} : run'[q] = run[q]
BY DEF Ends, IdleRun, Armed, TypeInv, TypeOK

\* Entries that say nothing final need no explanation.
LEMMA PlainEntry ==
  ASSUME NEW c, NEW p, p.nonce \in Nat, p.state \in {"submitting", "submitted", "unknown"}
  PROVE  Explained(c, p)
BY DEF Explained

\* Only run r moves.
LEMMA OneMoves ==
  ASSUME TypeInv, EvidenceStep, NEW r \in Runs, run' \in [Runs -> Run],
         \A q \in Runs \ {r} : run'[q] = run[q], RunGood(r)'
  PROVE  RunTyped /\ (Disarms(r) => RunStep)
BY OthersStay DEF RunTyped, RunStep

\* What is said of a child outlasts growth of its log.
LEMMA ChildKept ==
  ASSUME TypeInv, EvidenceStep, NEW c \in Children, seen'[c] = seen[c], work'[c] = work[c]
  PROVE  ChildGood(c)'
<1>1. ChildGood(c) /\ Len(log[c]) <= Len(log'[c])
  BY DEF TypeInv, EvidenceStep, Grows
<1>2. Len(log[c]) \in Nat /\ Len(log'[c]) \in Nat /\ seen[c] \in Nat /\ work[c].version \in Nat
  BY DEF TypeInv, TypeOK, EvidenceStep, Row
<1> QED BY <1>1, <1>2 DEF ChildGood

\* The variables that the steps of a run leave alone.
Aside == <<outbox, seen, job, auth, work, tokens, farm, up, faults, requests>>

LEMMA TypeKept ==
  ASSUME TypeInv, EvidenceStep, RunTyped, UNCHANGED Aside,
         nonce' \in Nat, sends' \in [Children -> Nat], pool' \subseteq Ops, mined' \subseteq Mined
  PROVE  TypeInv'
<1>1. TypeOK'
  BY DEF TypeInv, TypeOK, EvidenceStep, RunTyped, Aside
<1>2. \A c \in Children : ChildGood(c)'
  BY ChildKept DEF Aside
<1> QED BY <1>1, <1>2 DEF TypeInv, RunTyped

-----------------------------------------------------------------------------
(* The steps of a dispatch *)

\* A run that has a child and records what it holds.
LEMMA RunFields ==
  ASSUME TypeInv, NEW r \in Runs, run[r].pc # "idle"
  PROVE  /\ run \in [Runs -> Run]
         /\ run[r].child \in Children /\ run[r].nonce \in Nat \cup {None}
         /\ run[r].op \in Children \cup {None} /\ run[r].version \in Nat
BY DEF TypeInv, TypeOK, RunGood, Run

\* A run replaced by another.
LEMMA RunReplaced ==
  ASSUME run \in [Runs -> Run], NEW r \in Runs, NEW new \in Run, run' = [run EXCEPT ![r] = new]
  PROVE  run' \in [Runs -> Run] /\ run'[r] = new /\ \A q \in Runs \ {r} : run'[q] = run[q]
OBVIOUS

LEMMA CaptureQuiet ==
  ASSUME TypeInv, NEW r \in Runs, captureReconcileHandle(r)
  PROVE  EvidenceStep /\ RunStep
<1>1. EvidenceStep
  BY EvidenceKept DEF captureReconcileHandle, chain
<1>2. CASE Ends(r, "held")
  BY <1>1, <1>2, EndsStep DEF captureReconcileHandle, Results
<1>3. CASE run' = [run EXCEPT ![r].pc = "authority", ![r].nonce = nonce]
  <2>1. run \in [Runs -> Run] /\ run[r].child \in Children /\ nonce \in Nat
    BY RunFields DEF TypeInv, TypeOK, captureReconcileHandle
  <2> DEFINE new == [run[r] EXCEPT !.pc = "authority", !.nonce = nonce]
  <2>a. new \in Run /\ new.pc = "authority" /\ new.nonce = nonce /\ new.child = run[r].child
    <3>1. run[r] \in Run /\ "authority" \in Places
      BY <2>1 DEF Places
    <3>2. new.pc = "authority" /\ new.nonce = nonce /\ new.child = run[r].child
      BY <3>1 DEF Run
    <3>3. new \in Run
      BY <2>1, <3>1 DEF Run
    <3> QED BY <3>2, <3>3
  <2>b. run' = [run EXCEPT ![r] = new]
    BY <1>3, <2>1
  <2> HIDE DEF new
  <2>2. /\ run' \in [Runs -> Run] /\ \A q \in Runs \ {r} : run'[q] = run[q]
        /\ run'[r].pc = "authority" /\ run'[r].nonce = nonce /\ run'[r].child = run[r].child
    BY <2>a, <2>b, RunReplaced, <2>1
  <2>3. RunGood(r)' /\ Disarms(r)
    BY <2>1, <2>2 DEF RunGood, Disarms, Armed
  <2> QED BY <1>1, <2>2, <2>3, OneMoves
<1> QED BY <1>1, <1>2, <1>3 DEF captureReconcileHandle

LEMMA AuthorityQuiet ==
  ASSUME TypeInv, NEW r \in Runs, onBeforeClaimSubmitting(r)
  PROVE  EvidenceStep /\ RunStep
<1>1. EvidenceStep
  BY EvidenceKept DEF onBeforeClaimSubmitting, chain
<1>2. CASE Ends(r, "held")
  BY <1>1, <1>2, EndsStep DEF onBeforeClaimSubmitting, Results
<1>3. CASE run' = [run EXCEPT ![r].pc = "claim", ![r].snapshot = auth.at]
  <2>0. run[r].pc = "authority" /\ RunGood(r)
    BY DEF TypeInv, onBeforeClaimSubmitting
  <2>1. /\ run \in [Runs -> Run] /\ run[r].child \in Children /\ run[r].nonce \in Nat
        /\ auth.at \in Nat
    BY <2>0 DEF TypeInv, TypeOK, RunGood
  <2> DEFINE new == [run[r] EXCEPT !.pc = "claim", !.snapshot = auth.at]
  <2>a. new \in Run /\ new.pc = "claim" /\ new.nonce = run[r].nonce /\ new.child = run[r].child
    <3>1. run[r] \in Run /\ "claim" \in Places
      BY <2>1 DEF Places
    <3>2. new.pc = "claim" /\ new.nonce = run[r].nonce /\ new.child = run[r].child
      BY <3>1 DEF Run
    <3>3. new \in Run
      BY <2>1, <3>1 DEF Run
    <3> QED BY <3>2, <3>3
  <2>b. run' = [run EXCEPT ![r] = new]
    BY <1>3, <2>1
  <2> HIDE DEF new
  <2>2. /\ run' \in [Runs -> Run] /\ \A q \in Runs \ {r} : run'[q] = run[q]
        /\ run'[r].pc = "claim" /\ run'[r].nonce = run[r].nonce /\ run'[r].child = run[r].child
    BY <2>a, <2>b, RunReplaced, <2>1
  <2>3. RunGood(r)' /\ Disarms(r)
    BY <2>1, <2>2 DEF RunGood, Disarms, Armed
  <2> QED BY <1>1, <2>2, <2>3, OneMoves
<1> QED BY <1>1, <1>2, <1>3 DEF onBeforeClaimSubmitting

\* Moving on to another place, with nothing else changed.
LEMMA GotoStep ==
  ASSUME TypeInv, EvidenceStep, NEW r \in Runs, NEW pc \in Places, Goto(r, pc),
         run[r].pc # "idle", pc \notin {"idle", "gate", "apply", "authority", "claim", "submitted"},
         pc \in {"encode", "fence", "send"} => Armed(r)
  PROVE  RunStep
<1>1. run \in [Runs -> Run] /\ RunGood(r)
  BY DEF TypeInv, TypeOK
<1>2. /\ run' \in [Runs -> Run] /\ \A q \in Runs \ {r} : run'[q] = run[q]
      /\ run'[r].pc = pc /\ run'[r].nonce = run[r].nonce /\ run'[r].child = run[r].child
  BY <1>1 DEF Goto, Run
<1>3. RunGood(r)' /\ Disarms(r)
  BY <1>1, <1>2 DEF RunGood, Disarms, Armed
<1> QED BY <1>2, <1>3, OneMoves

LEMMA EncodeQuiet ==
  ASSUME TypeInv, NEW r \in Runs, EncodeCalls(r)
  PROVE  EvidenceStep /\ RunStep
<1> DEFINE c == run[r].child
           p == Checkpoint("failed", run[r].nonce, None, "encode")
<1>1. /\ run[r].pc = "encode" /\ c \in Children /\ p \in Checkpoints /\ run[r].nonce \in Nat
      /\ mined' = mined
  BY RunFields, CheckpointType DEF EncodeCalls, States, Reasons, TypeInv, RunGood, chain
<1>2. CASE Goto(r, IF Forward(r) THEN "send" ELSE "fence") /\ UNCHANGED evidence
  BY <1>1, <1>2, EvidenceKept, GotoStep DEF Places, Armed
<1>3. CASE enqueueOwned(r, c, p) /\ Ends(r, "rejected")
  <2>1. Armed(r) /\ ~Armed(r)'
    BY <1>1, <1>3, EndsUnarmed DEF Armed
  <2>2. Explained(c, p)
    BY <1>1, <2>1 DEF Explained, Checkpoint
  <2> QED BY <1>1, <1>3, <2>2, EnqueueOwnedStep, EndsStep DEF Results
<1>4. CASE Ends(r, "threw") /\ UNCHANGED evidence
  BY <1>1, <1>4, EvidenceKept, EndsStep DEF Results
<1> QED BY <1>2, <1>3, <1>4 DEF EncodeCalls

LEMMA FenceQuiet ==
  ASSUME TypeInv, NEW r \in Runs, onBeforeSend(r)
  PROVE  EvidenceStep /\ RunStep
<1> DEFINE c == run[r].child
           p == Checkpoint("unknown", run[r].nonce, None, "none")
<1>1. /\ run[r].pc = "fence" /\ c \in Children /\ p \in Checkpoints /\ run[r].nonce \in Nat
      /\ mined' = mined
  BY RunFields, CheckpointType DEF onBeforeSend, States, Reasons, TypeInv, RunGood, chain
<1>2. CASE Goto(r, "send") /\ UNCHANGED evidence
  BY <1>1, <1>2, EvidenceKept, GotoStep DEF Places, Armed
<1>3. CASE enqueueOwned(r, c, p) /\ Ends(r, "uncertain")
  <2>1. Explained(c, p)
    BY <1>1, PlainEntry DEF Checkpoint
  <2> QED BY <1>1, <1>3, <2>1, EnqueueOwnedStep, EndsStep DEF Results
<1>4. CASE Ends(r, "held") /\ UNCHANGED evidence
  BY <1>1, <1>4, EvidenceKept, EndsStep DEF Results
<1> QED BY <1>2, <1>3, <1>4 DEF onBeforeSend

LEMMA SubmittedQuiet ==
  ASSUME TypeInv, NEW r \in Runs, CheckpointSubmitted(r)
  PROVE  EvidenceStep /\ RunStep
<1> DEFINE c == run[r].child
           p == Checkpoint("submitted", run[r].nonce, c, "none")
           u == Checkpoint("unknown", run[r].nonce, c, "none")
<1>1. /\ run[r].pc = "submitted" /\ run \in [Runs -> Run] /\ run[r].nonce \in Nat
      /\ mined' = mined /\ c \in Children
  BY RunFields DEF CheckpointSubmitted, TypeInv, RunGood, chain
<1>2. p \in Checkpoints /\ u \in Checkpoints /\ Explained(c, p) /\ Explained(c, u)
  <2>1. p \in Checkpoints /\ u \in Checkpoints
    BY <1>1, CheckpointType DEF States, Reasons
  <2>2. Explained(c, p) /\ Explained(c, u)
    BY <1>1, PlainEntry DEF Checkpoint
  <2> QED BY <2>1, <2>2
<1>3. CASE enqueueOwned(r, c, p) /\ run' = [run EXCEPT ![r].pc = "receipt", ![r].token = FALSE]
  <2>1. EvidenceStep
    BY <1>1, <1>2, <1>3, EnqueueOwnedStep
  <2> DEFINE new == [run[r] EXCEPT !.pc = "receipt", !.token = FALSE]
  <2>2. new \in Run /\ new.pc = "receipt" /\ new.child = c
    <3>1. run[r] \in Run /\ "receipt" \in Places
      BY <1>1 DEF Places
    <3>2. new.pc = "receipt" /\ new.child = c
      BY <3>1 DEF Run
    <3>3. new \in Run
      BY <3>1 DEF Run
    <3> QED BY <3>2, <3>3
  <2>3. run' = [run EXCEPT ![r] = new]
    BY <1>1, <1>3
  <2> HIDE DEF new
  <2>4. run' \in [Runs -> Run] /\ run'[r] = new /\ \A q \in Runs \ {r} : run'[q] = run[q]
    BY <1>1, <2>2, <2>3, RunReplaced
  <2>5. RunGood(r)' /\ Disarms(r)
    BY <1>1, <2>2, <2>4 DEF RunGood, Disarms, Armed
  <2> QED BY <2>1, <2>4, <2>5, OneMoves
<1>4. CASE enqueueOwned(r, c, u) /\ Ends(r, "uncertain")
  BY <1>1, <1>2, <1>4, EnqueueOwnedStep, EndsStep DEF Results
<1>5. CASE Ends(r, "threw") /\ UNCHANGED evidence
  BY <1>1, <1>5, EvidenceKept, EndsStep DEF Results
<1> QED BY <1>3, <1>4, <1>5 DEF CheckpointSubmitted

\* What a run makes of an outcome: a checkpoint, or none.
LEMMA SettleStep ==
  ASSUME TypeInv, NEW r \in Runs, run[r].pc # "idle", mined' = mined,
         NEW p \in Checkpoints, Explained(run[r].child, p),
         NEW done \in Results, NEW refused \in Results,
         IF Accepted(run[r].child, p) THEN enqueue(run[r].child, p) /\ Ends(r, done)
         ELSE Ends(r, refused) /\ UNCHANGED evidence
  PROVE  EvidenceStep /\ RunStep
<1>1. run[r].child \in Children
  BY RunFields
<1>2. CASE enqueue(run[r].child, p) /\ Ends(r, done)
  BY <1>1, <1>2, EnqueueStep, EndsStep
<1>3. CASE Ends(r, refused) /\ UNCHANGED evidence
  BY <1>3, EvidenceKept, EndsStep
<1> QED BY <1>2, <1>3

LEMMA ReceiptQuiet ==
  ASSUME TypeInv, NEW r \in Runs, AwaitReceipt(r)
  PROVE  EvidenceStep /\ RunStep
<1> DEFINE c == run[r].child
           Settle(p, result) == IF Accepted(c, p) THEN enqueue(c, p) /\ Ends(r, result)
                                ELSE Ends(r, "threw") /\ UNCHANGED evidence
<1>1. run[r].pc = "receipt" /\ c \in Children /\ mined' = mined
  BY RunFields DEF AwaitReceipt, chain
<1>2. CASE Ends(r, "held") /\ UNCHANGED evidence
  BY <1>1, <1>2, EvidenceKept, EndsStep DEF Results
<1>3. ASSUME NEW m \in MinedOf(c),
             \/ m.ok /\ Settle(Checkpoint("confirmed", m.nonce, c, "none"), "fulfilled")
             \/ m.ok /\ Settle(Checkpoint("unknown", m.nonce, c, "none"), "uncertain")
             \/ ~m.ok /\ Settle(Checkpoint("failed", m.nonce, c, "receipt"), "owner")
      PROVE  EvidenceStep /\ RunStep
  <2>1. m \in mined /\ m.child = c /\ m.nonce \in Nat
    BY DEF MinedOf, TypeInv, TypeOK, Mined
  <2>2. /\ Checkpoint("confirmed", m.nonce, c, "none") \in Checkpoints
        /\ Checkpoint("unknown", m.nonce, c, "none") \in Checkpoints
        /\ Checkpoint("failed", m.nonce, c, "receipt") \in Checkpoints
    BY <1>1, <2>1, CheckpointType DEF States, Reasons
  <2>3. /\ m.ok => Explained(c, Checkpoint("confirmed", m.nonce, c, "none"))
        /\ Explained(c, Checkpoint("unknown", m.nonce, c, "none"))
        /\ ~m.ok => Explained(c, Checkpoint("failed", m.nonce, c, "receipt"))
    BY <2>1 DEF Explained, Checkpoint
  <2>4. {"fulfilled", "uncertain", "owner", "threw"} \subseteq Results /\ run[r].pc # "idle"
    BY <1>1 DEF Results
  <2> QED BY <1>1, <1>3, <2>2, <2>3, <2>4, SettleStep
<1> QED BY <1>2, <1>3 DEF AwaitReceipt

LEMMA ReadQuiet ==
  ASSUME TypeInv, NEW r \in Runs, readBaseDepositEvidence(r)
  PROVE  EvidenceStep /\ RunStep
<1>1. /\ EvidenceStep /\ run[r].pc = "read" /\ run \in [Runs -> Run] /\ run[r].child \in Children
      /\ mined' = mined
  BY EvidenceKept, RunFields DEF readBaseDepositEvidence, chain
<1>2. CASE Ends(r, "held")
  BY <1>1, <1>2, EndsStep DEF Results
<1>3. ASSUME NEW m \in mined, run' = [run EXCEPT ![r].pc = "apply", ![r].found = m]
      PROVE  EvidenceStep /\ RunStep
  <2>1. m \in Mined
    BY DEF TypeInv, TypeOK
  <2> DEFINE new == [run[r] EXCEPT !.pc = "apply", !.found = m]
  <2>a. new \in Run /\ new.pc = "apply" /\ new.child = run[r].child /\ new.found = m
    <3>1. run[r] \in Run /\ "apply" \in Places
      BY <1>1, <2>1 DEF Places
    <3>2. new.pc = "apply" /\ new.child = run[r].child /\ new.found = m
      BY <3>1 DEF Run
    <3>3. new \in Run
      BY <1>1, <2>1, <3>1 DEF Run
    <3> QED BY <3>2, <3>3
  <2>b. run' = [run EXCEPT ![r] = new]
    BY <1>1, <1>3
  <2> HIDE DEF new
  <2>2. /\ run' \in [Runs -> Run] /\ \A q \in Runs \ {r} : run'[q] = run[q]
        /\ run'[r].pc = "apply" /\ run'[r].child = run[r].child /\ run'[r].found = m
    BY <2>a, <2>b, RunReplaced, <1>1, <2>1
  <2>3. RunGood(r)' /\ Disarms(r)
    BY <1>1, <2>1, <2>2 DEF RunGood, Disarms, Armed
  <2> QED BY <1>1, <2>2, <2>3, OneMoves
<1> QED BY <1>2, <1>3 DEF readBaseDepositEvidence

LEMMA ReconcileQuiet ==
  ASSUME TypeInv, NEW r \in Runs, reconcileBaseDeposit(r)
  PROVE  EvidenceStep /\ RunStep
<1> DEFINE c == run[r].child
           m == run[r].found
           refused == IF Forward(r) THEN "uncertain" ELSE "held"
           Settle(p, result) == IF Accepted(c, p) THEN enqueue(c, p) /\ Ends(r, result)
                                ELSE Ends(r, refused) /\ UNCHANGED evidence
<1>1. run[r].pc = "apply" /\ c \in Children /\ RunGood(r) /\ mined' = mined
  BY RunFields DEF reconcileBaseDeposit, TypeInv, chain
<1>2. m \in mined /\ m.nonce \in Nat /\ m.child \in Children
  BY <1>1 DEF RunGood, TypeInv, TypeOK, Mined
<1>3. /\ Checkpoint("confirmed", m.nonce, m.child, "none") \in Checkpoints
      /\ Checkpoint("failed", m.nonce, m.child, "reconcile") \in Checkpoints
  BY <1>2, CheckpointType DEF States, Reasons
<1>4. {"fulfilled", "owner", refused} \subseteq Results /\ run[r].pc # "idle"
  BY <1>1 DEF Results
<1>5. CASE m.ok /\ SameTerms(m, c)
           /\ Settle(Checkpoint("confirmed", m.nonce, m.child, "none"), "fulfilled")
  <2>1. Explained(c, Checkpoint("confirmed", m.nonce, m.child, "none"))
    BY <1>2, <1>5 DEF Explained, Checkpoint, SameTerms
  <2> QED BY <1>1, <1>3, <1>4, <1>5, <2>1, SettleStep
<1>6. CASE ~m.ok /\ Settle(Checkpoint("failed", m.nonce, m.child, "reconcile"), "owner")
  <2>1. Explained(c, Checkpoint("failed", m.nonce, m.child, "reconcile"))
    BY <1>2, <1>6 DEF Explained, Checkpoint
  <2> QED BY <1>1, <1>3, <1>4, <1>6, <2>1, SettleStep
<1>7. CASE Ends(r, refused) /\ UNCHANGED evidence
  BY <1>1, <1>4, <1>7, EvidenceKept, EndsStep
<1> QED BY <1>5, <1>6, <1>7 DEF reconcileBaseDeposit

\* The steps of a run that neither claim nor send.
Plain(r) ==
  \/ captureReconcileHandle(r) \/ onBeforeClaimSubmitting(r) \/ EncodeCalls(r) \/ onBeforeSend(r)
  \/ CheckpointSubmitted(r) \/ AwaitReceipt(r) \/ readBaseDepositEvidence(r)
  \/ reconcileBaseDeposit(r)

LEMMA PlainAside ==
  ASSUME NEW r \in Runs, Plain(r)
  PROVE  UNCHANGED Aside /\ UNCHANGED chain
BY DEF Plain, captureReconcileHandle, onBeforeClaimSubmitting, EncodeCalls, onBeforeSend,
       CheckpointSubmitted, AwaitReceipt, readBaseDepositEvidence, reconcileBaseDeposit,
       Aside, chain, works

LEMMA PlainQuiet ==
  ASSUME TypeInv, NEW r \in Runs, Plain(r)
  PROVE  TypeInv' /\ Quiet
<1>1. EvidenceStep /\ RunStep
  BY CaptureQuiet, AuthorityQuiet, EncodeQuiet, FenceQuiet, SubmittedQuiet, ReceiptQuiet,
     ReadQuiet, ReconcileQuiet DEF Plain
<1>2. UNCHANGED Aside /\ UNCHANGED <<nonce, sends, pool, mined>>
  BY PlainAside DEF chain
<1>3. TypeInv'
  BY <1>1, <1>2, TypeKept DEF TypeInv, TypeOK, RunStep
<1> QED BY <1>1, <1>2, <1>3 DEF Quiet

\* A claim that is refused.
ClaimRefused(r) ==
  /\ run[r].pc = "claim"
  /\ Ends(r, "held") \/ Ends(r, "uncertain")
  /\ UNCHANGED evidence /\ UNCHANGED Aside /\ UNCHANGED chain

\* A claim that is made: the only submitting entry, and a run that is armed.
ClaimMade(r) ==
  /\ run[r].pc = "claim" /\ auth.active
  /\ Enqueues(run[r].child, Submitting(r))
  /\ log' = [log EXCEPT ![run[r].child] = Append(@, Submitting(r))]
  /\ owner' = [owner EXCEPT ![run[r].child] = r]
  /\ run' = [run EXCEPT ![r].pc = "encode", ![r].token = TRUE]
  /\ UNCHANGED Aside /\ UNCHANGED chain

LEMMA ClaimCases ==
  ASSUME NEW r \in Runs, claimAuthorizedSubmission(r)
  PROVE  ClaimRefused(r) \/ ClaimMade(r)
BY DEF claimAuthorizedSubmission, Authorized, ClaimRefused, ClaimMade, Appended, Aside, chain,
       works, evidence

LEMMA RefusalQuiet ==
  ASSUME TypeInv, NEW r \in Runs, ClaimRefused(r)
  PROVE  TypeInv' /\ Quiet
<1>1. EvidenceStep /\ run[r].pc # "idle"
  BY EvidenceKept DEF ClaimRefused, chain
<1>2. RunStep
  BY <1>1, EndsStep DEF ClaimRefused, Results
<1>3. UNCHANGED <<nonce, sends, pool, mined>>
  BY DEF ClaimRefused, chain
<1>4. TypeInv'
  BY <1>1, <1>2, <1>3, TypeKept DEF ClaimRefused, TypeInv, TypeOK, RunStep
<1> QED BY <1>1, <1>2, <1>3, <1>4 DEF Quiet

LEMMA ClaimTyped ==
  ASSUME TypeInv, NEW r \in Runs, ClaimMade(r)
  PROVE  /\ TypeInv' /\ EvidenceStep
         /\ \A q \in Runs \ {r} : run'[q] = run[q]
         /\ run'[r].pc = "encode" /\ run'[r].child = run[r].child /\ run'[r].nonce = run[r].nonce
<1> DEFINE c == run[r].child
<1>1. /\ run \in [Runs -> Run] /\ c \in Children /\ RunGood(r) /\ run[r].pc = "claim"
      /\ run[r].nonce \in Nat
  BY RunFields DEF ClaimMade, TypeInv, RunGood
<1>2. Submitting(r) \in Checkpoints
  BY <1>1, CheckpointType DEF Submitting, States, Reasons
<1>3. EvidenceStep
  <2>1. log' = Appended(c, Submitting(r))
    BY DEF ClaimMade, Appended
  <2>2. owner' \in [Children -> Runs \cup {None}] /\ mined' = mined
    BY <1>1 DEF ClaimMade, TypeInv, TypeOK, chain
  <2>3. Explained(c, Submitting(r))
    BY <1>1, PlainEntry DEF Submitting, Checkpoint
  <2> QED BY <1>1, <1>2, <2>1, <2>2, <2>3, AppendGrows DEF EvidenceStep
<1> DEFINE new == [run[r] EXCEPT !.pc = "encode", !.token = TRUE]
<1>4. new \in Run /\ new.pc = "encode" /\ new.child = c /\ new.nonce = run[r].nonce
  <2>1. run[r] \in Run /\ "encode" \in Places
    BY <1>1 DEF Places
  <2>2. new.pc = "encode" /\ new.child = c /\ new.nonce = run[r].nonce
    BY <2>1 DEF Run
  <2>3. new \in Run
    BY <1>1, <2>1 DEF Run
  <2> QED BY <2>2, <2>3
<1>5. run' = [run EXCEPT ![r] = new]
  BY <1>1 DEF ClaimMade
<1> HIDE DEF new
<1>6. run' \in [Runs -> Run] /\ run'[r] = new /\ \A q \in Runs \ {r} : run'[q] = run[q]
  BY <1>1, <1>4, <1>5, RunReplaced
<1>7. RunGood(r)'
  BY <1>1, <1>4, <1>6 DEF RunGood
<1>8. TypeInv'
  BY <1>3, <1>6, <1>7, OneMoves, TypeKept DEF ClaimMade, chain, TypeInv, TypeOK
<1> QED BY <1>3, <1>4, <1>6, <1>8

LEMMA SendTyped ==
  ASSUME TypeInv, NEW r \in Runs, SendUserOperation(r)
  PROVE  /\ TypeInv' /\ EvidenceStep
         /\ \A q \in Runs \ {r} : run'[q] = run[q]
         /\ ~Armed(r)'
<1> DEFINE c == run[r].child
           u == Checkpoint("unknown", run[r].nonce, None, "none")
<1>1. /\ run \in [Runs -> Run] /\ c \in Children /\ RunGood(r) /\ run[r].pc = "send"
      /\ run[r].nonce \in Nat /\ u \in Checkpoints
  BY RunFields, CheckpointType DEF SendUserOperation, TypeInv, RunGood, States, Reasons
<1>2. /\ UNCHANGED Aside /\ nonce' \in Nat /\ mined' \subseteq Mined /\ mined' = mined
      /\ sends' \in [Children -> Nat] /\ pool' \subseteq Ops
  BY <1>1 DEF SendUserOperation, Aside, works, TypeInv, TypeOK, Ops
<1>3. CASE run' = [run EXCEPT ![r].pc = "submitted", ![r].op = c] /\ UNCHANGED evidence
  <2> DEFINE new == [run[r] EXCEPT !.pc = "submitted", !.op = c]
  <2>1. new \in Run /\ new.pc = "submitted" /\ new.child = c /\ new.nonce = run[r].nonce
    <3>1. run[r] \in Run /\ "submitted" \in Places
      BY <1>1 DEF Places
    <3>2. new.pc = "submitted" /\ new.child = c /\ new.nonce = run[r].nonce
      BY <3>1 DEF Run
    <3>3. new \in Run
      BY <1>1, <3>1 DEF Run
    <3> QED BY <3>2, <3>3
  <2>2. run' = [run EXCEPT ![r] = new]
    BY <1>1, <1>3
  <2> HIDE DEF new
  <2>3. run' \in [Runs -> Run] /\ run'[r] = new /\ \A q \in Runs \ {r} : run'[q] = run[q]
    BY <1>1, <2>1, <2>2, RunReplaced
  <2>4. RunGood(r)' /\ ~Armed(r)'
    BY <1>1, <2>1, <2>3 DEF RunGood, Armed
  <2>5. EvidenceStep
    BY <1>2, <1>3, EvidenceKept
  <2>6. RunTyped
    BY <2>3, <2>4, <2>5, OneMoves
  <2> QED BY <1>2, <2>3, <2>4, <2>5, <2>6, TypeKept
<1>4. ASSUME EvidenceStep, NEW result \in Results, Ends(r, result)
      PROVE  /\ TypeInv' /\ EvidenceStep /\ \A q \in Runs \ {r} : run'[q] = run[q]
             /\ ~Armed(r)'
  <2>1. RunStep
    BY <1>1, <1>4, EndsStep
  <2>2. run'[r].pc = "result" /\ \A q \in Runs \ {r} : run'[q] = run[q]
    BY <1>1, <1>4 DEF Ends, IdleRun
  <2> QED BY <1>2, <1>4, <2>1, <2>2, TypeKept DEF RunStep, Armed
<1>5. CASE enqueueOwned(r, c, u) /\ Ends(r, "uncertain")
  <2>1. Explained(c, u)
    BY <1>1, PlainEntry DEF Checkpoint
  <2> QED BY <1>1, <1>2, <1>4, <1>5, <2>1, EnqueueOwnedStep DEF Results
<1>6. CASE Ends(r, "threw") /\ UNCHANGED evidence
  BY <1>2, <1>4, <1>6, EvidenceKept DEF Results
<1> QED BY <1>3, <1>5, <1>6 DEF SendUserOperation

-----------------------------------------------------------------------------
(* The boot, recoveries and the environment *)

\* Steps that leave runs and evidence alone.
LEMMA StillQuiet ==
  ASSUME TypeInv, UNCHANGED <<log, owner, run, sends, pool>>,
         UNCHANGED <<nonce, mined>> \/ \E op \in pool : Mine(op)
  PROVE  Quiet
<1>1. EvidenceStep
  BY EvidenceKept DEF evidence, Mine
<1>2. run' \in [Runs -> Run] /\ \A q \in Runs : RunGood(q)' /\ Disarms(q)
  BY <1>1, OthersStay DEF TypeInv, TypeOK
<1> QED BY <1>1, <1>2 DEF Quiet, RunStep, RunTyped

LEMMA IdleStep ==
  ASSUME TypeInv, EvidenceStep, NEW r \in Runs, run' = [run EXCEPT ![r] = IdleRun]
  PROVE  RunStep
<1>1. IdleRun \in Run /\ IdleRun.pc = "idle"
  BY DEF IdleRun, Run, Places
<1>2. run' \in [Runs -> Run] /\ run'[r] = IdleRun /\ \A q \in Runs \ {r} : run'[q] = run[q]
  BY <1>1, RunReplaced DEF TypeInv, TypeOK
<1>3. RunGood(r)' /\ Disarms(r)
  BY <1>1, <1>2 DEF RunGood, Disarms, Armed
<1> QED BY <1>2, <1>3, OneMoves

LEMMA LatestType ==
  ASSUME TypeInv, NEW c \in Children
  PROVE  Latest(c) \in Checkpoints
<1>1. log[c] \in Seq(Checkpoints) /\ Len(log[c]) >= 1
  BY DEF TypeInv, TypeOK, ChildGood
<1> QED BY <1>1 DEF Latest

LEMMA FarmAtType ==
  ASSUME NEW pc \in {"start", "loop", "child", "end"}
  PROVE  FarmAt(pc) \in Farm
<1>1. Checkpoint("minted", None, None, "none") \in Checkpoints
  BY CheckpointType DEF States, Reasons
<1> QED BY <1>1 DEF FarmAt, Farm

\* The boot's steps: what they may change besides their job's run.
LEMMA FarmTyped ==
  ASSUME TypeInv, EvidenceStep, RunStep, UNCHANGED <<outbox, seen, auth, chain, works, up, faults, requests>>,
         farm' \in [Jobs -> Farm],
         job' \in [Jobs -> {"deposit_pending", "deposit_confirming", "done", "uncertain", "blocked"}]
  PROVE  TypeInv' /\ Quiet
<1>1. TypeOK'
  BY DEF TypeInv, TypeOK, EvidenceStep, RunStep, RunTyped, chain, works
<1>2. \A c \in Children : ChildGood(c)'
  BY ChildKept DEF works
<1> QED BY <1>1, <1>2 DEF TypeInv, Quiet, RunStep, RunTyped, chain

LEMMA FarmStartQuiet ==
  ASSUME TypeInv, NEW j \in Jobs, FarmStart(j)
  PROVE  TypeInv' /\ Quiet
<1>1. EvidenceStep /\ RunStep
  BY StillQuiet DEF FarmStart, chain, evidence, Quiet
<1> DEFINE view == [c \in Children |-> Latest(c)]
           new == [farm[j] EXCEPT !.pc = "loop", !.view = view]
<1>2. farm \in [Jobs -> Farm] /\ view \in [Children -> Checkpoints]
  BY LatestType DEF TypeInv, TypeOK
<1>3. farm' = [farm EXCEPT ![j] = new]
  BY <1>2 DEF FarmStart
<1> HIDE DEF view
<1>4. new \in Farm
  BY <1>2 DEF Farm
<1> HIDE DEF new
<1>5. farm' \in [Jobs -> Farm]
  BY <1>2, <1>3, <1>4
<1> QED BY <1>1, <1>5, FarmTyped DEF FarmStart, TypeInv, TypeOK

LEMMA FarmUpdated ==
  ASSUME NEW f \in Farm, NEW at \in Nat, NEW hold \in BOOLEAN, NEW doubt \in BOOLEAN,
         NEW full \in BOOLEAN
  PROVE  [f EXCEPT !.pc = "loop", !.at = at, !.hold = hold, !.doubt = doubt, !.full = full] \in Farm
BY DEF Farm

LEMMA AdvanceType ==
  ASSUME TypeInv, NEW j \in Jobs, NEW hold \in BOOLEAN, NEW doubt \in BOOLEAN, NEW full \in BOOLEAN,
         Advance(j, hold, doubt, full)
  PROVE  farm' \in [Jobs -> Farm]
<1> DEFINE f == farm[j]
           at == f.at + 1
           held == f.hold \/ hold
           doubts == f.doubt \/ doubt
           whole == f.full /\ full
           new == [f EXCEPT !.pc = "loop", !.at = at, !.hold = held, !.doubt = doubts,
                            !.full = whole]
<1>1. farm \in [Jobs -> Farm] /\ f \in Farm
  BY DEF TypeInv, TypeOK
<1>2. farm' = [farm EXCEPT ![j] = new]
  BY <1>1 DEF Advance
<1>3. at \in Nat /\ held \in BOOLEAN /\ doubts \in BOOLEAN /\ whole \in BOOLEAN
  BY <1>1 DEF Farm
<1> HIDE DEF at, held, doubts, whole
<1>4. new \in Farm
  BY <1>1, <1>3, FarmUpdated
<1> HIDE DEF new
<1> QED BY <1>1, <1>2, <1>4

LEMMA FarmChildQuiet ==
  ASSUME TypeInv, NEW j \in Jobs, FarmChild(j)
  PROVE  TypeInv' /\ Quiet
<1> DEFINE c == Kids[j][farm[j].at]
           view == farm[j].view[c]
           new(pc, n, op) == [IdleRun EXCEPT !.pc = pc, !.child = c, !.nonce = n, !.op = op,
                                             !.snapshot = auth.at]
           Call(pc, n, op) == /\ run' = [run EXCEPT ![j] = new(pc, n, op)]
                              /\ farm' = [farm EXCEPT ![j].pc = "child"]
                              /\ job' = job
<1>1. /\ farm \in [Jobs -> Farm] /\ run \in [Runs -> Run] /\ auth.at \in Nat
      /\ job \in [Jobs -> {"deposit_pending", "deposit_confirming", "done", "uncertain", "blocked"}]
  BY DEF TypeInv, TypeOK
<1>2. c \in Children /\ j \in Runs
  <2>1. Kids[j] \in Seq(Children) /\ farm[j].at \in 1..Len(Kids[j])
    BY DepositNames DEF FarmChild
  <2> QED BY <2>1 DEF Runs
<1>3. view \in Checkpoints /\ view.nonce \in Nat \cup {None} /\ view.op \in Children \cup {None}
  BY <1>1, <1>2 DEF Farm, Checkpoints
<1>4. EvidenceStep /\ UNCHANGED <<outbox, seen, auth, chain, works, up, faults, requests>>
  BY EvidenceKept DEF FarmChild, chain
<1>5. ASSUME run' = run PROVE RunStep
  BY <1>4, <1>5, StillQuiet DEF FarmChild, evidence, chain, Quiet
<1>6. ASSUME NEW h \in BOOLEAN, NEW d \in BOOLEAN, NEW f \in BOOLEAN, Advance(j, h, d, f),
             UNCHANGED <<job, run>>
      PROVE  TypeInv' /\ Quiet
  BY <1>1, <1>4, <1>5, <1>6, AdvanceType, FarmTyped
<1>7. CASE /\ job' = [job EXCEPT ![j] = "blocked"]
           /\ farm' = [farm EXCEPT ![j] = FarmAt("end")] /\ run' = run
  <2>1. farm' \in [Jobs -> Farm]
    BY <1>1, <1>7, FarmAtType
  <2> QED BY <1>1, <1>4, <1>5, <1>7, <2>1, FarmTyped
<1>8. ASSUME NEW pc \in {"capture", "read"}, NEW n \in Nat \cup {None},
             NEW op \in Children \cup {None}, Call(pc, n, op)
      PROVE  TypeInv' /\ Quiet
  <2>1. new(pc, n, op) \in Run /\ new(pc, n, op).pc = pc /\ new(pc, n, op).child = c
    BY <1>1, <1>2 DEF IdleRun, Run, Places
  <2>2. run' = [run EXCEPT ![j] = new(pc, n, op)]
    BY <1>8
  <2> HIDE DEF new
  <2>3. /\ run' \in [Runs -> Run] /\ run'[j] = new(pc, n, op)
        /\ \A q \in Runs \ {j} : run'[q] = run[q]
    BY <1>1, <1>2, <2>1, <2>2, RunReplaced
  <2>4. RunGood(j)' /\ Disarms(j)
    BY <1>2, <2>1, <2>3 DEF RunGood, Disarms, Armed
  <2>5. RunStep
    BY <1>2, <1>4, <2>3, <2>4, OneMoves
  <2>6. farm' \in [Jobs -> Farm] /\ job' = job
    BY <1>1, <1>8 DEF Farm
  <2> QED BY <1>1, <1>4, <2>5, <2>6, FarmTyped
<1>9. farm[j].hold \in BOOLEAN
  BY <1>1 DEF Farm
<1> QED BY <1>3, <1>6, <1>7, <1>8, <1>9 DEF FarmChild

LEMMA FarmResultQuiet ==
  ASSUME TypeInv, NEW j \in Jobs, FarmResult(j)
  PROVE  TypeInv' /\ Quiet
<1>1. EvidenceStep /\ UNCHANGED <<outbox, seen, auth, chain, works, up, faults, requests>> /\ j \in Runs
  BY EvidenceKept DEF FarmResult, Runs, chain
<1>2. RunStep
  BY <1>1, IdleStep DEF FarmResult
<1>3. farm' \in [Jobs -> Farm]
  BY AdvanceType DEF FarmResult
<1> QED BY <1>1, <1>2, <1>3, FarmTyped DEF FarmResult, TypeInv, TypeOK

LEMMA FarmFinishQuiet ==
  ASSUME TypeInv, NEW j \in Jobs, FarmFinish(j)
  PROVE  TypeInv' /\ Quiet
<1>1. EvidenceStep /\ RunStep /\ UNCHANGED <<outbox, seen, auth, chain, works, up, faults, requests>>
  BY StillQuiet DEF FarmFinish, chain, evidence, Quiet
<1>2. farm' \in [Jobs -> Farm]
  BY FarmAtType DEF FarmFinish, TypeInv, TypeOK
<1>3. job' \in [Jobs -> {"deposit_pending", "deposit_confirming", "done", "uncertain", "blocked"}]
  BY DEF FarmFinish, TypeInv, TypeOK
<1> QED BY <1>1, <1>2, <1>3, FarmTyped

\* A step that changes neither runs nor evidence nor sends.
LEMMA StillTyped ==
  ASSUME TypeInv, UNCHANGED <<log, owner, run, sends, pool>>, TypeOK',
         UNCHANGED <<nonce, mined>> \/ \E op \in pool : Mine(op),
         \A c \in Children : ChildGood(c)'
  PROVE  TypeInv' /\ Quiet
<1>1. Quiet
  BY StillQuiet
<1> QED BY <1>1 DEF TypeInv, Quiet, RunStep, RunTyped

LEMMA ListenerQuiet ==
  ASSUME TypeInv, OpenListener
  PROVE  TypeInv' /\ Quiet
<1>1. TypeOK' /\ UNCHANGED <<log, owner, run, sends, pool, nonce, mined, outbox, seen, work>>
  BY DEF OpenListener, TypeInv, TypeOK, evidence, chain, works
<1>2. \A c \in Children : ChildGood(c)'
  BY <1>1 DEF TypeInv, ChildGood
<1> QED BY <1>1, <1>2, StillTyped

\* A delivery leaves the child's rows and what the index has seen of them
\* within the log, and at most blocks the job.
LEMMA DeliverEffect ==
  ASSUME TypeInv, NEW c \in Children, Deliver(c)
  PROVE  /\ outbox' \in [Children -> Outbox] /\ seen' \in [Children -> Nat]
         /\ \A d \in Children : seen'[d] = seen[d] \/ seen'[d] <= Len(log[d])
         /\ \A d \in Children : seen'[d] >= seen[d]
         /\ job' = job \/ job' = [job EXCEPT ![JobOf(c)] = "blocked"]
<1>1. outbox \in [Children -> Outbox] /\ seen \in [Children -> Nat] /\ Len(log[c]) \in Nat
  BY DEF TypeInv, TypeOK
<1> DEFINE next == outbox[c].done + 1
           applied == IF seen[c] < next THEN next ELSE seen[c]
<1>2. /\ outbox[c] \in Outbox /\ outbox[c].done \in Nat /\ outbox[c].attempts \in Nat
      /\ next \in Nat /\ seen[c] \in Nat /\ applied \in Nat /\ applied >= seen[c]
  BY <1>1 DEF Outbox
<1>3. next <= Len(log[c])
  BY DEF Deliver
<1>4. seen' = seen \/ seen' = [seen EXCEPT ![c] = applied]
  BY DEF Deliver
<1>5. /\ seen' \in [Children -> Nat]
      /\ \A d \in Children : seen'[d] = seen[d] \/ seen'[d] <= Len(log[d])
      /\ \A d \in Children : seen'[d] >= seen[d]
  <2>1. CASE seen' = seen
    BY <1>1, <2>1
  <2>2. CASE seen' = [seen EXCEPT ![c] = applied]
    BY <1>1, <1>2, <1>3, <2>2
  <2> QED BY <1>4, <2>1, <2>2
<1>6. ASSUME markRetry(c) PROVE outbox' \in [Children -> Outbox]
  <2> DEFINE state == IF outbox[c].attempts + 1 >= MaxAttempts THEN "dead" ELSE "pending"
             row == [done |-> outbox[c].done, attempts |-> outbox[c].attempts + 1, state |-> state]
  <2>1. outbox' = [outbox EXCEPT ![c] = row]
    BY <1>1, <1>2, <1>6 DEF markRetry
  <2>2. state \in {"pending", "dead", "conflict"}
    OBVIOUS
  <2> HIDE DEF state
  <2>3. row \in Outbox
    BY <1>2, <2>2 DEF Outbox
  <2> QED BY <1>1, <2>1, <2>3
<1>7. ASSUME markConflict(c)
      PROVE  /\ outbox' \in [Children -> Outbox]
             /\ job' = job \/ job' = [job EXCEPT ![JobOf(c)] = "blocked"]
  <2>1. CASE markRetry(c) /\ job' = job
    BY <1>6, <2>1
  <2>2. CASE /\ outbox' = [outbox EXCEPT ![c].state = "conflict"]
             /\ job' = [job EXCEPT ![JobOf(c)] = "blocked"]
    BY <1>1, <1>2, <2>2 DEF Outbox
  <2> QED BY <1>7, <2>1, <2>2 DEF markConflict
<1>8. CASE outbox' = [outbox EXCEPT ![c].done = next, ![c].attempts = 0] /\ job' = job
  BY <1>1, <1>2, <1>5, <1>8 DEF Outbox
<1>9. CASE outbox' = [outbox EXCEPT ![c].state = "dead"] /\ job' = job
  BY <1>1, <1>2, <1>5, <1>9 DEF Outbox
<1>10. CASE markRetry(c) /\ job' = job
  BY <1>5, <1>6, <1>10
<1>11. CASE markConflict(c)
  BY <1>5, <1>7, <1>11
<1> QED BY <1>8, <1>9, <1>10, <1>11 DEF Deliver

LEMMA DeliverQuiet ==
  ASSUME TypeInv, NEW c \in Children, Deliver(c)
  PROVE  TypeInv' /\ Quiet
<1>1. UNCHANGED <<log, owner, run, sends, pool, nonce, mined, work>>
  BY DEF Deliver, evidence, chain, works
<1>2. TypeOK'
  <2>1. job' \in [Jobs -> {"deposit_pending", "deposit_confirming", "done", "uncertain", "blocked"}]
    <3>1. job \in [Jobs -> {"deposit_pending", "deposit_confirming", "done", "uncertain", "blocked"}]
      BY DEF TypeInv, TypeOK
    <3> QED BY <3>1, DeliverEffect
  <2>2. outbox' \in [Children -> Outbox] /\ seen' \in [Children -> Nat]
    BY DeliverEffect
  <2>3. UNCHANGED <<auth, tokens, farm, up, faults, requests>>
    BY DEF Deliver, works
  <2> QED BY <1>1, <2>1, <2>2, <2>3 DEF TypeInv, TypeOK
<1>3. ASSUME NEW d \in Children PROVE ChildGood(d)'
  <2>1. ChildGood(d) /\ seen[d] \in Nat /\ Len(log[d]) \in Nat /\ seen'[d] \in Nat
    BY DeliverEffect DEF TypeInv, TypeOK
  <2>2. /\ seen'[d] = seen[d] \/ seen'[d] <= Len(log[d])
        /\ seen'[d] >= seen[d]
    BY DeliverEffect
  <2> QED BY <1>1, <2>1, <2>2 DEF ChildGood
<1> QED BY <1>1, <1>2, <1>3, StillTyped

LEMMA RecoverQuiet ==
  ASSUME TypeInv, NEW c \in Children, handleFarmRecover(c)
  PROVE  TypeInv' /\ Quiet
<1> DEFINE row == [state |-> "pending", version |-> seen[c], holder |-> None]
<1>1. seen[c] \in Nat /\ work \in [Children -> Row] /\ requests \in Nat
  BY DEF TypeInv, TypeOK
<1>2. row \in Row /\ row.version = seen[c]
  BY <1>1 DEF Row, WorkStates
<1>3. work' = [work EXCEPT ![c] = row]
  BY DEF handleFarmRecover
<1> HIDE DEF row
<1>4. /\ work' \in [Children -> Row] /\ work'[c] = row /\ \A d \in Children \ {c} : work'[d] = work[d]
      /\ UNCHANGED <<log, owner, run, sends, pool, nonce, mined, outbox, seen>>
  BY <1>1, <1>2, <1>3 DEF handleFarmRecover, evidence, chain
<1>5. TypeOK'
  BY <1>1, <1>4 DEF handleFarmRecover, TypeInv, TypeOK, evidence, chain
<1>6. ASSUME NEW d \in Children PROVE ChildGood(d)'
  <2>1. ChildGood(d) /\ seen[d] \in Nat /\ seen[c] > 0
    BY DEF TypeInv, TypeOK, handleFarmRecover
  <2> QED BY <1>2, <1>4, <2>1 DEF ChildGood
<1> QED BY <1>4, <1>5, <1>6, StillTyped

\* Rows that only lose their holder or change to a state other than pending.
LEMMA RowsKept ==
  ASSUME TypeInv, EvidenceStep, seen' = seen, outbox' = outbox,
         \A c \in Children : /\ work'[c].version = work[c].version
                             /\ work'[c].state = "pending" => work[c].state = "pending"
  PROVE  \A c \in Children : ChildGood(c)'
<1>1. SUFFICES ASSUME NEW c \in Children PROVE ChildGood(c)'
  OBVIOUS
<1>2. ChildGood(c) /\ Len(log[c]) <= Len(log'[c])
  BY DEF TypeInv, EvidenceStep, Grows
<1>3. Len(log[c]) \in Nat /\ Len(log'[c]) \in Nat /\ seen[c] \in Nat /\ work[c].version \in Nat
  BY DEF TypeInv, TypeOK, EvidenceStep, Row
<1> QED BY <1>2, <1>3 DEF ChildGood

LEMMA RowChanged ==
  ASSUME TypeInv, NEW c \in Children, NEW state \in WorkStates \ {"pending"},
         NEW holder \in Workers \cup {None},
         work' = [work EXCEPT ![c].state = state, ![c].holder = holder]
  PROVE  /\ work' \in [Children -> Row]
         /\ \A d \in Children : /\ work'[d].version = work[d].version
                                /\ work'[d].state = "pending" => work[d].state = "pending"
<1> DEFINE row == [work[c] EXCEPT !.state = state, !.holder = holder]
<1>1. work \in [Children -> Row]
  BY DEF TypeInv, TypeOK
<1>2. row \in Row /\ row.version = work[c].version /\ row.state = state
  BY <1>1 DEF Row
<1>3. work' = [work EXCEPT ![c] = row]
  BY <1>1
<1> HIDE DEF row
<1> QED BY <1>1, <1>2, <1>3

LEMMA LeaveRows ==
  ASSUME TypeInv, NEW r \in Runs, run[r].child \in Children,
         NEW state \in WorkStates \ {"pending"}, Leave(r, state)
  PROVE  /\ work' \in [Children -> Row] /\ tokens' \subseteq Children
         /\ \A d \in Children : /\ work'[d].version = work[d].version
                                /\ work'[d].state = "pending" => work[d].state = "pending"
<1>1. CASE Leases(r)
  BY <1>1, RowChanged DEF Leave, TypeInv, TypeOK
<1>2. CASE ~Leases(r)
  BY <1>2 DEF Leave, works, TypeInv, TypeOK
<1> QED BY <1>1, <1>2

\* The steps of a recovery that change rows, runs and evidence.
LEMMA RecoveryTyped ==
  ASSUME TypeInv, EvidenceStep, RunStep, UNCHANGED <<outbox, seen, job, auth, chain, farm, up, faults, requests>>,
         work' \in [Children -> Row], tokens' \subseteq Children,
         \A c \in Children : /\ work'[c].version = work[c].version
                             /\ work'[c].state = "pending" => work[c].state = "pending"
  PROVE  TypeInv' /\ Quiet
<1>1. TypeOK'
  BY DEF TypeInv, TypeOK, EvidenceStep, RunStep, RunTyped, chain
<1>2. \A c \in Children : ChildGood(c)'
  BY RowsKept
<1> QED BY <1>1, <1>2 DEF TypeInv, Quiet, RunStep, RunTyped, chain

LEMMA StartQuiet ==
  ASSUME TypeInv, NEW r \in Workers, NEW c \in Children, StartRecovery(r, c)
  PROVE  TypeInv' /\ Quiet
<1> DEFINE new == [IdleRun EXCEPT !.pc = "gate", !.child = c, !.version = work[c].version]
<1>1. r \in Runs /\ run \in [Runs -> Run] /\ work[c].version \in Nat /\ ChildGood(c)
  BY DEF Runs, TypeInv, TypeOK, Row
<1>2. EvidenceStep
  BY EvidenceKept DEF StartRecovery, chain
<1>3. new \in Run /\ new.pc = "gate" /\ new.child = c /\ new.version = work[c].version
  BY <1>1 DEF IdleRun, Run, Places
<1>4. run' = [run EXCEPT ![r] = new]
  BY DEF StartRecovery
<1> HIDE DEF new
<1>5. run' \in [Runs -> Run] /\ run'[r] = new /\ \A q \in Runs \ {r} : run'[q] = run[q]
  BY <1>1, <1>3, <1>4, RunReplaced
<1>6. work[c].version \in 1..Len(log'[c])
  <2>1. Len(log[c]) \in Nat /\ log' = log
    BY DEF TypeInv, TypeOK, StartRecovery, evidence
  <2>2. work[c].version <= Len(log[c]) /\ work[c].version >= 1
    BY <1>1 DEF ChildGood, StartRecovery
  <2> QED BY <1>1, <2>1, <2>2
<1>7. RunGood(r)' /\ Disarms(r)
  BY <1>3, <1>5, <1>6 DEF RunGood, Disarms, Armed
<1>8. RunStep
  BY <1>1, <1>2, <1>5, <1>7, OneMoves
<1>9. /\ work' \in [Children -> Row]
      /\ \A d \in Children : /\ work'[d].version = work[d].version
                             /\ work'[d].state = "pending" => work[d].state = "pending"
  BY RowChanged DEF StartRecovery, WorkStates
<1> QED BY <1>2, <1>8, <1>9, RecoveryTyped DEF StartRecovery, TypeInv, TypeOK

LEMMA GateQuiet ==
  ASSUME TypeInv, NEW r \in Workers, RecoveryGate(r)
  PROVE  TypeInv' /\ Quiet
<1> DEFINE c == run[r].child
           p == projectBaseDepositOwnerAction(c)
           Stop(state) == Leave(r, state) /\ run' = [run EXCEPT ![r] = IdleRun]
<1>1. /\ r \in Runs /\ run[r].pc = "gate" /\ c \in Children /\ run \in [Runs -> Run]
      /\ RunGood(r)
  BY RunFields DEF Runs, RecoveryGate, TypeInv
<1>2. UNCHANGED <<outbox, seen, job, auth, chain, farm, up, faults, requests>> /\ mined' = mined
  BY DEF RecoveryGate, chain
<1>3. ASSUME EvidenceStep, Stop("held") \/ Stop("over")
      PROVE  TypeInv' /\ Quiet
  <2>1. RunStep
    BY <1>1, <1>3, IdleStep
  <2>2. {"held", "over"} \subseteq WorkStates \ {"pending"}
    BY DEF WorkStates
  <2>3. /\ work' \in [Children -> Row] /\ tokens' \subseteq Children
        /\ \A d \in Children : /\ work'[d].version = work[d].version
                               /\ work'[d].state = "pending" => work[d].state = "pending"
    BY <1>1, <1>3, <2>2, LeaveRows
  <2> QED BY <1>2, <1>3, <2>1, <2>3, RecoveryTyped
<1>4. ASSUME EvidenceStep, RunStep, UNCHANGED works
      PROVE  TypeInv' /\ Quiet
  BY <1>2, <1>4, RecoveryTyped DEF works, TypeInv, TypeOK
<1>5. CASE (Stop("held") \/ Stop("over")) /\ UNCHANGED evidence
  BY <1>2, <1>3, <1>5, EvidenceKept
<1>6. CASE enqueue(c, p) /\ Stop("over")
  <2>1. p \in Checkpoints
    BY CheckpointType DEF projectBaseDepositOwnerAction, States, Reasons
  <2>2. Explained(c, p)
    BY DEF projectBaseDepositOwnerAction, Explained, Checkpoint
  <2> QED BY <1>1, <1>2, <1>3, <1>6, <2>1, <2>2, EnqueueStep
<1>7. CASE Goto(r, "capture") /\ UNCHANGED <<evidence, works>>
  <2>1. EvidenceStep
    BY <1>2, <1>7, EvidenceKept
  <2>2. RunStep
    BY <1>1, <1>7, <2>1, GotoStep DEF Places
  <2> QED BY <1>4, <1>7, <2>1, <2>2
<1>8. CASE /\ run' = [run EXCEPT ![r].pc = "read", ![r].nonce = log[c][run[r].version].nonce,
                                  ![r].op = log[c][run[r].version].op]
           /\ UNCHANGED <<evidence, works>>
  <2> DEFINE e == log[c][run[r].version]
             new == [run[r] EXCEPT !.pc = "read", !.nonce = e.nonce, !.op = e.op]
  <2>1. EvidenceStep
    BY <1>2, <1>8, EvidenceKept
  <2>2. e \in Checkpoints
    BY <1>1 DEF TypeInv, TypeOK, RunGood
  <2>3. run' = [run EXCEPT ![r] = new]
    BY <1>1, <1>8
  <2> HIDE DEF e
  <2>4. e.nonce \in Nat \cup {None} /\ e.op \in Children \cup {None}
    BY <2>2 DEF Checkpoints
  <2>5. new \in Run /\ new.pc = "read" /\ new.child = c
    <3>1. run[r] \in Run /\ "read" \in Places
      BY <1>1, <2>4 DEF Places
    <3>2. new.pc = "read" /\ new.child = c
      BY <3>1 DEF Run
    <3>3. new \in Run
      BY <1>1, <2>4, <3>1 DEF Run
    <3> QED BY <3>2, <3>3
  <2> HIDE DEF new
  <2>6. run' \in [Runs -> Run] /\ run'[r] = new /\ \A q \in Runs \ {r} : run'[q] = run[q]
    BY <1>1, <2>3, <2>5, RunReplaced
  <2>7. RunGood(r)' /\ Disarms(r)
    BY <1>1, <2>5, <2>6 DEF RunGood, Disarms, Armed
  <2> QED BY <1>1, <1>4, <1>8, <2>1, <2>6, <2>7, OneMoves
<1> QED BY <1>5, <1>6, <1>7, <1>8 DEF RecoveryGate

LEMMA ResultQuiet ==
  ASSUME TypeInv, NEW r \in Workers, RecoveryResult(r)
  PROVE  TypeInv' /\ Quiet
<1>1. r \in Runs /\ run[r].child \in Children /\ EvidenceStep
  BY RunFields, EvidenceKept DEF Runs, RecoveryResult, chain
<1>2. RunStep
  BY <1>1, IdleStep DEF RecoveryResult
<1>3. Outcome(r) \in WorkStates \ {"pending"}
  BY DEF Outcome, WorkStates
<1>4. /\ work' \in [Children -> Row] /\ tokens' \subseteq Children
      /\ \A d \in Children : /\ work'[d].version = work[d].version
                             /\ work'[d].state = "pending" => work[d].state = "pending"
  BY <1>1, <1>3, LeaveRows DEF RecoveryResult
<1> QED BY <1>1, <1>2, <1>4, RecoveryTyped DEF RecoveryResult

LEMMA ExpireQuiet ==
  ASSUME TypeInv, NEW c \in Children, ExpireLease(c)
  PROVE  TypeInv' /\ Quiet
<1>1. UNCHANGED <<log, owner, run, sends, pool, nonce, mined, outbox, seen>> /\ EvidenceStep
  BY EvidenceKept DEF ExpireLease, evidence, chain
<1>2. /\ work' \in [Children -> Row]
      /\ \A d \in Children : /\ work'[d].version = work[d].version
                             /\ work'[d].state = "pending" => work[d].state = "pending"
  BY RowChanged DEF ExpireLease, WorkStates
<1>3. TypeOK'
  BY <1>2 DEF ExpireLease, Fault, TypeInv, TypeOK, evidence, chain
<1>4. \A d \in Children : ChildGood(d)'
  BY <1>1, <1>2, RowsKept
<1> QED BY <1>1, <1>3, <1>4, StillTyped

LEMMA MineQuiet ==
  ASSUME TypeInv, NEW op \in pool, Mine(op)
  PROVE  TypeInv' /\ Quiet
<1>1. UNCHANGED <<log, owner, run, sends, pool, outbox, seen, work>>
  BY DEF Mine, evidence, works
<1>2. op.child \in Children /\ op.nonce \in Nat
  BY DEF TypeInv, TypeOK, Ops
<1>3. mined' \subseteq Mined
  BY <1>2, DepositNames DEF Mine, Mined, TypeInv, TypeOK
<1>4. TypeOK'
  BY <1>1, <1>3 DEF Mine, TypeInv, TypeOK, evidence, works
<1>5. \A d \in Children : ChildGood(d)'
  BY <1>1 DEF TypeInv, ChildGood
<1> QED BY <1>1, <1>4, <1>5, StillTyped

LEMMA AuthorityChangeQuiet ==
  ASSUME TypeInv, ChangeAuthority
  PROVE  TypeInv' /\ Quiet
<1>1. UNCHANGED <<log, owner, run, sends, pool, nonce, mined, outbox, seen, work>>
  BY DEF ChangeAuthority, evidence, chain, works
<1>2. TypeOK'
  BY <1>1 DEF ChangeAuthority, Fault, TypeInv, TypeOK, evidence, chain, works
<1>3. \A d \in Children : ChildGood(d)'
  BY <1>1 DEF TypeInv, ChildGood
<1> QED BY <1>1, <1>2, <1>3, StillTyped

LEMMA RestartQuiet ==
  ASSUME TypeInv, Restart
  PROVE  TypeInv' /\ Quiet
<1>1. EvidenceStep /\ UNCHANGED <<log, owner, sends, pool, outbox, seen, job, auth, nonce, mined, requests>>
  BY EvidenceKept DEF Restart, evidence, chain
<1>2. IdleRun \in Run /\ IdleRun.pc = "idle"
  BY DEF IdleRun, Run, Places
<1>3. RunStep
  BY <1>2 DEF Restart, RunStep, RunTyped, RunGood, Disarms, Armed
<1>4. farm' \in [Jobs -> Farm]
  BY FarmAtType DEF Restart
<1>5. ASSUME NEW c \in Children
      PROVE  /\ work'[c] \in Row /\ work'[c].version = work[c].version
             /\ work'[c].state = "pending" => work[c].state = "pending"
  <2>1. work[c] \in Row
    BY DEF TypeInv, TypeOK
  <2> DEFINE row == [work[c] EXCEPT !.state = "held", !.holder = None]
  <2>2. row \in Row /\ row.version = work[c].version /\ row.state = "held"
    BY <2>1 DEF Row, WorkStates
  <2>3. work'[c] = row \/ work'[c] = work[c]
    BY DEF Restart
  <2> HIDE DEF row
  <2> QED BY <2>1, <2>2, <2>3
<1>6. work' \in [Children -> Row]
  <2>1. work' = [c \in Children |-> work'[c]]
    BY DEF Restart
  <2> QED BY <1>5, <2>1
<1>7. TypeOK'
  <2>1. up' \in BOOLEAN /\ tokens' \subseteq Children
    BY DEF Restart
  <2>2. Fault /\ faults \in Nat
    BY DEF Restart, TypeInv, TypeOK
  <2>3. faults' \in Nat
    BY <2>2 DEF Fault
  <2> QED BY <1>1, <1>3, <1>4, <1>6, <2>1, <2>3 DEF TypeInv, TypeOK, RunStep, RunTyped
<1>8. \A c \in Children : ChildGood(c)'
  BY <1>1, <1>5, RowsKept
<1> QED BY <1>1, <1>3, <1>7, <1>8 DEF TypeInv, Quiet, RunStep, RunTyped

-----------------------------------------------------------------------------
(* Nothing is sent twice *)

\* What a log holds it goes on holding.
LEMMA HandleKept ==
  ASSUME TypeInv, EvidenceStep, NEW c \in Children
  PROVE  /\ Recorded(c, "submitting") # {} => Recorded(c, "submitting")' # {}
         /\ \A n : Handle(c, n) => Handle(c, n)'
<1>1. Len(log[c]) \in Nat /\ Len(log'[c]) \in Nat
  BY DEF TypeInv, TypeOK, EvidenceStep
<1>2. \A i \in Recorded(c, "submitting") : i \in Recorded(c, "submitting")' /\ log'[c][i] = log[c][i]
  <2>1. Grows
    BY DEF EvidenceStep
  <2>2. \A i \in 1..Len(log[c]) : i \in 1..Len(log'[c]) /\ log'[c][i] = log[c][i]
    BY <1>1, <2>1 DEF Grows
  <2> QED BY <2>2 DEF Recorded
<1> QED BY <1>2 DEF Handle

\* An entry that is written is the new head, and all others stay.
LEMMA HeadWritten ==
  ASSUME TypeInv, NEW c \in Children, NEW p \in Checkpoints, log'[c] = Append(log[c], p)
  PROVE  /\ Latest(c)' = p /\ Len(log'[c]) = Len(log[c]) + 1 /\ Len(log[c]) \in Nat
         /\ \A i \in 1..Len(log[c]) : log'[c][i] = log[c][i]
<1>1. log[c] \in Seq(Checkpoints)
  BY DEF TypeInv, TypeOK
<1> QED BY <1>1 DEF Latest

LEMMA MintKept ==
  ASSUME TypeInv, MintUnclaimed, EvidenceStep
  PROVE  MintUnclaimed'
<1>1. SUFFICES ASSUME NEW c \in Children, StateOf(c)' = "minted"
               PROVE  \A i \in 1..Len(log'[c]) : log'[c][i].state = "minted"
  BY DEF MintUnclaimed
<1>2. CASE log'[c] = log[c]
  BY <1>1, <1>2 DEF MintUnclaimed, StateOf, Latest
<1>3. ASSUME NEW p \in Checkpoints, Enqueues(c, p), log'[c] = Append(log[c], p) PROVE FALSE
  <2>1. Latest(c)' = p
    BY <1>3, HeadWritten
  <2> QED BY <1>1, <1>3, <2>1 DEF StateOf, Enqueues, allowedTransition
<1> QED BY <1>2, <1>3 DEF EvidenceStep, Justified

LEMMA QuietKeepsSends ==
  ASSUME TypeInv, SendInv, Quiet
  PROVE  SendInv'
<1>1. EvidenceStep /\ sends' = sends /\ pool' = pool /\ \A r \in Runs : Disarms(r)
  BY DEF Quiet, RunStep
<1>2. OneSend'
  BY <1>1 DEF SendInv, OneSend
<1>3. SentRecorded'
  BY <1>1, HandleKept DEF SendInv, SentRecorded
<1>4. ArmedUnsent'
  <2>1. SUFFICES ASSUME NEW r \in Runs, Armed(r)'
                 PROVE  (sends[run[r].child] = 0 /\ Handle(run[r].child, run[r].nonce))'
    BY DEF ArmedUnsent
  <2>2. PICK c, n : c = run[r].child /\ n = run[r].nonce
    OBVIOUS
  <2>3. Armed(r) /\ run'[r].child = c /\ run'[r].nonce = n
    BY <1>1, <2>1, <2>2 DEF Disarms
  <2>4. c \in Children
    BY <2>2, <2>3 DEF TypeInv, RunGood, Armed
  <2>5. sends[c] = 0 /\ Handle(c, n)
    BY <2>2, <2>3 DEF SendInv, ArmedUnsent
  <2>6. Handle(c, n)'
    BY <1>1, <2>4, <2>5, HandleKept
  <2> QED BY <1>1, <2>3, <2>5, <2>6 DEF Handle, Recorded
<1>5. ArmedApart'
  BY <1>1 DEF SendInv, ArmedApart, Disarms
<1>6. PoolRecorded'
  <2>1. SUFFICES ASSUME NEW op \in pool PROVE Handle(op.child, op.nonce)'
    BY <1>1 DEF PoolRecorded
  <2>2. op.child \in Children /\ Handle(op.child, op.nonce)
    BY DEF TypeInv, TypeOK, Ops, SendInv, PoolRecorded
  <2> QED BY <1>1, <2>2, HandleKept
<1> QED BY <1>1, <1>2, <1>3, <1>4, <1>5, <1>6, MintKept DEF SendInv

\* The claim writes the first submitting entry of its child, so nothing was
\* sent for the child and no run is armed for it.
LEMMA ClaimKeepsSends ==
  ASSUME TypeInv, SendInv, NEW r \in Runs, ClaimMade(r)
  PROVE  TypeInv' /\ SendInv'
<1>1. PICK c, n : c = run[r].child /\ n = run[r].nonce
  OBVIOUS
<1>2. /\ TypeInv' /\ EvidenceStep /\ \A q \in Runs \ {r} : run'[q] = run[q]
      /\ run'[r].pc = "encode" /\ run'[r].child = c /\ run'[r].nonce = n
  BY <1>1, ClaimTyped
<1>3. c \in Children /\ sends' = sends /\ pool' = pool
  BY <1>1, RunFields DEF ClaimMade, chain
<1>4. Recorded(c, "submitting") = {}
  BY <1>1 DEF ClaimMade, Enqueues, Submitting, Checkpoint
<1>5. sends[c] = 0
  BY <1>3, <1>4 DEF SendInv, SentRecorded, OneSend, TypeInv, TypeOK
<1>6. \A q \in Runs : Armed(q) => run[q].child # c
  BY <1>4 DEF SendInv, ArmedUnsent, Handle
<1>7. Handle(c, n)'
  <2>1. log[c] \in Seq(Checkpoints) /\ log'[c] = Append(log[c], Submitting(r))
    BY <1>1, <1>3 DEF ClaimMade, TypeInv, TypeOK
  <2>2. Submitting(r) \in Checkpoints /\ Submitting(r).state = "submitting" /\ Submitting(r).nonce = n
    <3>1. n \in Nat \cup {None}
      BY <1>1, RunFields DEF ClaimMade
    <3> QED BY <1>1, <3>1, CheckpointType DEF Submitting, Checkpoint, States, Reasons
  <2>3. /\ Len(log[c]) + 1 \in 1..Len(log'[c]) /\ log'[c][Len(log[c]) + 1] = Submitting(r)
    BY <2>1, <2>2
  <2> QED BY <2>2, <2>3 DEF Handle, Recorded
<1>8. OneSend' /\ SentRecorded'
  BY <1>2, <1>3, HandleKept DEF SendInv, OneSend, SentRecorded
<1>9. ArmedUnsent'
  <2>1. SUFFICES ASSUME NEW q \in Runs, Armed(q)'
                 PROVE  (sends[run[q].child] = 0 /\ Handle(run[q].child, run[q].nonce))'
    BY DEF ArmedUnsent
  <2>2. CASE q = r
    BY <1>2, <1>3, <1>5, <1>7, <2>2 DEF Handle, Recorded
  <2>3. CASE q # r
    <3>1. PICK d, k : d = run[q].child /\ k = run[q].nonce
      OBVIOUS
    <3>2. run'[q].child = d /\ run'[q].nonce = k /\ Armed(q) /\ d \in Children
      BY <1>2, <2>1, <2>3, <3>1 DEF Armed, TypeInv, RunGood
    <3>3. sends[d] = 0 /\ Handle(d, k)
      BY <3>1, <3>2 DEF SendInv, ArmedUnsent
    <3>4. Handle(d, k)'
      BY <1>2, <3>2, <3>3, HandleKept
    <3> QED BY <1>3, <3>2, <3>3, <3>4 DEF Handle, Recorded
  <2> QED BY <2>2, <2>3
<1>10. ArmedApart'
  BY <1>2, <1>6 DEF SendInv, ArmedApart, Armed
<1>11. PoolRecorded'
  <2>1. SUFFICES ASSUME NEW op \in pool PROVE Handle(op.child, op.nonce)'
    BY <1>3 DEF PoolRecorded
  <2>2. op.child \in Children /\ Handle(op.child, op.nonce)
    BY DEF TypeInv, TypeOK, Ops, SendInv, PoolRecorded
  <2> QED BY <1>2, <2>2, HandleKept
<1> QED BY <1>2, <1>8, <1>9, <1>10, <1>11, MintKept DEF SendInv

\* The send uses up the right of the only armed run of its child.
LEMMA SendKeepsSends ==
  ASSUME TypeInv, SendInv, NEW r \in Runs, SendUserOperation(r)
  PROVE  TypeInv' /\ SendInv'
<1>1. PICK c, n : c = run[r].child /\ n = run[r].nonce
  OBVIOUS
<1>2. TypeInv' /\ EvidenceStep /\ (\A q \in Runs \ {r} : run'[q] = run[q]) /\ ~Armed(r)'
  BY SendTyped
<1>3. Armed(r) /\ c \in Children
  BY <1>1, RunFields DEF SendUserOperation, Armed
<1>4. sends[c] = 0 /\ Handle(c, n) /\ sends \in [Children -> Nat]
  BY <1>1, <1>3 DEF SendInv, ArmedUnsent, TypeInv, TypeOK
<1>5. /\ sends' = [sends EXCEPT ![c] = @ + 1]
      /\ pool' \subseteq pool \cup {[child |-> c, nonce |-> n]}
  BY <1>1 DEF SendUserOperation
<1>6. OneSend'
  BY <1>4, <1>5 DEF SendInv, OneSend
<1>7. Handle(c, n)'
  BY <1>2, <1>3, <1>4, HandleKept
<1>8. SentRecorded'
  <2>1. SUFFICES ASSUME NEW d \in Children, sends'[d] >= 1 PROVE Recorded(d, "submitting")' # {}
    BY DEF SentRecorded
  <2>2. CASE d = c
    BY <1>7, <2>2 DEF Handle
  <2>3. CASE d # c
    BY <1>2, <1>4, <1>5, <2>1, <2>3, HandleKept DEF SendInv, SentRecorded
  <2> QED BY <2>2, <2>3
<1>9. ArmedUnsent'
  <2>1. SUFFICES ASSUME NEW q \in Runs, Armed(q)'
                 PROVE  (sends[run[q].child] = 0 /\ Handle(run[q].child, run[q].nonce))'
    BY DEF ArmedUnsent
  <2>2. PICK d, k : d = run[q].child /\ k = run[q].nonce
    OBVIOUS
  <2>3. q # r /\ run'[q].child = d /\ run'[q].nonce = k /\ Armed(q) /\ d \in Children
    BY <1>2, <2>1, <2>2 DEF Armed, TypeInv, RunGood
  <2>4. d # c
    BY <1>1, <1>3, <2>2, <2>3 DEF SendInv, ArmedApart
  <2>5. sends[d] = 0 /\ Handle(d, k)
    BY <2>2, <2>3 DEF SendInv, ArmedUnsent
  <2>6. Handle(d, k)' /\ sends'[d] = 0
    BY <1>2, <1>4, <1>5, <2>3, <2>4, <2>5, HandleKept
  <2> QED BY <2>3, <2>6 DEF Handle, Recorded
<1>10. ArmedApart'
  BY <1>2 DEF SendInv, ArmedApart, Armed
<1>11. PoolRecorded'
  <2>1. SUFFICES ASSUME NEW op \in pool' PROVE Handle(op.child, op.nonce)'
    BY DEF PoolRecorded
  <2>2. CASE op \in pool
    BY <1>2, <2>2, HandleKept DEF TypeInv, TypeOK, Ops, SendInv, PoolRecorded
  <2>3. CASE op = [child |-> c, nonce |-> n]
    BY <1>7, <2>3
  <2> QED BY <1>5, <2>2, <2>3
<1> QED BY <1>2, <1>6, <1>8, <1>9, <1>10, <1>11, MintKept DEF SendInv

-----------------------------------------------------------------------------
(* What a final state rests on *)

\* After the mint every entry of a log has the handle of the head.
SameHandle ==
  \A c \in Children : \A i \in 1..Len(log[c]) :
    log[c][i].state # "minted" => log[c][i].nonce = Latest(c).nonce

NonceKnown ==
  \A c \in Children : StateOf(c) \in {"submitting", "submitted"} => Latest(c).nonce \in Nat

Backed(c) == \E m \in mined : m.ok /\ Terms[m.child] = Terms[c]
ConfirmedBacked == \A c \in Children : StateOf(c) = "confirmed" => Backed(c)

\* The kernel account executes one accepted operation for each nonce.
MinedOnce ==
  /\ \A m \in mined : m.nonce < nonce /\ [child |-> m.child, nonce |-> m.nonce] \in pool
  /\ \A k, m \in mined : k.nonce = m.nonce => k = m
PoolSent == \A op \in pool : sends[op.child] >= 1

NeverSent(c) == sends[c] = 0 /\ \A r \in Runs : Armed(r) => run[r].child # c
Reverted(c) == \E m \in mined : ~m.ok /\ m.nonce = Latest(c).nonce

\* A child that failed or is blocked was not and will not be sent, or the
\* operation that used up its nonce has reverted.
FinalGood == \A c \in Children : StateOf(c) \in {"failed", "blocked"} => NeverSent(c) \/ Reverted(c)

FinalInv == SameHandle /\ NonceKnown /\ ConfirmedBacked /\ MinedOnce /\ PoolSent /\ FinalGood

LEMMA EntriesKept ==
  ASSUME TypeInv, MintUnclaimed, SameHandle, NonceKnown, ConfirmedBacked, EvidenceStep
  PROVE  SameHandle' /\ NonceKnown' /\ ConfirmedBacked'
<1>1. SUFFICES ASSUME NEW c \in Children
      PROVE  /\ \A i \in 1..Len(log'[c]) :
                  log'[c][i].state # "minted" => log'[c][i].nonce = Latest(c)'.nonce
             /\ StateOf(c)' \in {"submitting", "submitted"} => Latest(c)'.nonce \in Nat
             /\ StateOf(c)' = "confirmed" => \E m \in mined' : m.ok /\ Terms[m.child] = Terms[c]
  BY DEF SameHandle, NonceKnown, ConfirmedBacked, Backed
<1>2. CASE log'[c] = log[c]
  <2>1. Latest(c)' = Latest(c) /\ StateOf(c)' = StateOf(c) /\ mined \subseteq mined'
    BY <1>2 DEF Latest, StateOf, EvidenceStep
  <2> QED BY <1>2, <2>1 DEF SameHandle, NonceKnown, ConfirmedBacked, Backed
<1>3. ASSUME NEW p \in Checkpoints, Enqueues(c, p), Explained(c, p), log'[c] = Append(log[c], p)
      PROVE  /\ \A i \in 1..Len(log'[c]) :
                  log'[c][i].state # "minted" => log'[c][i].nonce = Latest(c)'.nonce
             /\ StateOf(c)' \in {"submitting", "submitted"} => Latest(c)'.nonce \in Nat
             /\ StateOf(c)' = "confirmed" => \E m \in mined' : m.ok /\ Terms[m.child] = Terms[c]
  <2>1. /\ Latest(c)' = p /\ Len(log'[c]) = Len(log[c]) + 1 /\ Len(log[c]) \in Nat
        /\ \A i \in 1..Len(log[c]) : log'[c][i] = log[c][i]
    BY <1>3, HeadWritten
  <2>2. StateOf(c)' = p.state /\ log'[c][Len(log[c]) + 1] = p
    BY <2>1 DEF StateOf, Latest
  <2>3. \A i \in 1..Len(log[c]) : log[c][i].state # "minted" => log[c][i].nonce = p.nonce
    BY <1>3 DEF Enqueues, SameHandle, MintUnclaimed, StateOf
  <2>4. \A i \in 1..Len(log'[c]) : i \in 1..Len(log[c]) \/ i = Len(log[c]) + 1
    BY <2>1
  <2>5. \A i \in 1..Len(log'[c]) :
          log'[c][i].state # "minted" => log'[c][i].nonce = Latest(c)'.nonce
    BY <2>1, <2>2, <2>3, <2>4
  <2>6. StateOf(c)' \in {"submitting", "submitted"} => Latest(c)'.nonce \in Nat
    BY <1>3, <2>1, <2>2 DEF Explained
  <2>7. StateOf(c)' = "confirmed" => \E m \in mined' : m.ok /\ Terms[m.child] = Terms[c]
    BY <1>3, <2>2 DEF Explained, EvidenceStep
  <2> QED BY <2>5, <2>6, <2>7
<1> QED BY <1>2, <1>3 DEF EvidenceStep, Justified

LEMMA MineKeepsOnce ==
  ASSUME TypeInv, MinedOnce, NEW op \in pool, Mine(op)
  PROVE  MinedOnce'
<1>1. op \in Ops /\ op.nonce = nonce /\ nonce \in Nat /\ nonce' = nonce + 1 /\ pool' = pool
  BY DEF Mine, TypeInv, TypeOK
<1>2. PICK new : mined' = mined \cup {new} /\ new.child = op.child /\ new.nonce = op.nonce
  <2>1. PICK ok \in BOOLEAN, late \in Lateness :
          mined' = mined \cup {[child |-> op.child, nonce |-> op.nonce, ok |-> ok, late |-> late]}
    BY DEF Mine
  <2> DEFINE m == [child |-> op.child, nonce |-> op.nonce, ok |-> ok, late |-> late]
  <2>2. mined' = mined \cup {m} /\ m.child = op.child /\ m.nonce = op.nonce
    BY <2>1
  <2> QED BY <2>2
<1>3. op = [child |-> op.child, nonce |-> op.nonce]
  BY <1>1 DEF Ops
<1>4. \A m \in mined : m.nonce \in Nat /\ m.nonce < nonce
  BY DEF TypeInv, TypeOK, Mined, MinedOnce
<1>5. \A m \in mined' : m.nonce < nonce' /\ [child |-> m.child, nonce |-> m.nonce] \in pool'
  <2>1. ASSUME NEW m \in mined
        PROVE  m.nonce < nonce' /\ [child |-> m.child, nonce |-> m.nonce] \in pool'
    BY <1>1, <1>4 DEF MinedOnce
  <2>2. new.nonce < nonce' /\ [child |-> new.child, nonce |-> new.nonce] \in pool'
    BY <1>1, <1>2, <1>3
  <2> QED BY <1>2, <2>1, <2>2
<1>6. \A m \in mined : m.nonce # new.nonce
  BY <1>1, <1>2, <1>4
<1>7. \A k, m \in mined' : k.nonce = m.nonce => k = m
  BY <1>2, <1>6 DEF MinedOnce
<1> QED BY <1>5, <1>7 DEF MinedOnce

\* An entry failed or blocked that is written by a quiet step is good.
LEMMA FinalWritten ==
  ASSUME TypeInv, SendInv, NonceKnown, Quiet, NEW c \in Children, NEW p \in Checkpoints,
         Enqueues(c, p), Explained(c, p), p.state \in {"failed", "blocked"}, Latest(c)' = p
  PROVE  NeverSent(c)' \/ Reverted(c)'
<1>1. EvidenceStep /\ sends' = sends /\ \A r \in Runs : Disarms(r)
  BY DEF Quiet, RunStep
<1>2. CASE \E m \in mined : ~m.ok /\ m.nonce = p.nonce
  BY <1>1, <1>2 DEF EvidenceStep, Reverted
<1>3. ASSUME NEW r \in Runs, Armed(r), run[r].child = c, ~Armed(r)' PROVE NeverSent(c)'
  <2>1. sends[c] = 0
    BY <1>3 DEF SendInv, ArmedUnsent
  <2>2. ASSUME NEW q \in Runs, Armed(q)' PROVE run'[q].child # c
    BY <1>1, <1>3, <2>2 DEF Disarms, SendInv, ArmedApart
  <2> QED BY <1>1, <2>1, <2>2 DEF NeverSent
<1>4. CASE p.state = "blocked"
  <2>1. p.nonce = None /\ None \notin Nat
    BY <1>4, DepositNames DEF Explained
  <2>2. StateOf(c) = "minted"
    BY <1>4, <2>1 DEF Enqueues, allowedTransition, NonceKnown, StateOf
  <2>3. Recorded(c, "submitting") = {}
    BY <2>2 DEF SendInv, MintUnclaimed, Recorded
  <2>4. sends[c] = 0
    BY <2>3 DEF SendInv, SentRecorded, OneSend, TypeInv, TypeOK
  <2>5. \A r \in Runs : Armed(r) => run[r].child # c
    BY <2>3 DEF SendInv, ArmedUnsent, Handle
  <2> QED BY <1>1, <2>4, <2>5 DEF NeverSent, Disarms
<1> QED BY <1>2, <1>3, <1>4 DEF Explained

\* A final child stays good while its log is left alone.
LEMMA FinalStays ==
  ASSUME FinalGood, NEW c \in Children, StateOf(c)' \in {"failed", "blocked"}, log'[c] = log[c],
         mined \subseteq mined', NeverSent(c) => NeverSent(c)'
  PROVE  NeverSent(c)' \/ Reverted(c)'
<1>1. Latest(c)' = Latest(c) /\ StateOf(c) \in {"failed", "blocked"}
  BY DEF Latest, StateOf
<1> QED BY <1>1 DEF FinalGood, Reverted

LEMMA QuietKeepsFinal ==
  ASSUME TypeInv, SendInv, FinalInv, Quiet
  PROVE  FinalInv'
<1>1. EvidenceStep /\ sends' = sends /\ pool' = pool /\ \A r \in Runs : Disarms(r)
  BY DEF Quiet, RunStep
<1>2. SameHandle' /\ NonceKnown' /\ ConfirmedBacked'
  BY <1>1, EntriesKept DEF FinalInv, SendInv
<1>3. MinedOnce'
  <2>1. CASE UNCHANGED <<nonce, mined>>
    BY <1>1, <2>1 DEF FinalInv, MinedOnce
  <2> QED BY <2>1, MineKeepsOnce DEF Quiet, FinalInv
<1>4. PoolSent'
  BY <1>1 DEF FinalInv, PoolSent
<1>5. FinalGood'
  <2>1. SUFFICES ASSUME NEW c \in Children, StateOf(c)' \in {"failed", "blocked"}
                 PROVE  NeverSent(c)' \/ Reverted(c)'
    BY DEF FinalGood
  <2>2. CASE log'[c] = log[c]
    <3>1. NeverSent(c) => NeverSent(c)'
      BY <1>1 DEF NeverSent, Disarms
    <3> QED BY <1>1, <2>1, <2>2, <3>1, FinalStays DEF EvidenceStep, FinalInv
  <2>3. ASSUME NEW p \in Checkpoints, Enqueues(c, p), Explained(c, p), log'[c] = Append(log[c], p)
        PROVE  NeverSent(c)' \/ Reverted(c)'
    <3>1. Latest(c)' = p /\ p.state \in {"failed", "blocked"}
      BY <2>1, <2>3, HeadWritten DEF StateOf
    <3> QED BY <2>3, <3>1, FinalWritten DEF FinalInv
  <2> QED BY <1>1, <2>2, <2>3 DEF EvidenceStep, Justified
<1> QED BY <1>2, <1>3, <1>4, <1>5 DEF FinalInv

LEMMA ClaimKeepsFinal ==
  ASSUME TypeInv, SendInv, FinalInv, NEW r \in Runs, ClaimMade(r)
  PROVE  FinalInv'
<1>1. PICK c : c = run[r].child
  OBVIOUS
<1>2. /\ EvidenceStep /\ \A q \in Runs \ {r} : run'[q] = run[q]
      /\ run'[r].child = c /\ c \in Children
  BY <1>1, ClaimTyped, RunFields DEF ClaimMade
<1>3. UNCHANGED <<nonce, sends, pool, mined>> /\ log \in [Children -> Seq(Checkpoints)]
  BY DEF ClaimMade, chain, TypeInv, TypeOK
<1>4. SameHandle' /\ NonceKnown' /\ ConfirmedBacked'
  BY <1>2, EntriesKept DEF FinalInv, SendInv
<1>5. MinedOnce' /\ PoolSent'
  BY <1>3 DEF FinalInv, MinedOnce, PoolSent
<1>6. StateOf(c)' = "submitting"
  <2>1. Submitting(r) \in Checkpoints /\ Submitting(r).state = "submitting"
    <3>1. run[r].nonce \in Nat \cup {None}
      BY RunFields DEF ClaimMade
    <3> QED BY <3>1, CheckpointType DEF Submitting, Checkpoint, States, Reasons
  <2>2. log'[c] = Append(log[c], Submitting(r))
    BY <1>1, <1>2, <1>3 DEF ClaimMade
  <2> QED BY <1>2, <2>1, <2>2, HeadWritten DEF StateOf
<1>7. FinalGood'
  <2>1. SUFFICES ASSUME NEW d \in Children, StateOf(d)' \in {"failed", "blocked"}
                 PROVE  NeverSent(d)' \/ Reverted(d)'
    BY DEF FinalGood
  <2>2. d # c
    BY <1>6, <2>1
  <2>3. log'[d] = log[d]
    BY <1>1, <1>3, <2>2 DEF ClaimMade
  <2>4. NeverSent(d) => NeverSent(d)'
    BY <1>2, <1>3, <2>2 DEF NeverSent, Armed
  <2> QED BY <1>3, <2>1, <2>3, <2>4, FinalStays DEF FinalInv
<1> QED BY <1>4, <1>5, <1>7 DEF FinalInv

LEMMA SendKeepsFinal ==
  ASSUME TypeInv, SendInv, FinalInv, NEW r \in Runs, SendUserOperation(r)
  PROVE  FinalInv'
<1>1. PICK c, n : c = run[r].child /\ n = run[r].nonce
  OBVIOUS
<1>2. EvidenceStep /\ (\A q \in Runs \ {r} : run'[q] = run[q]) /\ ~Armed(r)'
  BY SendTyped
<1>3. Armed(r) /\ c \in Children /\ n \in Nat \cup {None}
  BY <1>1, RunFields DEF SendUserOperation, Armed
<1>4. /\ sends' = [sends EXCEPT ![c] = @ + 1] /\ pool \subseteq pool'
      /\ pool' \subseteq pool \cup {[child |-> c, nonce |-> n]}
      /\ UNCHANGED <<nonce, mined>> /\ sends \in [Children -> Nat]
      /\ log \in [Children -> Seq(Checkpoints)] /\ pool \subseteq Ops
  BY <1>1 DEF SendUserOperation, TypeInv, TypeOK
<1>5. SameHandle' /\ NonceKnown' /\ ConfirmedBacked'
  BY <1>2, EntriesKept DEF FinalInv, SendInv
<1>6. MinedOnce'
  BY <1>4 DEF FinalInv, MinedOnce
<1>7. PoolSent'
  <2>1. sends'[c] >= 1 /\ \A d \in Children : sends[d] >= 1 => sends'[d] >= 1
    BY <1>3, <1>4
  <2>2. \A op \in pool : op.child \in Children /\ sends[op.child] >= 1
    BY <1>4 DEF Ops, FinalInv, PoolSent
  <2> QED BY <1>4, <2>1, <2>2 DEF PoolSent
<1>8. ASSUME NEW d \in Children, StateOf(d)' \in {"failed", "blocked"} PROVE log'[d] = log[d]
  <2> DEFINE u == Checkpoint("unknown", n, None, "none")
  <2>1. u \in Checkpoints /\ u.state = "unknown"
    BY <1>3, CheckpointType DEF Checkpoint, States, Reasons
  <2>2. log' = log \/ log' = [log EXCEPT ![c] = Append(@, u)]
    BY <1>1 DEF SendUserOperation, enqueueOwned, Appended, evidence
  <2> HIDE DEF u
  <2>3. CASE log'[c] = Append(log[c], u) /\ d = c
    <3>1. Latest(c)' = u
      BY <1>3, <2>1, <2>3, HeadWritten
    <3> QED BY <1>8, <2>1, <2>3, <3>1 DEF StateOf
  <2> QED BY <1>3, <1>4, <2>2, <2>3
<1>9. FinalGood'
  <2>1. SUFFICES ASSUME NEW d \in Children, StateOf(d)' \in {"failed", "blocked"}
                 PROVE  NeverSent(d)' \/ Reverted(d)'
    BY DEF FinalGood
  <2>2. log'[d] = log[d]
    BY <1>8, <2>1
  <2>3. NeverSent(d) => NeverSent(d)'
    <3>1. SUFFICES ASSUME NeverSent(d) PROVE NeverSent(d)'
      OBVIOUS
    <3>2. d # c
      BY <1>1, <1>3, <3>1 DEF NeverSent
    <3> QED BY <1>2, <1>3, <1>4, <3>1, <3>2 DEF NeverSent, Armed
  <2> QED BY <1>4, <2>1, <2>2, <2>3, FinalStays DEF FinalInv
<1> QED BY <1>5, <1>6, <1>7, <1>9 DEF FinalInv

-----------------------------------------------------------------------------
(* What the boot's run of a job concludes *)

\* The boot trusts its first reading of a child, and the result of its calls.
FarmGood(j) ==
  /\ \A c \in Children : farm[j].view[c].state = "confirmed" => Backed(c)
  /\ farm[j].full => \A i \in 1..Len(Kids[j]) : i < farm[j].at => Backed(Kids[j][i])
  /\ farm[j].pc = "child" =>
       /\ run[j].child = Kids[j][farm[j].at]
       /\ run[j].pc = "result" /\ run[j].result = "fulfilled" => Backed(run[j].child)
  /\ job[j] = "done" => \A i \in 1..Len(Kids[j]) : Backed(Kids[j][i])

FarmInv == \A j \in Jobs : FarmGood(j)

\* Run r keeps its child, and is fulfilled only for a reason.
Moves(r) ==
  /\ \A q \in Runs \ {r} : run'[q] = run[q]
  /\ run'[r].child = run[r].child
  /\ run'[r].pc = "result" /\ run'[r].result = "fulfilled" => Backed(run[r].child)

LEMMA EndsMoves ==
  ASSUME TypeInv, NEW r \in Runs, NEW result, Ends(r, result),
         result = "fulfilled" => Backed(run[r].child)
  PROVE  Moves(r)
<1>1. run \in [Runs -> Run]
  BY DEF TypeInv, TypeOK
<1>2. /\ \A q \in Runs \ {r} : run'[q] = run[q]
      /\ run'[r].child = run[r].child /\ run'[r].result = result
  BY <1>1 DEF Ends, IdleRun
<1> QED BY <1>2 DEF Moves

LEMMA DispatchMoves ==
  ASSUME TypeInv, NEW r \in Runs, Dispatch(r)
  PROVE  Moves(r) /\ UNCHANGED <<farm, job, mined>>
<1>0. run \in [Runs -> Run]
  BY DEF TypeInv, TypeOK
<1>1. CASE captureReconcileHandle(r)
  <2>1. ASSUME run' = [run EXCEPT ![r].pc = "authority", ![r].nonce = nonce]
        PROVE  Moves(r)
    <3> DEFINE new == [run[r] EXCEPT !.pc = "authority", !.nonce = nonce]
    <3>1. run' = [run EXCEPT ![r] = new]
      BY <1>0, <2>1
    <3>2. new.child = run[r].child /\ new.pc # "result"
      BY <1>0 DEF Run
    <3> HIDE DEF new
    <3>3. run'[r] = new /\ \A q \in Runs \ {r} : run'[q] = run[q]
      BY <1>0, <3>1
    <3> QED BY <3>2, <3>3 DEF Moves
  <2> QED BY <1>1, <2>1, EndsMoves DEF captureReconcileHandle, chain
<1>2. CASE onBeforeClaimSubmitting(r)
  <2>1. ASSUME run' = [run EXCEPT ![r].pc = "claim", ![r].snapshot = auth.at]
        PROVE  Moves(r)
    <3> DEFINE new == [run[r] EXCEPT !.pc = "claim", !.snapshot = auth.at]
    <3>1. run' = [run EXCEPT ![r] = new]
      BY <1>0, <2>1
    <3>2. new.child = run[r].child /\ new.pc # "result"
      BY <1>0 DEF Run
    <3> HIDE DEF new
    <3>3. run'[r] = new /\ \A q \in Runs \ {r} : run'[q] = run[q]
      BY <1>0, <3>1
    <3> QED BY <3>2, <3>3 DEF Moves
  <2> QED BY <1>2, <2>1, EndsMoves DEF onBeforeClaimSubmitting, chain
<1>3. CASE claimAuthorizedSubmission(r)
  <2>1. ASSUME run' = [run EXCEPT ![r].pc = "encode", ![r].token = TRUE]
        PROVE  Moves(r)
    <3> DEFINE new == [run[r] EXCEPT !.pc = "encode", !.token = TRUE]
    <3>1. run' = [run EXCEPT ![r] = new]
      BY <1>0, <2>1
    <3>2. new.child = run[r].child /\ new.pc # "result"
      BY <1>0 DEF Run
    <3> HIDE DEF new
    <3>3. run'[r] = new /\ \A q \in Runs \ {r} : run'[q] = run[q]
      BY <1>0, <3>1
    <3> QED BY <3>2, <3>3 DEF Moves
  <2> QED BY <1>3, <2>1, ClaimCases, EndsMoves DEF ClaimMade, ClaimRefused, Aside, chain
<1>4. ASSUME NEW pc, pc # "result", Goto(r, pc) PROVE Moves(r)
  BY <1>0, <1>4 DEF Goto, Moves, Run
<1>5. CASE EncodeCalls(r)
  BY <1>4, <1>5, EndsMoves DEF EncodeCalls, chain
<1>6. CASE onBeforeSend(r)
  BY <1>4, <1>6, EndsMoves DEF onBeforeSend, chain
<1>7. CASE SendUserOperation(r)
  <2>1. ASSUME run' = [run EXCEPT ![r].pc = "submitted", ![r].op = run[r].child]
        PROVE  Moves(r)
    <3> DEFINE new == [run[r] EXCEPT !.pc = "submitted", !.op = run[r].child]
    <3>1. run' = [run EXCEPT ![r] = new]
      BY <1>0, <2>1
    <3>2. new.child = run[r].child /\ new.pc # "result"
      BY <1>0 DEF Run
    <3> HIDE DEF new
    <3>3. run'[r] = new /\ \A q \in Runs \ {r} : run'[q] = run[q]
      BY <1>0, <3>1
    <3> QED BY <3>2, <3>3 DEF Moves
  <2> QED BY <1>7, <2>1, EndsMoves DEF SendUserOperation
<1>8. CASE CheckpointSubmitted(r)
  <2>1. ASSUME run' = [run EXCEPT ![r].pc = "receipt", ![r].token = FALSE]
        PROVE  Moves(r)
    <3> DEFINE new == [run[r] EXCEPT !.pc = "receipt", !.token = FALSE]
    <3>1. run' = [run EXCEPT ![r] = new]
      BY <1>0, <2>1
    <3>2. new.child = run[r].child /\ new.pc # "result"
      BY <1>0 DEF Run
    <3> HIDE DEF new
    <3>3. run'[r] = new /\ \A q \in Runs \ {r} : run'[q] = run[q]
      BY <1>0, <3>1
    <3> QED BY <3>2, <3>3 DEF Moves
  <2> QED BY <1>8, <2>1, EndsMoves DEF CheckpointSubmitted, chain
<1>9. CASE AwaitReceipt(r)
  <2>1. ASSUME NEW m \in MinedOf(run[r].child), m.ok PROVE Backed(run[r].child)
    BY <2>1 DEF MinedOf, Backed
  <2> QED BY <1>9, <2>1, EndsMoves DEF AwaitReceipt, chain
<1>10. CASE readBaseDepositEvidence(r)
  <2>1. ASSUME NEW m, run' = [run EXCEPT ![r].pc = "apply", ![r].found = m] PROVE Moves(r)
    <3> DEFINE new == [run[r] EXCEPT !.pc = "apply", !.found = m]
    <3>1. run' = [run EXCEPT ![r] = new]
      BY <1>0, <2>1
    <3>2. new.child = run[r].child /\ new.pc # "result"
      BY <1>0 DEF Run
    <3> HIDE DEF new
    <3>3. run'[r] = new /\ \A q \in Runs \ {r} : run'[q] = run[q]
      BY <1>0, <3>1
    <3> QED BY <3>2, <3>3 DEF Moves
  <2> QED BY <1>10, <2>1, EndsMoves DEF readBaseDepositEvidence, chain
<1>11. CASE reconcileBaseDeposit(r)
  <2>1. run[r].found \in mined
    BY <1>11 DEF reconcileBaseDeposit, TypeInv, RunGood
  <2>2. run[r].found.ok /\ SameTerms(run[r].found, run[r].child) => Backed(run[r].child)
    BY <2>1 DEF SameTerms, Backed
  <2>3. (IF Forward(r) THEN "uncertain" ELSE "held") # "fulfilled"
    OBVIOUS
  <2> QED BY <1>11, <2>2, <2>3, EndsMoves DEF reconcileBaseDeposit, chain
<1> QED BY <1>1, <1>2, <1>3, <1>5, <1>6, <1>7, <1>8, <1>9, <1>10, <1>11 DEF Dispatch

LEMMA BackedKept ==
  ASSUME mined \subseteq mined', NEW c, Backed(c)
  PROVE  Backed(c)'
BY DEF Backed

\* A job whose farm run the step leaves alone.
LEMMA FarmStays ==
  ASSUME mined \subseteq mined', NEW j \in Jobs, FarmGood(j),
         farm'[j] = farm[j], job'[j] = job[j],
         farm[j].pc = "child" => Moves(j) \/ run'[j] = run[j]
  PROVE  FarmGood(j)'
<1>1. \A c : Backed(c) => Backed(c)'
  BY BackedKept
<1>2. \A c \in Children : farm'[j].view[c].state = "confirmed" => Backed(c)'
  BY <1>1 DEF FarmGood
<1>3. farm'[j].full => \A i \in 1..Len(Kids[j]) : i < farm'[j].at => Backed(Kids[j][i])'
  BY <1>1 DEF FarmGood
<1>4. ASSUME farm'[j].pc = "child"
      PROVE  /\ run'[j].child = Kids[j][farm'[j].at]
             /\ run'[j].pc = "result" /\ run'[j].result = "fulfilled" => Backed(run[j].child)'
  <2>1. PICK d : d = run[j].child
    OBVIOUS
  <2>2. run'[j].child = d /\ (run'[j].pc = "result" /\ run'[j].result = "fulfilled" => Backed(d))
    BY <1>4, <2>1 DEF FarmGood, Moves
  <2>3. Backed(d) => Backed(d)'
    BY <1>1
  <2> QED BY <1>4, <2>1, <2>2, <2>3 DEF FarmGood, Backed
<1>5. job'[j] = "done" => \A i \in 1..Len(Kids[j]) : Backed(Kids[j][i])'
  BY <1>1 DEF FarmGood
<1> QED BY <1>2, <1>3, <1>4, <1>5 DEF FarmGood

LEMMA AdvanceFields ==
  ASSUME TypeInv, NEW j \in Jobs, NEW hold, NEW doubt, NEW full \in BOOLEAN,
         Advance(j, hold, doubt, full)
  PROVE  /\ \A k \in Jobs \ {j} : farm'[k] = farm[k]
         /\ farm'[j].pc = "loop" /\ farm'[j].at = farm[j].at + 1 /\ farm[j].at \in Nat
         /\ farm'[j].view = farm[j].view /\ (farm'[j].full <=> farm[j].full /\ full)
<1>1. farm \in [Jobs -> Farm] /\ farm[j] \in Farm
  BY DEF TypeInv, TypeOK
<1> DEFINE f == farm[j]
           new == [f EXCEPT !.pc = "loop", !.at = f.at + 1, !.hold = f.hold \/ hold,
                            !.doubt = f.doubt \/ doubt, !.full = f.full /\ full]
<1>2. farm' = [farm EXCEPT ![j] = new]
  BY <1>1 DEF Advance
<1>3. /\ new.pc = "loop" /\ new.at = f.at + 1 /\ f.at \in Nat
      /\ new.view = f.view /\ new.full = (f.full /\ full)
  BY <1>1 DEF Farm
<1> HIDE DEF new
<1>4. farm'[j] = new /\ \A k \in Jobs \ {j} : farm'[k] = farm[k]
  BY <1>1, <1>2
<1> QED BY <1>3, <1>4

\* The run of job j goes on to its next child.
LEMMA AdvanceGood ==
  ASSUME TypeInv, NEW j \in Jobs, FarmGood(j), NEW hold, NEW doubt, NEW full \in BOOLEAN,
         Advance(j, hold, doubt, full), UNCHANGED <<job, mined>>,
         full => Backed(Kids[j][farm[j].at])
  PROVE  FarmGood(j)'
<1>1. /\ farm'[j].pc = "loop" /\ farm'[j].at = farm[j].at + 1 /\ farm[j].at \in Nat
      /\ farm'[j].view = farm[j].view /\ (farm'[j].full <=> farm[j].full /\ full)
  BY AdvanceFields
<1>2. \A c : Backed(c) => Backed(c)'
  BY BackedKept
<1>3. ASSUME farm'[j].full, NEW i \in 1..Len(Kids[j]), i < farm'[j].at PROVE Backed(Kids[j][i])'
  <2>1. Len(Kids[j]) \in Nat
    BY DepositNames
  <2>2. i < farm[j].at \/ i = farm[j].at
    BY <1>1, <1>3, <2>1
  <2>3. i < farm[j].at => Backed(Kids[j][i])
    BY <1>1, <1>3 DEF FarmGood
  <2> QED BY <1>1, <1>2, <1>3, <2>2, <2>3
<1>4. job'[j] = "done" => \A i \in 1..Len(Kids[j]) : Backed(Kids[j][i])'
  BY <1>2 DEF FarmGood
<1>5. \A c \in Children : farm'[j].view[c].state = "confirmed" => Backed(c)'
  BY <1>1, <1>2 DEF FarmGood
<1> QED BY <1>1, <1>3, <1>4, <1>5 DEF FarmGood

\* A job that the boot has not started, or is done with.
LEMMA FreshGood ==
  ASSUME NEW j \in Jobs, NEW pc \in {"start", "end"}, farm'[j] = FarmAt(pc),
         job'[j] = "done" => \A i \in 1..Len(Kids[j]) : Backed(Kids[j][i])'
  PROVE  FarmGood(j)'
<1>1. farm'[j].pc # "child" /\ farm'[j].at = 1
  BY DEF FarmAt
<1>2. \A c \in Children : farm'[j].view[c].state = "minted"
  BY DEF FarmAt, Checkpoint
<1>3. \A i \in 1..Len(Kids[j]) : ~(i < 1)
  BY DepositNames
<1> QED BY <1>1, <1>2, <1>3 DEF FarmGood

LEMMA FarmChildGood ==
  ASSUME TypeInv, NEW j \in Jobs, FarmGood(j), FarmChild(j)
  PROVE  /\ \A k \in Jobs \ {j} : farm'[k] = farm[k] /\ job'[k] = job[k] /\ run'[k] = run[k]
         /\ FarmGood(j)' /\ mined' = mined
<1> DEFINE c == Kids[j][farm[j].at]
           view == farm[j].view[c]
           new(pc, n, op) == [IdleRun EXCEPT !.pc = pc, !.child = c, !.nonce = n, !.op = op,
                                             !.snapshot = auth.at]
           Call(pc, n, op) == /\ run' = [run EXCEPT ![j] = new(pc, n, op)]
                              /\ farm' = [farm EXCEPT ![j].pc = "child"]
                              /\ job' = job
           Others == \A k \in Jobs \ {j} : farm'[k] = farm[k] /\ job'[k] = job[k] /\ run'[k] = run[k]
<1>1. /\ farm \in [Jobs -> Farm] /\ run \in [Runs -> Run] /\ mined' = mined
      /\ job \in [Jobs -> {"deposit_pending", "deposit_confirming", "done", "uncertain", "blocked"}]
      /\ Jobs \subseteq Runs
  BY DEF TypeInv, TypeOK, FarmChild, chain, Runs
<1>2. c \in Children
  <2>1. Kids[j] \in Seq(Children) /\ farm[j].at \in 1..Len(Kids[j])
    BY DepositNames DEF FarmChild
  <2> QED BY <2>1
<1>3. ASSUME NEW h, NEW d, NEW f \in BOOLEAN, Advance(j, h, d, f), UNCHANGED <<job, run>>,
             f => view.state = "confirmed"
      PROVE  Others /\ FarmGood(j)'
  <2>1. f => Backed(c)
    BY <1>2, <1>3 DEF FarmGood
  <2> QED BY <1>1, <1>3, <2>1, AdvanceFields, AdvanceGood
<1>4. ASSUME job' = [job EXCEPT ![j] = "blocked"], farm' = [farm EXCEPT ![j] = FarmAt("end")],
             run' = run
      PROVE  Others /\ FarmGood(j)'
  <2>1. farm'[j] = FarmAt("end") /\ job'[j] = "blocked" /\ Others
    BY <1>1, <1>4
  <2> QED BY <2>1, FreshGood
<1>5. ASSUME NEW pc, pc # "result", NEW n, NEW op, Call(pc, n, op) PROVE Others /\ FarmGood(j)'
  <2>1. new(pc, n, op).child = c /\ new(pc, n, op).pc = pc
    BY DEF IdleRun
  <2>2. run'[j] = new(pc, n, op) /\ Others
    BY <1>1, <1>5
  <2> HIDE DEF new
  <2>3. /\ farm'[j].pc = "child" /\ farm'[j].at = farm[j].at /\ farm'[j].view = farm[j].view
        /\ farm'[j].full = farm[j].full
    BY <1>1, <1>5 DEF Farm
  <2>4. \A d : Backed(d) => Backed(d)'
    BY <1>1, BackedKept
  <2>5. run'[j].child = Kids[j][farm'[j].at] /\ run'[j].pc # "result"
    BY <1>5, <2>1, <2>2, <2>3
  <2> QED BY <1>5, <2>2, <2>3, <2>4, <2>5 DEF FarmGood
<1>6. ASSUME NEW h, NEW d, Advance(j, h, d, FALSE), UNCHANGED <<job, run>>
      PROVE  Others /\ FarmGood(j)'
  BY <1>3, <1>6
<1>7. ASSUME view.state = "confirmed", Advance(j, FALSE, FALSE, TRUE), UNCHANGED <<job, run>>
      PROVE  Others /\ FarmGood(j)'
  BY <1>3, <1>7
<1> HIDE DEF Call, Others
<1>8. /\ Call("capture", None, None) => Others /\ FarmGood(j)'
      /\ Call("read", view.nonce, view.op) => Others /\ FarmGood(j)'
  BY <1>5
<1>9. \/ view.state = "confirmed" /\ Advance(j, FALSE, FALSE, TRUE) /\ UNCHANGED <<job, run>>
      \/ Advance(j, TRUE, ~farm[j].hold, FALSE) /\ UNCHANGED <<job, run>>
      \/ Advance(j, TRUE, FALSE, FALSE) /\ UNCHANGED <<job, run>>
      \/ /\ job' = [job EXCEPT ![j] = "blocked"]
         /\ farm' = [farm EXCEPT ![j] = FarmAt("end")] /\ run' = run
      \/ Call("capture", None, None) \/ Call("read", view.nonce, view.op)
  BY DEF FarmChild, Call
<1> QED BY <1>1, <1>4, <1>6, <1>7, <1>8, <1>9 DEF Others

LEMMA FarmStepGood ==
  ASSUME TypeInv, ConfirmedBacked, NEW j \in Jobs, FarmGood(j), FarmStep(j)
  PROVE  /\ \A k \in Jobs \ {j} : farm'[k] = farm[k] /\ job'[k] = job[k] /\ run'[k] = run[k]
         /\ FarmGood(j)' /\ mined' = mined
<1>1. /\ farm \in [Jobs -> Farm] /\ run \in [Runs -> Run] /\ Jobs \subseteq Runs
      /\ job \in [Jobs -> {"deposit_pending", "deposit_confirming", "done", "uncertain", "blocked"}]
  BY DEF TypeInv, TypeOK, Runs
<1>2. ASSUME mined' = mined PROVE \A c : Backed(c) => Backed(c)'
  BY <1>2, BackedKept
<1>3. CASE FarmStart(j)
  <2> DEFINE view == [c \in Children |-> Latest(c)]
             new == [farm[j] EXCEPT !.pc = "loop", !.view = view]
  <2>1. /\ farm' = [farm EXCEPT ![j] = new] /\ job' = [job EXCEPT ![j] = "deposit_confirming"]
        /\ run' = run /\ mined' = mined
    BY <1>1, <1>3 DEF FarmStart, chain
  <2>2. /\ new.pc = "loop" /\ new.at = farm[j].at /\ new.full = farm[j].full /\ new.view = view
    BY <1>1 DEF Farm
  <2>3. \A c \in Children : view[c].state = "confirmed" => Backed(c)
    BY DEF ConfirmedBacked, StateOf
  <2> HIDE DEF view, new
  <2>4. farm'[j] = new /\ job'[j] = "deposit_confirming"
    BY <1>1, <2>1
  <2>5. FarmGood(j)'
    BY <1>2, <2>1, <2>2, <2>3, <2>4 DEF FarmGood
  <2> QED BY <1>1, <2>1, <2>5
<1>4. CASE FarmResult(j)
  <2> DEFINE ok == run[j].result = "fulfilled"
  <2>1. /\ Advance(j, ~ok, run[j].result = "uncertain", ok) /\ ok \in BOOLEAN
        /\ run' = [run EXCEPT ![j] = IdleRun] /\ UNCHANGED <<job, mined>>
    BY <1>4 DEF FarmResult, chain
  <2>2. ok => Backed(Kids[j][farm[j].at])
    BY <1>4 DEF FarmResult, FarmGood
  <2> HIDE DEF ok
  <2>3. FarmGood(j)'
    BY <2>1, <2>2, AdvanceGood
  <2> QED BY <1>1, <2>1, <2>3, AdvanceFields
<1>5. CASE FarmFinish(j)
  <2>1. /\ farm' = [farm EXCEPT ![j] = FarmAt("end")] /\ UNCHANGED <<run, mined>>
        /\ job' = [job EXCEPT ![j] = IF farm[j].full THEN "done"
                                     ELSE IF farm[j].doubt THEN "uncertain" ELSE @]
        /\ farm[j].at > Len(Kids[j])
    BY <1>5 DEF FarmFinish, chain
  <2>2. farm'[j] = FarmAt("end") /\ (job'[j] = "done" => farm[j].full \/ job[j] = "done")
    BY <1>1, <2>1
  <2>3. Len(Kids[j]) \in Nat /\ farm[j].at \in Nat
    BY <1>1, DepositNames DEF Farm
  <2>4. farm[j].full => \A i \in 1..Len(Kids[j]) : Backed(Kids[j][i])
    BY <2>1, <2>3 DEF FarmGood
  <2>5. job'[j] = "done" => \A i \in 1..Len(Kids[j]) : Backed(Kids[j][i])'
    BY <1>2, <2>1, <2>2, <2>4 DEF FarmGood
  <2>6. FarmGood(j)'
    BY <2>2, <2>5, FreshGood
  <2> QED BY <1>1, <2>1, <2>6
<1> QED BY <1>3, <1>4, <1>5, FarmChildGood DEF FarmStep

LEMMA FarmInvKept ==
  ASSUME TypeInv, ConfirmedBacked, FarmInv, [Next]_vars
  PROVE  FarmInv'
<1>0. Jobs \subseteq Runs /\ \A j \in Jobs : FarmGood(j)
  BY DEF Runs, FarmInv
<1>1. ASSUME NEW r \in Runs, Dispatch(r) PROVE FarmInv'
  <2>1. Moves(r) /\ UNCHANGED <<farm, job, mined>>
    BY <1>1, DispatchMoves
  <2>2. ASSUME NEW j \in Jobs PROVE FarmGood(j)'
    <3>1. Moves(j) \/ run'[j] = run[j]
      BY <1>0, <2>1 DEF Moves
    <3> QED BY <1>0, <2>1, <3>1, FarmStays
  <2> QED BY <2>2 DEF FarmInv
<1>2. ASSUME NEW j \in Jobs, FarmStep(j) PROVE FarmInv'
  <2>1. /\ \A k \in Jobs \ {j} : farm'[k] = farm[k] /\ job'[k] = job[k] /\ run'[k] = run[k]
        /\ FarmGood(j)' /\ mined' = mined
    BY <1>0, <1>2, FarmStepGood
  <2>2. \A k \in Jobs \ {j} : FarmGood(k)'
    BY <1>0, <2>1, FarmStays
  <2> QED BY <2>1, <2>2 DEF FarmInv
<1>3. ASSUME UNCHANGED <<farm, job>>, mined \subseteq mined', \A j \in Jobs : run'[j] = run[j]
      PROVE  FarmInv'
  BY <1>0, <1>3, FarmStays DEF FarmInv
<1>4. ASSUME NEW c \in Children, Deliver(c) \/ handleFarmRecover(c) \/ ExpireLease(c) PROVE FarmInv'
  <2>1. CASE handleFarmRecover(c) \/ ExpireLease(c)
    BY <1>3, <2>1 DEF handleFarmRecover, ExpireLease, chain
  <2>2. CASE Deliver(c)
    <3>1. UNCHANGED <<farm, mined, run>>
      BY <2>2 DEF Deliver, chain
    <3>2. \A j \in Jobs : job'[j] = "done" => job[j] = "done"
      <4>1. DOMAIN job = Jobs
        BY DEF TypeInv, TypeOK
      <4> QED BY <2>2, <4>1, DeliverEffect
    <3>3. ASSUME NEW j \in Jobs PROVE FarmGood(j)'
      BY <1>0, <3>1, <3>2 DEF FarmGood, Backed
    <3> QED BY <3>3 DEF FarmInv
  <2> QED BY <1>4, <2>1, <2>2
<1>5. ASSUME NEW r \in Workers, RecoveryStep(r) \/ \E c \in Children : StartRecovery(r, c)
      PROVE  FarmInv'
  <2>1. r \notin Jobs /\ run \in [Runs -> Run]
    BY DepositNames DEF TypeInv, TypeOK
  <2>2. UNCHANGED <<farm, job, mined>>
    BY <1>5 DEF RecoveryStep, RecoveryGate, RecoveryResult, StartRecovery, chain
  <2>3. \A q \in Runs \ {r} : run'[q] = run[q]
    <3>1. CASE RecoveryGate(r)
      BY <2>1, <3>1 DEF RecoveryGate, Goto
    <3>2. CASE RecoveryResult(r)
      BY <2>1, <3>2 DEF RecoveryResult
    <3>3. CASE \E c \in Children : StartRecovery(r, c)
      BY <2>1, <3>3 DEF StartRecovery
    <3> QED BY <1>5, <3>1, <3>2, <3>3 DEF RecoveryStep
  <2> QED BY <1>0, <1>3, <2>1, <2>2, <2>3
<1>6. ASSUME OpenListener \/ (\E op \in pool : Mine(op)) \/ ChangeAuthority \/ UNCHANGED vars
      PROVE  FarmInv'
  BY <1>3, <1>6 DEF OpenListener, Mine, ChangeAuthority, vars, chain
<1>7. CASE Restart
  <2>1. UNCHANGED <<job, mined>>
    BY <1>7 DEF Restart, chain
  <2>2. ASSUME NEW j \in Jobs PROVE FarmGood(j)'
    <3>1. PICK pc \in {"start", "end"} : farm'[j] = FarmAt(pc)
      BY <1>7 DEF Restart
    <3>2. job'[j] = "done" => \A i \in 1..Len(Kids[j]) : Backed(Kids[j][i])'
      BY <1>0, <2>1, BackedKept DEF FarmGood
    <3> QED BY <3>1, <3>2, FreshGood
  <2> QED BY <2>2 DEF FarmInv
<1> QED BY <1>1, <1>2, <1>4, <1>5, <1>6, <1>7 DEF Next

-----------------------------------------------------------------------------
(* Theorems *)

Inv == TypeInv /\ SendInv /\ FinalInv /\ FarmInv

LEMMA InitInv ==
  ASSUME Init
  PROVE  Inv
<1>1. Checkpoint("minted", None, None, "none") \in Checkpoints
  BY CheckpointType DEF States, Reasons
<1> DEFINE mint == Checkpoint("minted", None, None, "none")
<1>2. /\ log = [c \in Children |-> <<mint>>] /\ mint \in Checkpoints /\ mint.state = "minted"
  BY <1>1 DEF Init, Checkpoint
<1> HIDE DEF mint
<1>3. log \in [Children -> Seq(Checkpoints)]
  BY <1>2
<1>4. ASSUME NEW c \in Children
      PROVE  /\ Len(log[c]) = 1 /\ Recorded(c, "submitting") = {} /\ StateOf(c) = "minted"
             /\ \A i \in 1..Len(log[c]) : log[c][i].state = "minted"
  <2>1. log[c] = <<mint>>
    BY <1>2
  <2>2. Len(log[c]) = 1 /\ \A i \in 1..1 : log[c][i] = mint
    BY <2>1
  <2> QED BY <1>2, <2>2 DEF Recorded, StateOf, Latest
<1>5. IdleRun \in Run /\ IdleRun.pc = "idle"
  BY DEF IdleRun, Run, Places
<1>6. run = [r \in Runs |-> IdleRun] /\ farm = [j \in Jobs |-> FarmAt("start")]
  BY DEF Init
<1>7. farm \in [Jobs -> Farm] /\ run \in [Runs -> Run]
  BY <1>5, <1>6, FarmAtType
<1>8. /\ work \in [Children -> Row]
      /\ \A c \in Children : work[c].version = 0 /\ work[c].state = "none"
  BY DEF Init, Row, WorkStates
<1>9. TypeOK
  <2>1. outbox \in [Children -> Outbox]
    BY DEF Init, Outbox
  <2> QED BY <1>3, <1>7, <1>8, <2>1 DEF Init, TypeOK
<1>10. \A r \in Runs : RunGood(r) /\ ~Armed(r)
  BY <1>5, <1>6 DEF RunGood, Armed
<1>11. \A c \in Children : ChildGood(c)
  <2>1. SUFFICES ASSUME NEW c \in Children PROVE ChildGood(c)
    OBVIOUS
  <2>2. seen[c] = 0
    BY DEF Init
  <2>3. Len(log[c]) = 1 /\ work[c].version = 0 /\ work[c].state # "pending"
    BY <1>4, <1>8
  <2> QED BY <2>2, <2>3 DEF ChildGood
<1>12. SendInv
  <2>1. sends = [c \in Children |-> 0] /\ pool = {}
    BY DEF Init
  <2> QED BY <1>4, <1>10, <2>1 DEF SendInv, OneSend, SentRecorded, ArmedUnsent, ArmedApart,
                                   PoolRecorded, MintUnclaimed
<1>13. FinalInv
  <2>1. sends = [c \in Children |-> 0] /\ pool = {} /\ mined = {}
    BY DEF Init
  <2>2. SameHandle /\ NonceKnown /\ ConfirmedBacked /\ FinalGood
    BY <1>4 DEF SameHandle, NonceKnown, ConfirmedBacked, FinalGood
  <2> QED BY <2>1, <2>2 DEF FinalInv, MinedOnce, PoolSent
<1>14. FarmInv
  <2>1. SUFFICES ASSUME NEW j \in Jobs PROVE FarmGood(j)
    BY DEF FarmInv
  <2>2. farm[j] = FarmAt("start") /\ job[j] # "done"
    BY <1>6 DEF Init
  <2>3. farm[j].pc = "start" /\ farm[j].at = 1
    BY <2>2 DEF FarmAt
  <2>4. \A c \in Children : farm[j].view[c].state = "minted"
    <3>1. farm[j].view = [c \in Children |-> mint]
      BY <2>2 DEF FarmAt, mint
    <3> QED BY <1>2, <3>1
  <2>5. \A i \in 1..Len(Kids[j]) : ~(i < 1)
    BY DepositNames
  <2> QED BY <2>2, <2>3, <2>4, <2>5 DEF FarmGood
<1> QED BY <1>9, <1>10, <1>11, <1>12, <1>13, <1>14 DEF Inv, TypeInv

\* Every step is quiet, makes a claim or sends.
LEMMA StepKinds ==
  ASSUME TypeInv, [Next]_vars
  PROVE  \/ TypeInv' /\ Quiet
         \/ \E r \in Runs : ClaimMade(r) \/ SendUserOperation(r)
<1>1. ASSUME NEW r \in Runs, Dispatch(r)
      PROVE  \/ TypeInv' /\ Quiet
             \/ ClaimMade(r) \/ SendUserOperation(r)
  BY <1>1, PlainQuiet, ClaimCases, RefusalQuiet DEF Dispatch, Plain
<1>2. ASSUME NEW j \in Jobs, FarmStep(j) PROVE TypeInv' /\ Quiet
  BY <1>2, FarmStartQuiet, FarmChildQuiet, FarmResultQuiet, FarmFinishQuiet DEF FarmStep
<1>3. ASSUME NEW c \in Children, Deliver(c) \/ handleFarmRecover(c) \/ ExpireLease(c)
      PROVE  TypeInv' /\ Quiet
  BY <1>3, DeliverQuiet, RecoverQuiet, ExpireQuiet
<1>4. ASSUME NEW r \in Workers, RecoveryStep(r) PROVE TypeInv' /\ Quiet
  BY <1>4, GateQuiet, ResultQuiet DEF RecoveryStep
<1>5. ASSUME UNCHANGED vars PROVE TypeInv' /\ Quiet
  <2>1. UNCHANGED <<log, owner, run, sends, pool, nonce, mined, outbox, seen, work>> /\ TypeOK'
    BY <1>5 DEF vars, TypeInv, TypeOK
  <2>2. \A c \in Children : ChildGood(c)'
    BY <2>1 DEF TypeInv, ChildGood
  <2> QED BY <2>1, <2>2, StillTyped
<1> QED BY <1>1, <1>2, <1>3, <1>4, <1>5, ListenerQuiet, StartQuiet, MineQuiet,
           AuthorityChangeQuiet, RestartQuiet DEF Next

LEMMA InvKept ==
  ASSUME Inv, [Next]_vars
  PROVE  Inv'
<1>1. TypeInv /\ SendInv /\ FinalInv /\ FarmInv
  BY DEF Inv
<1>2. TypeInv' /\ SendInv'
  BY <1>1, StepKinds, QuietKeepsSends, ClaimKeepsSends, SendKeepsSends
<1>3. FinalInv'
  BY <1>1, StepKinds, QuietKeepsFinal, ClaimKeepsFinal, SendKeepsFinal
<1>4. FarmInv'
  BY <1>1, FarmInvKept DEF FinalInv
<1> QED BY <1>2, <1>3, <1>4 DEF Inv

LEMMA InvHolds == Spec => []Inv
BY InitInv, InvKept, PTL DEF Spec

\* Every reachable state is well formed: logs, rows, runs and operations.
THEOREM DepositTypes == Spec => []TypeOK
<1>1. Inv => TypeOK
  BY DEF Inv, TypeInv
<1> QED BY <1>1, InvHolds, PTL

\* However often the relayer crashes, loses a lease or is asked to recover,
\* sendUserOperation is called at most once for a child.
THEOREM SentAtMostOnce == Spec => []OneSend
<1>1. Inv => OneSend
  BY DEF Inv, SendInv
<1> QED BY <1>1, InvHolds, PTL

\* Every operation the bundler took left its nonce in its child's log first.
THEOREM EverySendTraceable == Spec => []SendsTraceable
<1>1. Inv => SendsTraceable
  BY DEF Inv, SendInv, PoolRecorded, SendsTraceable, Handle
<1> QED BY <1>1, InvHolds, PTL

\* A child recorded failed or blocked has not deposited: nothing was sent for
\* it, or the chain gave its nonce to an operation that reverted.
THEOREM FailureIsFinal == Spec => []FailedIsFinal
<1>1. ASSUME Inv PROVE FailedIsFinal
  <2>1. SUFFICES ASSUME NEW c \in Children, StateOf(c) \in {"failed", "blocked"},
                        NEW m \in mined, m.child = c, m.ok
                 PROVE  FALSE
    BY DEF FailedIsFinal, Deposited
  <2>2. [child |-> c, nonce |-> m.nonce] \in pool
    BY <1>1, <2>1 DEF Inv, FinalInv, MinedOnce
  <2>3. sends[c] >= 1 /\ Handle(c, m.nonce)
    BY <1>1, <2>2 DEF Inv, FinalInv, PoolSent, SendInv, PoolRecorded
  <2>4. m.nonce = Latest(c).nonce
    BY <1>1, <2>3 DEF Inv, FinalInv, SameHandle, Handle, Recorded
  <2>5. PICK k \in mined : ~k.ok /\ k.nonce = Latest(c).nonce
    BY <1>1, <2>1, <2>3 DEF Inv, FinalInv, FinalGood, NeverSent, Reverted
  <2>6. k = m
    BY <1>1, <2>4, <2>5 DEF Inv, FinalInv, MinedOnce
  <2> QED BY <2>1, <2>5, <2>6
<1> QED BY <1>1, InvHolds, PTL

\* A confirmation rests on an operation of the kernel account that deposited
\* on the child's terms, and so does a job that is done.  When no two children
\* of the mandate have the same terms, that operation is the child's own.
THEOREM OwnConfirmations ==
  ASSUME \A c, d \in Children : Terms[c] = Terms[d] => c = d
  PROVE  Spec => []ConfirmedOwn
<1>1. ASSUME Inv PROVE ConfirmedOwn
  <2>1. ASSUME NEW c \in Children, Backed(c) PROVE Deposited(c)
    BY <1>1, <2>1 DEF Backed, Deposited, Inv, TypeInv, TypeOK, Mined
  <2>2. ASSUME NEW j \in Jobs, NEW i \in 1..Len(Kids[j]) PROVE Kids[j][i] \in Children
    <3>1. Kids[j] \in Seq(Children)
      BY DepositNames
    <3> QED BY <3>1
  <2> QED BY <1>1, <2>1, <2>2
          DEF ConfirmedOwn, Inv, FinalInv, ConfirmedBacked, FarmInv, FarmGood
<1> QED BY <1>1, InvHolds, PTL

\* The mandate is revoked, nothing was sent for c and no run is armed for it.
Revoked(c) ==
  /\ ~auth.active /\ sends[c] = 0
  /\ \A r \in Runs : Armed(r) => run[r].child # c

\* A mandate that was revoked stays revoked.
LEMMA AuthorityStays ==
  ASSUME [Next]_vars
  PROVE  auth' = auth \/ auth.active
<1>1. ASSUME NEW r \in Runs, Dispatch(r) PROVE auth' = auth
  <2>1. CASE Plain(r)
    BY <2>1, PlainAside DEF Aside
  <2>2. CASE claimAuthorizedSubmission(r)
    BY <2>2, ClaimCases DEF ClaimRefused, ClaimMade, Aside
  <2>3. CASE SendUserOperation(r)
    BY <2>3 DEF SendUserOperation
  <2> QED BY <1>1, <2>1, <2>2, <2>3 DEF Dispatch, Plain
<1>2. ASSUME NEW j \in Jobs, FarmStep(j) PROVE auth' = auth
  BY <1>2 DEF FarmStep, FarmStart, FarmChild, FarmResult, FarmFinish
<1>3. ASSUME NEW c \in Children, Deliver(c) \/ handleFarmRecover(c) \/ ExpireLease(c)
      PROVE  auth' = auth
  BY <1>3 DEF Deliver, handleFarmRecover, ExpireLease
<1>4. ASSUME NEW r \in Workers, RecoveryStep(r) \/ \E c \in Children : StartRecovery(r, c)
      PROVE  auth' = auth
  BY <1>4 DEF RecoveryStep, RecoveryGate, RecoveryResult, StartRecovery
<1>5. ASSUME OpenListener \/ Restart \/ (\E op \in pool : Mine(op)) \/ UNCHANGED vars
      PROVE  auth' = auth
  BY <1>5 DEF OpenListener, Restart, Mine, vars
<1>6. ASSUME ChangeAuthority PROVE auth.active
  BY <1>6 DEF ChangeAuthority
<1> QED BY <1>1, <1>2, <1>3, <1>4, <1>5, <1>6 DEF Next

LEMMA RevokedKept ==
  ASSUME TypeInv, NEW c \in Children, Revoked(c), [Next]_vars
  PROVE  Revoked(c)'
<1>1. ~auth'.active
  BY AuthorityStays DEF Revoked
<1>2. CASE Quiet
  BY <1>1, <1>2 DEF Revoked, Quiet, RunStep, Disarms
<1>3. ASSUME NEW r \in Runs, ClaimMade(r) PROVE FALSE
  BY <1>3 DEF ClaimMade, Revoked
<1>4. ASSUME NEW r \in Runs, SendUserOperation(r) PROVE Revoked(c)'
  <2>1. Armed(r) /\ run[r].child # c
    BY <1>4 DEF SendUserOperation, Armed, Revoked
  <2>2. sends'[c] = sends[c]
    BY <1>4, <2>1 DEF SendUserOperation, TypeInv, TypeOK
  <2>3. (\A q \in Runs \ {r} : run'[q] = run[q]) /\ ~Armed(r)'
    BY <1>4, SendTyped
  <2> QED BY <1>1, <2>2, <2>3 DEF Revoked, Armed
<1> QED BY <1>2, <1>3, <1>4, StepKinds

\* A child that was not claimed when the mandate was revoked is never sent,
\* although runs read the authority long before they claim.
THEOREM RevokedNeverSent == Spec => RevokedStaysUnsent
<1>1. SUFFICES ASSUME NEW c \in Children
               PROVE  Spec => [](~auth.active /\ StateOf(c) = "minted" => [](sends[c] = 0))
  BY DEF RevokedStaysUnsent
<1>2. Inv /\ ~auth.active /\ StateOf(c) = "minted" => Revoked(c)
  <2>1. SUFFICES ASSUME Inv, ~auth.active, StateOf(c) = "minted" PROVE Revoked(c)
    OBVIOUS
  <2>2. Recorded(c, "submitting") = {}
    BY <2>1 DEF Inv, SendInv, MintUnclaimed, Recorded
  <2>3. sends[c] = 0
    BY <2>1, <2>2 DEF Inv, SendInv, SentRecorded, OneSend, TypeInv, TypeOK
  <2>4. \A r \in Runs : Armed(r) => run[r].child # c
    BY <2>1, <2>2 DEF Inv, SendInv, ArmedUnsent, Handle
  <2> QED BY <2>1, <2>3, <2>4 DEF Revoked
<1>3. Inv /\ Revoked(c) /\ [Next]_vars => Revoked(c)'
  BY RevokedKept DEF Inv
<1>4. Revoked(c) => sends[c] = 0
  BY DEF Revoked
<1> QED BY <1>2, <1>3, <1>4, InvHolds, PTL DEF Spec
=============================================================================
