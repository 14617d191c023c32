--------------------------- MODULE CctpRelayProofs --------------------------
(***************************************************************************)
(* Proofs about CctpRelay for every number of rows, workers and processes. *)
(*                                                                         *)
(* A burn is sent at most once because the right to send is only created   *)
(* by crossing the fence, a row crosses the fence only from a state in     *)
(* which nothing was sent and nobody may send, and no transition leads     *)
(* back to such a state.  Terminal rows are stable because they hold no    *)
(* lease and every other transition needs one.                             *)
(*                                                                         *)
(* The second half proves that the records are true of the chain and that  *)
(* the relay implements MintLedger, from what a lease holder knows (Inv2). *)
(***************************************************************************)
EXTENDS CctpRelay, TLAPS

Unfenced(r) == r.state \in {"absent", "attestation_pending", "attested"}

Sending(w, e) == call[w].pc = "send" /\ call[w].exec = e

\* A call that works on a row names it.
ExecKnown == \A w \in Workers : call[w].pc \notin {"idle", "sweep"} => call[w].exec \in Execs

\* Before the fence nothing was sent and nobody is about to send.
UnsentBeforeFence ==
  \A e \in Execs : Unfenced(rec[e]) => sends[e] = 0 /\ \A w \in Workers : ~Sending(w, e)

\* At most one call is about to send for a row, and nothing was sent yet.
OneTicket ==
  \A e \in Execs, w \in Workers : Sending(w, e) =>
    sends[e] = 0 /\ \A v \in Workers : Sending(v, e) => v = w

SentOnce == \A e \in Execs : sends[e] <= 1

BurnsDistinct ==
  \A e, f \in Execs : e # f /\ rec[e].state # "absent" /\ rec[f].state # "absent"
                        => ~SameBurn(rec[e].intent, rec[f].intent)

\* Only an open row can be leased.
Open(r) == r.state # "absent" /\ ~Terminal(r)

OnlyOpenLeased == \A e \in Execs : rec[e].lease # None => Open(rec[e])

Inv ==
  /\ TypeOK /\ ExecKnown /\ UnsentBeforeFence /\ OneTicket /\ SentOnce
  /\ BurnsDistinct /\ OnlyOpenLeased

-----------------------------------------------------------------------------
\* What any transition of an existing row may do.
Evolves(r, s) ==
  /\ s.intent = r.intent
  /\ (s.state = "absent") = (r.state = "absent")
  /\ Unfenced(s) => Unfenced(r)
  /\ Terminal(r) => s = r
  /\ s.lease # None => Open(s)

\* A step that sends nothing, issues no right to send and accepts no row.
Quiet ==
  /\ rec' \in [Execs -> Row] /\ call' \in [Workers -> Call]
  /\ ExecKnown'
  /\ \A e \in Execs : Evolves(rec[e], rec'[e])
  /\ \A w \in Workers : call'[w].pc = "send" => call'[w] = call[w]
  /\ sends' = sends

\* What a step must preserve: the invariant and every terminal row.
Stable == \A e \in Execs : Terminal(rec[e]) => rec'[e] = rec[e]

Kept == Inv' /\ Stable

LEMMA QuietKeepsInv ==
  ASSUME Inv, Quiet, TypeOK'
  PROVE  Kept
<1>1. UnsentBeforeFence'
  BY DEF Inv, Quiet, UnsentBeforeFence, Evolves, Sending
<1>2. OneTicket'
  BY DEF Inv, Quiet, OneTicket, Sending
<1>3. SentOnce'
  BY DEF Inv, Quiet, SentOnce
<1>4. BurnsDistinct'
  BY DEF Inv, Quiet, BurnsDistinct, Evolves, SameBurn
<1>5. OnlyOpenLeased'
  BY DEF Inv, Quiet, OnlyOpenLeased, Evolves
<1>6. Stable
  BY DEF Quiet, Stable, Evolves
<1> QED
  BY <1>1, <1>2, <1>3, <1>4, <1>5, <1>6 DEF Inv, Quiet, Kept

\* The transitions of one row, as used by the actions below.
LEMMA UnleasedEvolves ==
  ASSUME NEW r \in Row, r.lease # None => Open(r)
  PROVE  /\ Unleased(r) \in Row /\ Evolves(r, r)
         /\ Open(r) => Evolves(r, Unleased(r))
<1>1. Unleased(r) \in Row
  BY DEF Row, Unleased
<1>2. /\ Unleased(r).lease = None /\ Unleased(r).state = r.state /\ Unleased(r).intent = r.intent
  BY DEF Row, Unleased
<1> QED
  BY <1>1, <1>2 DEF Evolves, Unfenced, Open

LEMMA BlockedEvolves ==
  ASSUME NEW r \in Row, Open(r), NEW reason \in RELAY_BLOCKED_REASONS
  PROVE  relayFinishBlocked(r, reason) \in Row /\ Evolves(r, relayFinishBlocked(r, reason))
<1> DEFINE s == relayFinishBlocked(r, reason)
<1>1. s \in Row
  BY DEF Row, Unleased, relayFinishBlocked, RELAY_ALL_STATES, RELAY_TERMINAL_STATES
<1>2. s.lease = None /\ s.state = "blocked" /\ s.intent = r.intent
  BY DEF Row, Unleased, relayFinishBlocked
<1> HIDE DEF s
<1> QED
  BY <1>1, <1>2 DEF s, Evolves, Unfenced, Open

LEMMA UncertainEvolves ==
  ASSUME NEW r \in Row, Open(r), NEW reason \in RELAY_UNCERTAIN_REASONS, NEW h \in Nat
  PROVE  relayFinishUncertain(r, h, reason) \in Row /\ Evolves(r, relayFinishUncertain(r, h, reason))
<1> DEFINE s == relayFinishUncertain(r, h, reason)
<1>1. s \in Row
  BY DEF Row, Unleased, relayFinishUncertain, RELAY_ALL_STATES, RELAY_TERMINAL_STATES
<1>2. s.lease = None /\ s.state = "uncertain" /\ s.intent = r.intent
  BY DEF Row, Unleased, relayFinishUncertain
<1> HIDE DEF s
<1> QED
  BY <1>1, <1>2 DEF s, Evolves, Unfenced, Open

LEMMA ReconciledEvolves ==
  ASSUME NEW r \in Row, r.lease # None => Open(r)
  PROVE  Reconciled(r) \in Row /\ Evolves(r, Reconciled(r))
<1>1. r.hash \in Nat
  BY DEF Row
<1> QED
  BY <1>1, UnleasedEvolves, UncertainEvolves
     DEF Reconciled, Expired, relayReconcileExpired, RELAY_UNCERTAIN_REASONS

\* One call ends a step elsewhere than at the send, one row evolves.
RowStep(w, c, e, r) ==
  /\ c \in Call /\ c.pc # "send" /\ (c.pc \notin {"idle", "sweep"} => c.exec \in Execs)
  /\ r \in Row /\ Evolves(rec[e], r)
  /\ call' = [call EXCEPT ![w] = c]
  /\ rec' = [rec EXCEPT ![e] = r]
  /\ UNCHANGED chainVars
  /\ dispatched' \subseteq Execs
  /\ faults' \in Nat

LEMMA RowStepKeepsInv ==
  ASSUME Inv, NEW w \in Workers, NEW c, NEW e \in Execs, NEW r, RowStep(w, c, e, r)
  PROVE  Kept
<1>1. TypeOK'
  BY DEF Inv, TypeOK, RowStep, chainVars
<1>2. ExecKnown'
  BY DEF Inv, TypeOK, ExecKnown, RowStep
<1>3. \A f \in Execs : Evolves(rec[f], rec'[f])
  <2> SUFFICES ASSUME NEW f \in Execs PROVE Evolves(rec[f], rec'[f])
    OBVIOUS
  <2>1. rec[f] \in Row /\ (rec[f].lease # None => Open(rec[f]))
    BY DEF Inv, TypeOK, OnlyOpenLeased
  <2>2. Evolves(rec[f], rec[f])
    BY <2>1, UnleasedEvolves
  <2>3. rec'[f] = IF f = e THEN r ELSE rec[f]
    BY DEF RowStep, Inv, TypeOK
  <2> QED
    BY <2>2, <2>3 DEF RowStep
<1>4. \A v \in Workers : call'[v].pc = "send" => call'[v] = call[v]
  BY DEF Inv, TypeOK, RowStep
<1>5. Quiet
  BY <1>1, <1>2, <1>3, <1>4 DEF Quiet, TypeOK, RowStep, chainVars
<1> QED
  BY <1>1, <1>5, QuietKeepsInv

\* Facts about the row a call works on.
LEMMA WorkedRow ==
  ASSUME Inv, NEW w \in Workers, call[w].pc \notin {"idle", "sweep"}
  PROVE  /\ call[w] \in Call /\ call[w].exec \in Execs
         /\ RowOf(w) = rec[call[w].exec] /\ RowOf(w) \in Row
         /\ Evolves(RowOf(w), RowOf(w))
         /\ RowOf(w).lease # None => Open(RowOf(w))
         /\ Holds(w) => Open(RowOf(w))
         /\ RowOf(w).hash \in Nat /\ call[w].hash \in Nat
<1>1. call[w] \in Call /\ call[w].exec \in Execs
  BY DEF Inv, TypeOK, ExecKnown
<1>2. rec[call[w].exec] \in Row
  BY <1>1 DEF Inv, TypeOK
<1>3. rec[call[w].exec].lease # None => Open(rec[call[w].exec])
  BY <1>1 DEF Inv, OnlyOpenLeased
<1>4. Evolves(RowOf(w), RowOf(w))
  BY <1>2, <1>3, UnleasedEvolves DEF RowOf
<1>5. w # None
  BY NamesAssumption DEF Workers
<1>6. Holds(w) => Open(RowOf(w))
  BY <1>3, <1>5 DEF Holds, RowOf
<1>7. rec[call[w].exec].hash \in Nat /\ call[w].hash \in Nat
  BY <1>1, <1>2 DEF Row, Call
<1> QED
  BY <1>1, <1>2, <1>3, <1>4, <1>6, <1>7 DEF RowOf

LEMMA AfterCallTyped ==
  ASSUME NEW c \in Call
  PROVE  AfterCall(c) \in Call /\ AfterCall(c).pc \in {"idle", "sweep"}
  BY DEF AfterCall, IdleCall, Call

LEMMA IdleTyped == IdleCall \in Call /\ IdleCall.pc = "idle"
  BY DEF IdleCall, Call

LEMMA ReleaseEvolves ==
  ASSUME Inv, NEW w \in Workers, call[w].pc \notin {"idle", "sweep"}
  PROVE  relayRelease(w) \in Row /\ Evolves(RowOf(w), relayRelease(w))
  BY WorkedRow, UnleasedEvolves DEF relayRelease

LEMMA FaultTyped == ASSUME Inv, Fault PROVE faults' \in Nat
  BY DEF Inv, TypeOK, Fault

-----------------------------------------------------------------------------
(* Steps that end a call: the row evolves, the call is over. *)

LEMMA EndingStep ==
  ASSUME Inv, NEW w \in Workers, call[w].pc \notin {"idle", "sweep"},
         NEW r \in Row, Evolves(RowOf(w), r),
         Save(w, r), Return(w), UNCHANGED chainVars,
         dispatched' \subseteq Execs, faults' \in Nat
  PROVE  Kept
<1>1. call[w] \in Call /\ call[w].exec \in Execs /\ RowOf(w) = rec[call[w].exec]
  BY WorkedRow
<1>2. call' = [call EXCEPT ![w] = AfterCall(call[w])]
  BY DEF Return, Inv, TypeOK
<1>3. RowStep(w, AfterCall(call[w]), call[w].exec, r)
  BY <1>1, <1>2, AfterCallTyped DEF RowStep, Save
<1> QED
  BY <1>1, <1>3, RowStepKeepsInv

LEMMA KeptRow ==
  ASSUME Inv, NEW w \in Workers, call[w].pc \notin {"idle", "sweep"}, UNCHANGED rec
  PROVE  Save(w, RowOf(w)) /\ RowOf(w) \in Row /\ Evolves(RowOf(w), RowOf(w))
<1>1. rec' = [rec EXCEPT ![call[w].exec] = rec[call[w].exec]]
  BY DEF Inv, TypeOK
<1> QED
  BY <1>1, WorkedRow DEF Save, RowOf

LEMMA UnchangedRest ==
  ASSUME Inv
  PROVE  /\ UNCHANGED dispatched => dispatched' \subseteq Execs
         /\ UNCHANGED faults => faults' \in Nat
         /\ \A e \in Execs, r \in Row : Deposits(r, e) => dispatched' \subseteq Execs
  BY DEF Inv, TypeOK, Deposits

LEMMA EndsKeepInv ==
  ASSUME Inv, NEW w \in Workers
  PROVE  /\ DriveAnswer(w) => Kept
         /\ \A reason \in RELAY_BLOCKED_REASONS : PollBlocked(w, reason) => Kept
         /\ SubmitUnknown(w) => Kept
         /\ SubmitCheckpointFailed(w) => Kept
         /\ ConfirmMinted(w) => Kept
         /\ ConfirmReverted(w) => Kept
         /\ ConfirmPending(w) => Kept
         /\ Refused(w) => Kept
         /\ \A released \in BOOLEAN : GiveUp(w, released) => Kept
<1>1. ASSUME DriveAnswer(w) PROVE Kept
  <2>1. call[w].pc \notin {"idle", "sweep"} /\ UNCHANGED <<rec, chainVars, faults>> /\ Return(w)
    BY <1>1 DEF DriveAnswer
  <2>2. dispatched' \subseteq Execs
    BY <1>1, <2>1, WorkedRow, UnchangedRest DEF DriveAnswer
  <2> QED
    BY <2>1, <2>2, KeptRow, UnchangedRest, EndingStep
<1>2. ASSUME NEW reason \in RELAY_BLOCKED_REASONS, PollBlocked(w, reason) PROVE Kept
  <2>1. call[w].pc \notin {"idle", "sweep"}
    BY <1>2 DEF PollBlocked
  <2> QED
    BY <1>2, <2>1, WorkedRow, BlockedEvolves, UnchangedRest, EndingStep DEF PollBlocked
<1>3. ASSUME SubmitUnknown(w) PROVE Kept
  <2>1. call[w].pc \notin {"idle", "sweep"}
    BY <1>3 DEF SubmitUnknown
  <2>2. "submission_unknown" \in RELAY_UNCERTAIN_REASONS
    BY DEF RELAY_UNCERTAIN_REASONS
  <2> QED
    BY <1>3, <2>1, <2>2, WorkedRow, UncertainEvolves, UnchangedRest, EndingStep DEF SubmitUnknown
<1>4. ASSUME SubmitCheckpointFailed(w) PROVE Kept
  <2>1. call[w].pc \notin {"idle", "sweep"}
    BY <1>4 DEF SubmitCheckpointFailed
  <2>2. "submitted_checkpoint_failed" \in RELAY_UNCERTAIN_REASONS
    BY DEF RELAY_UNCERTAIN_REASONS
  <2> QED
    BY <1>4, <2>1, <2>2, WorkedRow, UncertainEvolves, UnchangedRest, FaultTyped, EndingStep
       DEF SubmitCheckpointFailed
<1>5. ASSUME ConfirmMinted(w) PROVE Kept
  <2>1. call[w].pc \notin {"idle", "sweep"}
    BY <1>5 DEF ConfirmMinted
  <2> DEFINE s == relayFinishMinted(RowOf(w))
  <2>2. RowOf(w) \in Row /\ Open(RowOf(w)) /\ RowOf(w).state = "mint_submitted"
    BY <1>5, <2>1, WorkedRow DEF ConfirmMinted
  <2>3. s \in Row
    BY <2>2 DEF Row, Unleased, relayFinishMinted, RELAY_ALL_STATES, RELAY_TERMINAL_STATES
  <2>4. s.lease = None /\ s.state = "minted" /\ s.intent = RowOf(w).intent
    BY <2>2 DEF Row, Unleased, relayFinishMinted
  <2>5. Evolves(RowOf(w), s)
    BY <2>2, <2>4 DEF Evolves, Unfenced, Open
  <2>6. dispatched' \subseteq Execs
    BY <1>5, <2>1, <2>3, WorkedRow, UnchangedRest DEF ConfirmMinted
  <2> HIDE DEF s
  <2>7. Save(w, s) /\ Return(w) /\ UNCHANGED <<chainVars, faults>>
    BY <1>5 DEF ConfirmMinted, s
  <2> QED
    BY <2>1, <2>3, <2>5, <2>6, <2>7, UnchangedRest, EndingStep
<1>6. ASSUME ConfirmReverted(w) PROVE Kept
  <2>1. call[w].pc \notin {"idle", "sweep"}
    BY <1>6 DEF ConfirmReverted
  <2>2. "destination_reverted" \in RELAY_BLOCKED_REASONS
    BY DEF RELAY_BLOCKED_REASONS
  <2> QED
    BY <1>6, <2>1, <2>2, WorkedRow, BlockedEvolves, UnchangedRest, EndingStep DEF ConfirmReverted
<1>7. ASSUME ConfirmPending(w) PROVE Kept
  <2>1. call[w].pc \notin {"idle", "sweep"}
    BY <1>7 DEF ConfirmPending
  <2> QED
    BY <1>7, <2>1, ReleaseEvolves, UnchangedRest, EndingStep DEF ConfirmPending
<1>8. ASSUME Refused(w) PROVE Kept
  <2>1. call[w].pc \notin {"idle", "sweep"}
    BY <1>8 DEF Refused, Driving
  <2> QED
    BY <1>8, <2>1, KeptRow, UnchangedRest, EndingStep DEF Refused
<1>9. ASSUME NEW released \in BOOLEAN, GiveUp(w, released) PROVE Kept
  <2>1. call[w].pc \notin {"idle", "sweep"}
    BY <1>9 DEF GiveUp, Driving
  <2> QED
    BY <1>9, <2>1, WorkedRow, ReleaseEvolves, UnchangedRest, FaultTyped, EndingStep DEF GiveUp
<1> QED
  BY <1>1, <1>2, <1>3, <1>4, <1>5, <1>6, <1>7, <1>8, <1>9

-----------------------------------------------------------------------------
(* Steps that move a call on. *)

LEMMA MovesKeepInv ==
  ASSUME Inv, NEW w \in Workers
  PROVE  /\ \A e \in Execs : SweepRow(w, e) => Kept
         /\ DriveClaim(w) => Kept
         /\ \A m \in Messages, a \in Attestations : PollAttested(w, m, a) => Kept
         /\ SubmitCheckpoint(w) => Kept
<1>0. call[w] \in Call
  BY DEF Inv, TypeOK
<1>1. ASSUME NEW e \in Execs, SweepRow(w, e) PROVE Kept
  <2> DEFINE rest == [call[w] EXCEPT !.todo = @ \ {e}]
             c == IF e \in inFlight(ProcOf[w]) THEN AfterCall(rest)
                  ELSE [rest EXCEPT !.pc = "drive", !.exec = e]
  <2>1. rest \in Call
    BY <1>0 DEF Call
  <2>2. [rest EXCEPT !.pc = "drive", !.exec = e] \in Call
    BY <2>1 DEF Call
  <2>3. /\ [rest EXCEPT !.pc = "drive", !.exec = e].pc = "drive"
        /\ [rest EXCEPT !.pc = "drive", !.exec = e].exec = e
    BY <2>1 DEF Call
  <2>4. AfterCall(rest) \in Call /\ AfterCall(rest).pc \in {"idle", "sweep"}
    BY <2>1, AfterCallTyped
  <2>5. call' = [call EXCEPT ![w] = c]
    BY <1>1 DEF SweepRow
  <2>6. rec' = [rec EXCEPT ![e] = rec[e]] /\ UNCHANGED <<chainVars, dispatched, faults>>
    BY <1>1 DEF SweepRow, Inv, TypeOK
  <2>7. rec[e] \in Row /\ Evolves(rec[e], rec[e])
    BY UnleasedEvolves DEF Inv, TypeOK, OnlyOpenLeased
  <2> HIDE DEF rest
  <2>8. c \in Call /\ c.pc # "send" /\ (c.pc \notin {"idle", "sweep"} => c.exec \in Execs)
    BY <2>2, <2>3, <2>4
  <2> HIDE DEF c
  <2>9. RowStep(w, c, e, rec[e])
    BY <2>5, <2>6, <2>7, <2>8, UnchangedRest DEF RowStep
  <2> QED
    BY <2>9, RowStepKeepsInv
<1>2. ASSUME DriveClaim(w) PROVE Kept
  <2>1. call[w].pc \notin {"idle", "sweep"}
    BY <1>2 DEF DriveClaim
  <2> DEFINE r == RowOf(w)
             s == [r EXCEPT !.lease = w, !.expired = FALSE]
             c == [call[w] EXCEPT !.pc = IF r.state = "mint_submitted" THEN "confirm" ELSE "poll",
                                  !.from = r.state, !.hash = r.hash]
  <2>2. r \in Row /\ call[w].exec \in Execs /\ r = rec[call[w].exec]
    BY <2>1, WorkedRow
  <2>3. r.state \in RELAY_CLAIMABLE_STATES
    BY <1>2 DEF DriveClaim, relayClaimable, Claimable
  <2>4. c \in Call /\ c.pc \in {"confirm", "poll"} /\ c.exec = call[w].exec
    <3>1. r.hash \in Nat
      BY <2>2 DEF Row
    <3> QED  BY ONLY <1>0, <2>3, <3>1, call[w] \in Call DEF Call, Driving
  <2>5. s \in Row /\ s.state = r.state /\ s.intent = r.intent
    BY <2>2 DEF Row
  <2>6. Open(r) /\ Open(s)
    BY <2>3, <2>5 DEF Open, Terminal, RELAY_CLAIMABLE_STATES, RELAY_TERMINAL_STATES
  <2>7. Evolves(r, s)
    BY <2>5, <2>6 DEF Evolves, Unfenced, Open
  <2>8. /\ call' = [call EXCEPT ![w] = c] /\ rec' = [rec EXCEPT ![call[w].exec] = s]
        /\ UNCHANGED <<chainVars, dispatched, faults>>
    BY <1>2 DEF DriveClaim, Save, Inv, TypeOK
  <2> HIDE DEF c, s, r
  <2>9. RowStep(w, c, call[w].exec, s)
    BY <2>2, <2>4, <2>5, <2>7, <2>8, UnchangedRest DEF RowStep
  <2> QED
    BY <2>2, <2>9, RowStepKeepsInv
<1>3. ASSUME NEW m \in Messages, NEW a \in Attestations, PollAttested(w, m, a) PROVE Kept
  <2>1. call[w].pc \notin {"idle", "sweep"}
    BY <1>3 DEF PollAttested
  <2> DEFINE r == RowOf(w)
             s == [r EXCEPT !.state = "attested", !.msg = m, !.att = a]
             c == [call[w] EXCEPT !.pc = "fence", !.msg = m, !.att = a]
  <2>2. r \in Row /\ call[w].exec \in Execs /\ r = rec[call[w].exec]
    BY <2>1, WorkedRow
  <2>3. r.state \in {"attestation_pending", "attested"}
    BY <1>3 DEF PollAttested
  <2>4. c \in Call /\ c.pc = "fence" /\ c.exec = call[w].exec
    BY <1>0 DEF Call, Driving
  <2>5. s \in Row /\ s.state = "attested" /\ s.intent = r.intent
    BY <2>2 DEF Row, RELAY_ALL_STATES, RELAY_CLAIMABLE_STATES
  <2>6. Evolves(r, s)
    BY <2>3, <2>5 DEF Evolves, Unfenced, Open, Terminal, RELAY_TERMINAL_STATES
  <2>7. /\ call' = [call EXCEPT ![w] = c] /\ rec' = [rec EXCEPT ![call[w].exec] = s]
        /\ UNCHANGED <<chainVars, dispatched, faults>>
    BY <1>3 DEF PollAttested, Save, Inv, TypeOK
  <2> HIDE DEF c, s, r
  <2>8. RowStep(w, c, call[w].exec, s)
    BY <2>2, <2>4, <2>5, <2>6, <2>7, UnchangedRest DEF RowStep
  <2> QED
    BY <2>2, <2>8, RowStepKeepsInv
<1>4. ASSUME SubmitCheckpoint(w) PROVE Kept
  <2>1. call[w].pc \notin {"idle", "sweep"}
    BY <1>4 DEF SubmitCheckpoint
  <2> DEFINE r == RowOf(w)
             s == [r EXCEPT !.state = "mint_submitted", !.hash = call[w].hash]
             c == [call[w] EXCEPT !.pc = "confirm"]
  <2>2. r \in Row /\ call[w].exec \in Execs /\ r = rec[call[w].exec] /\ call[w].hash \in Nat
    BY <2>1, WorkedRow
  <2>3. r.state = "mint_submitting"
    BY <1>4 DEF SubmitCheckpoint
  <2>4. c \in Call /\ c.pc = "confirm" /\ c.exec = call[w].exec
    BY <1>0 DEF Call, Driving
  <2>5. s \in Row /\ s.state = "mint_submitted" /\ s.intent = r.intent
    BY <2>2 DEF Row, RELAY_ALL_STATES, RELAY_CLAIMABLE_STATES
  <2>6. Evolves(r, s)
    BY <2>3, <2>5 DEF Evolves, Unfenced, Open, Terminal, RELAY_TERMINAL_STATES
  <2>7. /\ call' = [call EXCEPT ![w] = c] /\ rec' = [rec EXCEPT ![call[w].exec] = s]
        /\ UNCHANGED <<chainVars, dispatched, faults>>
    BY <1>4 DEF SubmitCheckpoint, Save, Inv, TypeOK
  <2> HIDE DEF c, s, r
  <2>8. RowStep(w, c, call[w].exec, s)
    BY <2>2, <2>4, <2>5, <2>6, <2>7, UnchangedRest DEF RowStep
  <2> QED
    BY <2>2, <2>8, RowStepKeepsInv
<1> QED
  BY <1>1, <1>2, <1>3, <1>4

\* Crossing the fence issues the one right to send.
LEMMA FenceKeepsInv ==
  ASSUME Inv, NEW w \in Workers, SubmitFence(w)
  PROVE  Kept
<1>1. call[w].pc = "fence" /\ call[w] \in Call
  BY DEF SubmitFence, Inv, TypeOK
<1> DEFINE e == call[w].exec
           s == [rec[e] EXCEPT !.state = "mint_submitting"]
           c == [call[w] EXCEPT !.pc = "send"]
<1>2. e \in Execs /\ rec[e] \in Row /\ RowOf(w) = rec[e] /\ Open(rec[e])
  BY <1>1, WorkedRow DEF SubmitFence
<1>3. rec[e].state = "attested"
  BY <1>2 DEF SubmitFence
<1>4. /\ call' = [call EXCEPT ![w] = c] /\ rec' = [rec EXCEPT ![e] = s]
      /\ UNCHANGED <<chainVars, dispatched, faults>>
  BY <1>2 DEF SubmitFence, Save, Inv, TypeOK
<1>5. c \in Call /\ c.pc = "send" /\ c.exec = e
  BY <1>1 DEF Call, Driving
<1>6. s \in Row /\ s.state = "mint_submitting" /\ s.intent = rec[e].intent
  BY <1>2 DEF Row, RELAY_ALL_STATES
<1> HIDE DEF e, s, c
<1>7. TypeOK'
  BY <1>2, <1>4, <1>5, <1>6 DEF Inv, TypeOK, chainVars
<1>8. /\ \A f \in Execs : rec'[f] = IF f = e THEN s ELSE rec[f]
      /\ \A v \in Workers : call'[v] = IF v = w THEN c ELSE call[v]
      /\ sends' = sends
  BY <1>4 DEF Inv, TypeOK, chainVars
<1>9. sends[e] = 0 /\ \A v \in Workers : ~Sending(v, e)
  BY <1>2, <1>3 DEF Inv, UnsentBeforeFence, Unfenced
<1>10. ExecKnown'
  BY <1>2, <1>5, <1>8 DEF Inv, ExecKnown
<1>11. UnsentBeforeFence'
  BY <1>1, <1>2, <1>5, <1>6, <1>8 DEF Inv, UnsentBeforeFence, Unfenced, Sending
<1>12. OneTicket'
  BY <1>2, <1>5, <1>8, <1>9 DEF Inv, OneTicket, Sending
<1>13. SentOnce'
  BY <1>8 DEF Inv, SentOnce
<1>14. BurnsDistinct'
  BY <1>2, <1>3, <1>6, <1>8 DEF Inv, BurnsDistinct, SameBurn
<1>15. OnlyOpenLeased'
  BY <1>2, <1>6, <1>8 DEF Inv, OnlyOpenLeased, Open, Terminal, RELAY_TERMINAL_STATES
<1>16. Stable
  BY <1>2, <1>8 DEF Stable, Open
<1> QED
  BY <1>7, <1>10, <1>11, <1>12, <1>13, <1>14, <1>15, <1>16 DEF Inv, Kept

\* Sending uses it up.
LEMMA SendKeepsInv ==
  ASSUME Inv, NEW w \in Workers, NEW fate \in {"pending", "lost"}, NEW answer \in {"sent", "failed"},
         SubmitSend(w, fate, answer)
  PROVE  Kept
<1>1. call[w].pc = "send" /\ call[w] \in Call
  BY DEF SubmitSend, Inv, TypeOK
<1> DEFINE e == call[w].exec
           h == IF answer = "sent" THEN sends[e] + 1 ELSE call[w].hash
           c == [call[w] EXCEPT !.pc = answer, !.hash = h]
<1>2. e \in Execs /\ sends[e] = 0
  BY <1>1 DEF Inv, ExecKnown, OneTicket, Sending
<1>3. /\ sends' = [sends EXCEPT ![e] = 1] /\ mint' = [mint EXCEPT ![e] = fate]
      /\ wire' = [wire EXCEPT ![e] = <<call[w].msg, call[w].att>>]
      /\ UNCHANGED <<rec, dispatched, faults>>
  BY <1>2 DEF SubmitSend, Inv, TypeOK
<1>4. sends'[e] = sends[e] + 1
  BY <1>2, <1>3 DEF Inv, TypeOK
<1>5. call' = [call EXCEPT ![w] = c]
  BY <1>4 DEF SubmitSend, Inv, TypeOK
<1>h. h \in Nat
  BY <1>1, <1>2 DEF Call
<1> HIDE DEF h
<1>6. c \in Call /\ c.pc \in {"sent", "failed"} /\ c.exec = e
  BY <1>1, <1>h DEF Call, Driving
<1>7. <<call[w].msg, call[w].att>> \in (Messages \cup {None}) \X (Attestations \cup {None})
  BY <1>1 DEF Call
<1> HIDE DEF e, c
<1>8. TypeOK'
  BY <1>2, <1>3, <1>5, <1>6, <1>7 DEF Inv, TypeOK
<1>9. /\ \A v \in Workers : call'[v] = IF v = w THEN c ELSE call[v]
      /\ \A f \in Execs : sends'[f] = IF f = e THEN 1 ELSE sends[f]
      /\ rec' = rec
  BY <1>3, <1>5 DEF Inv, TypeOK
<1>10. ExecKnown'
  BY <1>2, <1>6, <1>9 DEF Inv, ExecKnown
<1>11. UnsentBeforeFence'
  BY <1>1, <1>2, <1>6, <1>9 DEF Inv, UnsentBeforeFence, Unfenced, Sending, e
<1>12. OneTicket'
  BY <1>1, <1>2, <1>6, <1>9 DEF Inv, OneTicket, Sending, e
<1>13. SentOnce'
  BY <1>9 DEF Inv, SentOnce
<1>14. BurnsDistinct' /\ OnlyOpenLeased'
  BY <1>9 DEF Inv, BurnsDistinct, OnlyOpenLeased
<1>15. Stable
  BY <1>9 DEF Stable
<1> QED
  BY <1>8, <1>10, <1>11, <1>12, <1>13, <1>14, <1>15 DEF Inv, Kept

-----------------------------------------------------------------------------
(* Steps that start calls, and the environment. *)

LEMMA NewCallTyped ==
  ASSUME NEW e \in Execs, NEW k \in {"relay", "resume"}
  PROVE  LET c == [IdleCall EXCEPT !.pc = "drive", !.kind = k, !.exec = e]
         IN  c \in Call /\ c.pc = "drive" /\ c.exec = e
  BY DEF IdleCall, Call

\* A new row has an intent that no other row conflicts with.
LEMMA RelayMintKeepsInv ==
  ASSUME Inv, NEW w \in Workers, NEW e \in Execs, NEW i \in Intents, relayMint(w, e, i)
  PROVE  Kept
<1> DEFINE r == Enqueued(e, i)
           c == [IdleCall EXCEPT !.pc = "drive", !.kind = "relay", !.exec = e]
<1>1. c \in Call /\ c.pc = "drive" /\ c.exec = e
  BY NewCallTyped
<1>2. rec[e] \in Row /\ (rec[e].lease # None => Open(rec[e]))
  BY DEF Inv, TypeOK, OnlyOpenLeased
<1>3. r \in Row
  BY <1>2 DEF Enqueued, relayNewPendingRecord, NoRow, Row, RELAY_ALL_STATES, RELAY_CLAIMABLE_STATES
<1>4. CASE rec[e].state # "absent"
  <2>1. rec' = [rec EXCEPT ![e] = rec[e]] /\ r = rec[e]
    BY <1>4 DEF relayMint, Enqueued
  <2>2. Evolves(rec[e], r)
    BY <1>2, <2>1, UnleasedEvolves
  <2>3. UNCHANGED <<chainVars, faults>> /\ dispatched' \subseteq Execs /\ faults' \in Nat
    BY <1>3, UnchangedRest DEF relayMint
  <2>4. CASE Terminal(r)
    <3>1. call' = [call EXCEPT ![w] = call[w]] /\ call[w] \in Call /\ call[w].pc = "idle"
      BY <2>4 DEF relayMint, Inv, TypeOK
    <3>2. RowStep(w, call[w], e, r)
      BY <1>3, <2>1, <2>2, <2>3, <3>1 DEF RowStep
    <3> QED
      BY <3>2, RowStepKeepsInv
  <2>5. CASE ~Terminal(r)
    <3>1. call' = [call EXCEPT ![w] = c]
      BY <2>5 DEF relayMint
    <3>2. RowStep(w, c, e, r)
      BY <1>1, <1>3, <2>1, <2>2, <2>3, <3>1 DEF RowStep
    <3> QED
      BY <3>2, RowStepKeepsInv
  <2> QED
    BY <2>4, <2>5
<1>5. CASE rec[e].state = "absent"
  <2>1. r = relayNewPendingRecord(i) /\ rec' = [rec EXCEPT ![e] = r]
    BY <1>5 DEF relayMint, Enqueued
  <2>2. r.state = "attestation_pending" /\ r.intent = i /\ r.lease = None
    BY <2>1 DEF relayNewPendingRecord, NoRow
  <2>3. call' = [call EXCEPT ![w] = c] /\ UNCHANGED <<chainVars, faults>> /\ dispatched' \subseteq Execs
    BY <2>2, <1>3, UnchangedRest DEF relayMint, Terminal, RELAY_TERMINAL_STATES
  <2>4. \A f \in Execs : ~relayIdentityConflicts(rec[f], i)
    BY <1>5 DEF relayMint, EnqueueAllowed
  <2> HIDE DEF r, c
  <2>5. TypeOK'
    BY <1>1, <1>3, <2>1, <2>3 DEF Inv, TypeOK, chainVars
  <2>6. /\ \A f \in Execs : rec'[f] = IF f = e THEN r ELSE rec[f]
        /\ \A v \in Workers : call'[v] = IF v = w THEN c ELSE call[v]
        /\ sends' = sends
    BY <2>1, <2>3 DEF Inv, TypeOK, chainVars
  <2>7. ExecKnown'
    BY <1>1, <2>6 DEF Inv, ExecKnown
  <2>8. UnsentBeforeFence'
    BY <1>1, <1>5, <2>6 DEF Inv, UnsentBeforeFence, Unfenced, Sending
  <2>9. OneTicket' /\ SentOnce'
    BY <1>1, <2>6 DEF Inv, OneTicket, SentOnce, Sending
  <2>10. BurnsDistinct'
    <3> SUFFICES ASSUME NEW f \in Execs, NEW g \in Execs, f # g,
                        rec'[f].state # "absent", rec'[g].state # "absent"
                 PROVE  ~SameBurn(rec'[f].intent, rec'[g].intent)
      BY DEF BurnsDistinct
    <3>1. i.domain \in {"stellar", "base"}
      BY NamesAssumption DEF Intents
    <3>2. \A x \in Execs : rec[x].state # "absent" =>
            ~SameBurn(rec[x].intent, i) /\ ~SameBurn(i, rec[x].intent)
      BY <2>4, <3>1 DEF SameBurn, relayIdentityConflicts
    <3> QED
      BY <2>2, <2>6, <3>2 DEF Inv, BurnsDistinct
  <2>11. OnlyOpenLeased'
    BY <2>2, <2>6 DEF Inv, OnlyOpenLeased, Open, Terminal
  <2>12. Stable
    BY <1>5, <2>6 DEF Stable, Terminal, RELAY_TERMINAL_STATES
  <2> QED
    BY <2>5, <2>7, <2>8, <2>9, <2>10, <2>11, <2>12 DEF Inv, Kept
<1> QED
  BY <1>4, <1>5

LEMMA ResumeKeepsInv ==
  ASSUME Inv, NEW w \in Workers, NEW e \in Execs, resumeExisting(w, e)
  PROVE  Kept
<1> DEFINE r == Reconciled(rec[e])
           c == [IdleCall EXCEPT !.pc = "drive", !.kind = "resume", !.exec = e]
<1>1. c \in Call /\ c.pc = "drive" /\ c.exec = e
  BY NewCallTyped
<1>2. rec[e] \in Row /\ (rec[e].lease # None => Open(rec[e]))
  BY DEF Inv, TypeOK, OnlyOpenLeased
<1>3. r \in Row /\ Evolves(rec[e], r)
  BY <1>2, ReconciledEvolves
<1>4. rec' = [rec EXCEPT ![e] = r] /\ rec'[e] = r
  BY DEF resumeExisting, Inv, TypeOK
<1>5. UNCHANGED <<chainVars, faults>> /\ dispatched' \subseteq Execs /\ faults' \in Nat
  BY UnchangedRest DEF resumeExisting
<1>6. CASE Terminal(r)
  <2>1. call' = [call EXCEPT ![w] = call[w]] /\ call[w] \in Call /\ call[w].pc = "idle"
    BY <1>4, <1>6 DEF resumeExisting, Inv, TypeOK
  <2>2. RowStep(w, call[w], e, r)
    BY <1>3, <1>4, <1>5, <2>1 DEF RowStep
  <2> QED
    BY <2>2, RowStepKeepsInv
<1>7. CASE ~Terminal(r)
  <2>1. call' = [call EXCEPT ![w] = c]
    BY <1>4, <1>7 DEF resumeExisting
  <2>2. RowStep(w, c, e, r)
    BY <1>1, <1>3, <1>4, <1>5, <2>1 DEF RowStep
  <2> QED
    BY <2>2, RowStepKeepsInv
<1> QED
  BY <1>6, <1>7

LEMMA SweepKeepsInv ==
  ASSUME Inv, NEW w \in Workers, sweepStuck(w)
  PROVE  Kept
<1> DEFINE t == Sweepable(rec')
           c == [call[w] EXCEPT !.kind = "sweep", !.todo = t]
<1>t. t \in SUBSET Execs
  BY DEF Sweepable
<1>w. call[w] \in Call
  BY DEF Inv, TypeOK
<1> HIDE DEF t
<1>1. c \in Call
  BY <1>t, <1>w DEF Call
<1>2. call' = [call EXCEPT ![w] = AfterCall(c)] /\ UNCHANGED <<chainVars, dispatched, faults>>
  BY DEF sweepStuck, Inv, TypeOK, t
<1>3. AfterCall(c) \in Call /\ AfterCall(c).pc \in {"idle", "sweep"}
  BY <1>1, AfterCallTyped
<1> HIDE DEF c
<1>4. \A e \in Execs : rec'[e] = Reconciled(rec[e]) /\ rec'[e] \in Row /\ Evolves(rec[e], rec'[e])
  BY ReconciledEvolves DEF sweepStuck, Inv, TypeOK, OnlyOpenLeased
<1>5. rec' \in [Execs -> Row]
  BY <1>4 DEF sweepStuck
<1>6. TypeOK'
  BY <1>2, <1>3, <1>5 DEF Inv, TypeOK, chainVars
<1>7. \A v \in Workers : call'[v] = IF v = w THEN AfterCall(c) ELSE call[v]
  BY <1>2 DEF Inv, TypeOK
<1>8. ExecKnown'
  BY <1>3, <1>7 DEF Inv, ExecKnown
<1>9. Quiet
  BY <1>2, <1>3, <1>4, <1>6, <1>7, <1>8 DEF Quiet, TypeOK, chainVars
<1> QED
  BY <1>6, <1>9, QuietKeepsInv

LEMMA CrashKeepsInv ==
  ASSUME Inv, NEW p \in Procs, Crash(p)
  PROVE  Kept
<1>1. \A e \in Execs : rec[e] \in Row /\ Evolves(rec[e], rec[e])
  BY UnleasedEvolves DEF Inv, TypeOK, OnlyOpenLeased
<1>2. \A v \in Workers : call'[v] = IdleCall \/ call'[v] = call[v]
  BY DEF Crash
<1>3. rec' = rec /\ UNCHANGED <<chainVars, dispatched>> /\ faults' \in Nat
  BY FaultTyped DEF Crash
<1>4. call' \in [Workers -> Call]
  BY <1>2, IdleTyped DEF Crash, Inv, TypeOK
<1>5. TypeOK'
  BY <1>3, <1>4 DEF Inv, TypeOK, chainVars
<1>6. ExecKnown'
  BY <1>2, IdleTyped DEF Inv, ExecKnown
<1>7. Quiet
  BY <1>1, <1>2, <1>3, <1>5, <1>6, IdleTyped DEF Quiet, TypeOK, chainVars
<1> QED
  BY <1>5, <1>7, QuietKeepsInv

LEMMA ExpiryKeepsInv ==
  ASSUME Inv, NEW e \in Execs, LeaseExpires(e)
  PROVE  Kept
<1> DEFINE r == [rec[e] EXCEPT !.expired = TRUE]
<1>1. rec[e] \in Row /\ rec[e].lease # None /\ Open(rec[e])
  BY DEF Inv, TypeOK, OnlyOpenLeased, LeaseExpires
<1>2. r \in Row /\ r.state = rec[e].state /\ r.intent = rec[e].intent
  BY <1>1 DEF Row
<1>3. Evolves(rec[e], r)
  BY <1>1, <1>2 DEF Evolves, Unfenced, Open, Terminal
<1>4. rec' = [rec EXCEPT ![e] = r] /\ UNCHANGED <<call, chainVars, dispatched>>
  BY DEF LeaseExpires, Inv, TypeOK
<1>5. faults' \in Nat
  BY FaultTyped DEF LeaseExpires, Inv, TypeOK
<1> HIDE DEF r
<1>6. TypeOK'
  BY <1>2, <1>4, <1>5 DEF Inv, TypeOK, chainVars
<1>7. \A f \in Execs : rec[f] \in Row /\ Evolves(rec[f], rec[f])
  BY UnleasedEvolves DEF Inv, TypeOK, OnlyOpenLeased
<1>8. \A f \in Execs : Evolves(rec[f], rec'[f])
  BY <1>3, <1>4, <1>7 DEF Inv, TypeOK
<1>9. Quiet
  BY <1>4, <1>6, <1>8 DEF Quiet, TypeOK, chainVars, Inv, ExecKnown
<1> QED
  BY <1>6, <1>9, QuietKeepsInv

LEMMA ChainKeepsInv ==
  ASSUME Inv, NEW e \in Execs, NEW fate \in {"ok", "reverted"}, ChainSettles(e, fate)
  PROVE  Kept
<1>1. TypeOK'
  BY DEF ChainSettles, Inv, TypeOK
<1>2. UNCHANGED <<rec, call, sends>>
  BY DEF ChainSettles
<1>3. \A f \in Execs : Evolves(rec[f], rec[f])
  BY UnleasedEvolves DEF Inv, TypeOK, OnlyOpenLeased
<1>4. Quiet
  BY <1>1, <1>2, <1>3 DEF Quiet, TypeOK, Inv, ExecKnown
<1> QED
  BY <1>1, <1>4, QuietKeepsInv

-----------------------------------------------------------------------------
(* Theorems *)

LEMMA InitInv == Init => Inv
<1> SUFFICES ASSUME Init PROVE Inv
  OBVIOUS
<1>1. NoRow \in Row /\ NoRow.state = "absent" /\ NoRow.lease = None
  BY DEF NoRow, Row
<1>2. TypeOK
  BY <1>1, IdleTyped DEF Init, TypeOK
<1> QED
  BY <1>1, <1>2, IdleTyped
     DEF Init, Inv, ExecKnown, UnsentBeforeFence, OneTicket, SentOnce, BurnsDistinct,
         OnlyOpenLeased, Sending

LEMMA StepKept ==
  ASSUME Inv, [Next]_vars
  PROVE  Kept
<1> USE DEF Workers
<1>1. CASE \E w \in Workers : Work(w) \/ SubmitCheckpointFailed(w)
  <2> PICK w \in Workers : Work(w) \/ SubmitCheckpointFailed(w)
    BY <1>1
  <2>1. CASE SubmitFence(w)
    BY <2>1, FenceKeepsInv
  <2>2. CASE \E fate \in {"pending", "lost"}, answer \in {"sent", "failed"} : SubmitSend(w, fate, answer)
    BY <2>2, SendKeepsInv
  <2> QED
    BY <2>1, <2>2, MovesKeepInv, EndsKeepInv DEF Work
<1>2. CASE \E w \in Callers, e \in Execs, i \in Intents : relayMint(w, e, i)
  BY <1>2, RelayMintKeepsInv
<1>3. CASE \E w \in Callers, e \in Execs : resumeExisting(w, e)
  BY <1>3, ResumeKeepsInv
<1>4. CASE \E w \in Sweepers : sweepStuck(w)
  BY <1>4, SweepKeepsInv
<1>5. CASE \E w \in Workers, released \in BOOLEAN : GiveUp(w, released)
  BY <1>5, EndsKeepInv
<1>6. CASE \E p \in Procs : Crash(p)
  BY <1>6, CrashKeepsInv
<1>7. CASE \E e \in Execs : LeaseExpires(e) \/ \E fate \in {"ok", "reverted"} : ChainSettles(e, fate)
  BY <1>7, ExpiryKeepsInv, ChainKeepsInv
<1>8. CASE UNCHANGED vars
  <2>1. UNCHANGED <<rec, call, sends, mint, wire, dispatched, faults>>
    BY <1>8 DEF vars
  <2>2. Inv'
    BY <2>1 DEF Inv, TypeOK, ExecKnown, UnsentBeforeFence, OneTicket, SentOnce, BurnsDistinct,
                OnlyOpenLeased, Sending
  <2> QED
    BY <2>1, <2>2 DEF Kept, Stable
<1> QED
  BY <1>1, <1>2, <1>3, <1>4, <1>5, <1>6, <1>7, <1>8 DEF Next

LEMMA Invariance == Spec => []Inv
<1>1. Inv /\ [Next]_vars => Inv'
  BY StepKept DEF Kept
<1> QED
  BY InitInv, <1>1, PTL DEF Spec

\* Rows, calls and the chain keep their types (the record shapes of store.mjs
\* and the phases of watcher.mjs), however many workers and processes run.
THEOREM RelayTypeCorrect == Spec => []TypeOK
<1>1. Inv => TypeOK
  BY DEF Inv
<1> QED
  BY <1>1, Invariance, PTL

\* However many processes share the store, and whatever expires, fails or
\* crashes, a burn is submitted to its destination at most once: the promise
\* of the durable fence in submitPhase and of the enqueue decision.
THEOREM SubmittedAtMostOnce == Spec => []AtMostOneSubmission
<1>1. Inv => AtMostOneSubmission
  <2> SUFFICES ASSUME Inv, NEW e \in Execs
               PROVE  /\ sends[e] <= 1
                      /\ \A f \in Execs \ {e} : sends[e] > 0 /\ sends[f] > 0
                           => ~SameBurn(rec[e].intent, rec[f].intent)
    BY DEF AtMostOneSubmission
  <2>1. \A f \in Execs : sends[f] > 0 => rec[f].state # "absent"
    BY DEF Inv, UnsentBeforeFence, Unfenced
  <2> QED
    BY <2>1 DEF Inv, SentOnce, BurnsDistinct
<1> QED
  BY <1>1, Invariance, PTL

\* A terminal row is never written again: duplicate calls answer from it and
\* late workers fail their compare-and-swap (terminalResult, assertLease).
THEOREM TerminalRowsStable == Spec => TerminalStable
<1>1. Inv /\ [Next]_vars => [\A e \in Execs : Terminal(rec[e]) => rec'[e] = rec[e]]_vars
  BY StepKept DEF Kept, Stable
<1> QED
  BY <1>1, Invariance, PTL DEF Spec, TerminalStable
-----------------------------------------------------------------------------
(* What the rows say is true, and the relay implements MintLedger.  The facts *)
(* needed beyond the above are about the two views of one row, what the store *)
(* holds and what the call that holds its lease believes (Known), and about   *)
(* row and chain.                                                             *)

\* A call that holds the lease of its row knows the row's state; past the
\* poll it also knows its evidence, and past the send the hash.
Known(w, c, r) ==
  LET same == r.msg = c.msg /\ r.att = c.att
  IN c.pc \in Driving /\ r.lease = w =>
       /\ c.pc = "poll" => r.state \in {"attestation_pending", "attested"}
       /\ c.pc = "fence" => r.state = "attested" /\ same
       /\ c.pc \in {"send", "sent", "failed"} => r.state = "mint_submitting" /\ same
       /\ c.pc = "confirm" => r.state = "mint_submitted" /\ r.hash = c.hash

Phase(w) == Known(w, call[w], RowOf(w))

\* A hash that was returned is not null.
HashKnown == \A w \in Workers : call[w].pc = "sent" => call[w].hash # 0

\* What row e says of the chain.
Truth(e) ==
  /\ sends[e] = 0 => mint[e] = "none"
  /\ rec[e].state = "minted" => mint[e] = "ok" /\ rec[e].hash = sends[e]
  /\ rec[e].state = "blocked" =>
       mint[e] \in {"none", "reverted"} /\ \A w \in Workers : ~Sending(w, e)
  /\ e \in dispatched => mint[e] = "ok"
  /\ sends[e] > 0 => wire[e] = <<rec[e].msg, rec[e].att>>
  /\ \A w \in Workers : Sending(w, e) => call[w].msg = rec[e].msg /\ call[w].att = rec[e].att

Canonical(r) == r.state # "absent" => assertCanonicalRelayRecord(r)

Inv2 ==
  /\ \A e \in Execs : Canonical(rec[e]) /\ Truth(e)
  /\ \A w \in Workers : Phase(w)
  /\ HashKnown

-----------------------------------------------------------------------------
(* Steps that send nothing and issue no right to send *)

StatusStep(r, s) == StatusOf(s) = StatusOf(r) \/ StatusOf(s) \in Ledger!Successors(StatusOf(r))

\* What such a step may make of row e.
FollowsTo(e, s) ==
  LET r == rec[e]
  IN /\ Canonical(s) /\ StatusStep(r, s)
     /\ ~Unfenced(r) => s.msg = r.msg /\ s.att = r.att
     /\ s.state = "minted" =>
          \/ r.state = "minted" /\ s.hash = r.hash
          \/ mint[e] = "ok" /\ s.hash = sends[e]
     /\ s.state = "blocked" =>
          \/ r.state = "blocked"
          \/ mint[e] \in {"none", "reverted"} /\ \A w \in Workers : ~Sending(w, e)

Follows(e) == FollowsTo(e, rec'[e])

\* A row the step leaves as its holder knows it.
SameFor(w, r, s) ==
  s.lease = w => /\ r.lease = w /\ s.state = r.state /\ s.hash = r.hash
                 /\ s.msg = r.msg /\ s.att = r.att

Tame ==
  /\ UNCHANGED chainVars
  /\ \A e \in Execs : Follows(e)
  /\ \A w \in Workers :
       \/ call'[w] = call[w] /\ SameFor(w, RowOf(w), rec'[call[w].exec])
       \/ Phase(w)' /\ call'[w].pc \notin {"send", "sent"}
  /\ \A e \in dispatched' : e \in dispatched \/ mint[e] = "ok"
  /\ rec' = rec \/ \A w \in Workers : call[w].pc = "send" => call'[w] = call[w]

LEMMA TameKeeps ==
  ASSUME Inv, Inv', Inv2, Tame
  PROVE  Inv2'
<1>1. UNCHANGED <<sends, mint, wire>>
  BY DEF Tame, chainVars
<1>2. \A w \in Workers : call'[w].pc \in {"send", "sent"} => call'[w] = call[w]
  BY DEF Tame
<1>3. ASSUME NEW w \in Workers PROVE Phase(w)'
  <2>1. CASE call'[w] = call[w] /\ SameFor(w, RowOf(w), rec'[call[w].exec])
    BY <2>1 DEF Inv2, Phase, Known, RowOf, SameFor
  <2> QED BY <2>1 DEF Tame
<1>4. HashKnown'
  BY <1>2 DEF Inv2, HashKnown
<1>5. ASSUME NEW e \in Execs PROVE Canonical(rec[e])' /\ Truth(e)'
  <2>1. Follows(e) /\ Truth(e)
    BY DEF Tame, Inv2
  <2>2. \A w \in Workers : Sending(w, e)' => Sending(w, e) /\ call'[w] = call[w]
    BY <1>2 DEF Sending
  <2>3. ~Unfenced(rec[e]) => rec'[e].msg = rec[e].msg /\ rec'[e].att = rec[e].att
    BY <2>1 DEF Follows, FollowsTo
  <2>4. sends[e] > 0 \/ (\E w \in Workers : Sending(w, e)) => ~Unfenced(rec[e])
    BY DEF Inv, UnsentBeforeFence
  <2>5. e \in dispatched' => mint'[e] = "ok"
    BY <1>1, <2>1 DEF Tame, Truth
  <2>6. /\ sends'[e] > 0 => wire'[e] = <<rec'[e].msg, rec'[e].att>>
        /\ \A w \in Workers : Sending(w, e)' => call'[w].msg = rec'[e].msg /\ call'[w].att = rec'[e].att
    BY <1>1, <2>1, <2>2, <2>3, <2>4 DEF Truth
  <2>7. /\ sends'[e] = 0 => mint'[e] = "none"
        /\ rec'[e].state = "minted" => mint'[e] = "ok" /\ rec'[e].hash = sends'[e]
        /\ rec'[e].state = "blocked" =>
             mint'[e] \in {"none", "reverted"} /\ \A w \in Workers : ~Sending(w, e)'
    BY <1>1, <2>1, <2>2 DEF Truth, Follows, FollowsTo
  <2> QED BY <2>1, <2>5, <2>6, <2>7 DEF Truth, Follows, FollowsTo, Canonical
<1> QED BY <1>3, <1>4, <1>5 DEF Inv2

LEMMA StatusType ==
  ASSUME NEW r \in Row
  PROVE  StatusOf(r) \in Ledger!Statuses
BY DEF Row, StatusOf, Ledger!Statuses, RELAY_ALL_STATES, RELAY_CLAIMABLE_STATES,
       RELAY_TERMINAL_STATES

LedgerStep == [Ledger!LedgerNext]_(Ledger!ledgerVars)

\* A tame step of the relay advances rows of the ledger, or voids rights.
LEMMA TameImplements ==
  ASSUME Inv, Inv', Inv2, Tame
  PROVE  LedgerStep
<1> DEFINE st == [e \in Execs |-> StatusOf(rec[e])]
           tk == {e \in Execs : \E w \in Workers : call[w].pc = "send" /\ call[w].exec = e}
<1>1. sends' = sends
  BY DEF Tame, chainVars
<1>2. tk' \subseteq tk
  BY DEF Tame
<1>3. CASE rec' = rec
  <2>1. st' = st
    BY <1>3
  <2>2. Ledger!Void
    BY <1>1, <1>2, <2>1 DEF Ledger!Void
  <2> QED BY <2>2 DEF LedgerStep, Ledger!LedgerNext
<1>4. CASE \A w \in Workers : call[w].pc = "send" => call'[w] = call[w]
  <2>1. tk \subseteq tk'
    BY <1>4
  <2>2. tk' = tk
    BY <1>2, <2>1
  <2>3. st' \in [Execs -> Ledger!Statuses]
    BY StatusType DEF Inv, TypeOK
  <2>4. \A e \in Execs : st'[e] = st[e] \/ st'[e] \in Ledger!Successors(st[e])
    BY DEF Tame, Follows, FollowsTo, StatusStep
  <2>5. Ledger!Advance
    BY <1>1, <2>2, <2>3, <2>4 DEF Ledger!Advance
  <2> QED BY <2>5 DEF LedgerStep, Ledger!LedgerNext
<1> QED BY <1>3, <1>4 DEF Tame

-----------------------------------------------------------------------------
(* Transitions of one row *)

\* One call moves on or ends elsewhere than at the send, one row follows.
LEMMA OneRow ==
  ASSUME Inv, Inv2, NEW w \in Workers, NEW c, NEW e \in Execs, NEW s,
         call' = [call EXCEPT ![w] = c], rec' = [rec EXCEPT ![e] = s],
         UNCHANGED chainVars, FollowsTo(e, s), call[w].pc # "send",
         \A v \in Workers : v # w => SameFor(v, rec[e], s),
         c.pc \notin {"send", "sent"},
         c.pc \in Driving => c.exec = e /\ Known(w, c, s),
         \A f \in dispatched' : f \in dispatched \/ mint[f] = "ok"
  PROVE  Tame
<1>1. /\ \A f \in Execs : rec'[f] = IF f = e THEN s ELSE rec[f]
      /\ \A v \in Workers : call'[v] = IF v = w THEN c ELSE call[v]
  BY DEF Inv, TypeOK
<1>2. ASSUME NEW f \in Execs PROVE Follows(f)
  <2>1. CASE f = e
    BY <1>1, <2>1 DEF Follows
  <2>2. CASE f # e
    BY <1>1, <2>2 DEF Follows, FollowsTo, StatusStep, Inv2
  <2> QED BY <2>1, <2>2
<1>3. ASSUME NEW v \in Workers
      PROVE  \/ call'[v] = call[v] /\ SameFor(v, RowOf(v), rec'[call[v].exec])
             \/ Phase(v)' /\ call'[v].pc \notin {"send", "sent"}
  <2>1. CASE v = w
    BY <1>1, <2>1 DEF Phase, RowOf, Known
  <2>2. CASE v # w /\ call[v].pc \in {"idle", "sweep"}
    BY <1>1, <2>2 DEF Phase, Known, Driving
  <2>3. CASE v # w /\ call[v].pc \notin {"idle", "sweep"}
    <3>1. call[v].exec \in Execs /\ call'[v] = call[v]
      BY <1>1, <2>3 DEF Inv, ExecKnown
    <3>2. SameFor(v, rec[call[v].exec], rec'[call[v].exec])
      BY <1>1, <2>3, <3>1 DEF SameFor
    <3> QED BY <3>1, <3>2 DEF RowOf
  <2> QED BY <2>1, <2>2, <2>3
<1>4. \A v \in Workers : call[v].pc = "send" => call'[v] = call[v]
  BY <1>1
<1> QED BY <1>2, <1>3, <1>4 DEF Tame

LEMMA NoneApart == None \notin Workers /\ None \notin Messages /\ None \notin Attestations
BY NamesAssumption

\* A row left alone, or only its lease clock advanced.
LEMMA SameRow ==
  ASSUME Inv2, NEW e \in Execs
  PROVE  FollowsTo(e, rec[e]) /\ \A v \in Workers : SameFor(v, rec[e], rec[e])
BY DEF FollowsTo, StatusStep, Inv2, SameFor

\* A row without a lease is nobody's.
LEMMA Nobodys ==
  ASSUME NEW r, NEW s, s.lease = None
  PROVE  \A v \in Workers : SameFor(v, r, s)
BY NoneApart DEF SameFor

LEMMA UnleasedFollows ==
  ASSUME Inv, Inv2, NEW e \in Execs, Claimable(rec[e])
  PROVE  FollowsTo(e, Unleased(rec[e])) /\ \A v \in Workers : SameFor(v, rec[e], Unleased(rec[e]))
<1> DEFINE r == rec[e]
           s == Unleased(r)
<1>1. r \in Row /\ Canonical(r)
  BY DEF Inv, TypeOK, Inv2
<1>2. /\ s.state = r.state /\ s.msg = r.msg /\ s.att = r.att /\ s.hash = r.hash /\ s.reason = r.reason
      /\ s.lease = None /\ s.expired = FALSE
  BY <1>1 DEF Unleased, Row
<1> HIDE DEF s
<1>3. Canonical(s)
  BY <1>1, <1>2 DEF Canonical, assertCanonicalRelayRecord, Claimable, RELAY_CLAIMABLE_STATES,
                    Terminal
<1>4. FollowsTo(e, s)
  BY <1>2, <1>3 DEF FollowsTo, StatusStep, StatusOf, Claimable, RELAY_CLAIMABLE_STATES
<1> QED BY <1>2, <1>4, Nobodys DEF s

\* Past the fence, a row whose send is in doubt.
LEMMA UncertainFollows ==
  ASSUME Inv, Inv2, NEW e \in Execs, rec[e].state = "mint_submitting", NEW h \in Nat,
         NEW reason \in RELAY_UNCERTAIN_REASONS
  PROVE  LET s == relayFinishUncertain(rec[e], h, reason)
         IN FollowsTo(e, s) /\ \A v \in Workers : SameFor(v, rec[e], s)
<1> DEFINE r == rec[e]
           s == relayFinishUncertain(r, h, reason)
<1>1. r \in Row /\ Canonical(r)
  BY DEF Inv, TypeOK, Inv2
<1>2. /\ s.state = "uncertain" /\ s.msg = r.msg /\ s.att = r.att /\ s.hash = h /\ s.reason = reason
      /\ s.lease = None /\ s.expired = FALSE
  BY <1>1 DEF Unleased, relayFinishUncertain, Row
<1> HIDE DEF s
<1>3. Canonical(s)
  BY <1>1, <1>2 DEF Canonical, assertCanonicalRelayRecord, Terminal, RELAY_TERMINAL_STATES
<1>4. StatusStep(r, s)
  BY <1>2 DEF StatusStep, StatusOf, Ledger!Successors
<1>5. FollowsTo(e, s)
  BY <1>2, <1>3, <1>4 DEF FollowsTo
<1> QED BY <1>2, <1>5, Nobodys DEF s

LEMMA ReconciledFollows ==
  ASSUME Inv, Inv2, NEW e \in Execs
  PROVE  LET s == Reconciled(rec[e])
         IN FollowsTo(e, s) /\ \A v \in Workers : SameFor(v, rec[e], s)
<1>1. rec[e] \in Row /\ rec[e].hash \in Nat
  BY DEF Inv, TypeOK, Row
<1>2. "submission_lease_expired" \in RELAY_UNCERTAIN_REASONS
  BY DEF RELAY_UNCERTAIN_REASONS
<1>3. CASE ~Expired(rec[e])
  BY <1>3, SameRow DEF Reconciled
<1>4. CASE Expired(rec[e]) /\ rec[e].state = "mint_submitting"
  BY <1>1, <1>2, <1>4, UncertainFollows DEF Reconciled, relayReconcileExpired
<1>5. CASE Expired(rec[e]) /\ rec[e].state # "mint_submitting"
  <2>1. Open(rec[e])
    BY <1>5 DEF Expired, Inv, OnlyOpenLeased
  <2>2. rec[e].state \in RELAY_ALL_STATES \cup {"absent"}
    BY <1>1 DEF Row
  <2>3. Claimable(rec[e])
    BY <1>5, <2>1, <2>2 DEF Claimable, Open, Terminal, RELAY_ALL_STATES
  <2> QED BY <1>5, <2>3, UnleasedFollows DEF Reconciled, relayReconcileExpired
<1> QED BY <1>3, <1>4, <1>5

LEMMA ReleaseFollows ==
  ASSUME Inv, Inv2, NEW w \in Workers, call[w].exec \in Execs
  PROVE  LET s == relayRelease(w)
         IN FollowsTo(call[w].exec, s) /\ \A v \in Workers : SameFor(v, rec[call[w].exec], s)
BY SameRow, UnleasedFollows DEF relayRelease, RowOf

\* What is known of a row before the fence, and of one with a hash.
LEMMA RowFacts ==
  ASSUME Inv, Inv2, NEW e \in Execs
  PROVE  /\ rec[e] \in Row /\ Canonical(rec[e]) /\ Truth(e)
         /\ Unfenced(rec[e]) => mint[e] = "none" /\ \A w \in Workers : ~Sending(w, e)
         /\ mint[e] # "none" => \A w \in Workers : ~Sending(w, e)
<1>1. rec[e] \in Row /\ Canonical(rec[e]) /\ Truth(e)
  BY DEF Inv, TypeOK, Inv2
<1>2. Unfenced(rec[e]) => mint[e] = "none" /\ \A w \in Workers : ~Sending(w, e)
  BY <1>1 DEF Inv, UnsentBeforeFence, Truth
<1>3. mint[e] # "none" => \A w \in Workers : ~Sending(w, e)
  BY <1>1 DEF Inv, OneTicket, Truth
<1> QED BY <1>1, <1>2, <1>3

LEMMA BlockedFields ==
  ASSUME NEW r \in Row, NEW reason
  PROVE  LET s == relayFinishBlocked(r, reason) IN
         /\ s.state = "blocked" /\ s.msg = r.msg /\ s.att = r.att /\ s.hash = r.hash
         /\ s.reason = reason /\ s.lease = None /\ s.expired = FALSE
BY DEF Unleased, relayFinishBlocked, Row

\* Iris' verdict ends a row that was never sent.
LEMMA PollBlockedFollows ==
  ASSUME Inv, Inv2, NEW e \in Execs, rec[e].state \in {"attestation_pending", "attested"},
         NEW reason \in RELAY_BLOCKED_REASONS \ {"destination_reverted"}
  PROVE  LET s == relayFinishBlocked(rec[e], reason)
         IN FollowsTo(e, s) /\ \A v \in Workers : SameFor(v, rec[e], s)
<1> DEFINE r == rec[e]
           s == relayFinishBlocked(r, reason)
<1>1. r \in Row /\ Canonical(r) /\ mint[e] = "none" /\ \A w \in Workers : ~Sending(w, e)
  BY RowFacts DEF Unfenced
<1>2. /\ s.state = "blocked" /\ s.msg = r.msg /\ s.att = r.att /\ s.hash = r.hash
      /\ s.reason = reason /\ s.lease = None /\ s.expired = FALSE
  BY <1>1, BlockedFields
<1> HIDE DEF s
<1>3. Canonical(s)
  BY <1>1, <1>2 DEF Canonical, assertCanonicalRelayRecord, Terminal, RELAY_TERMINAL_STATES
<1>4. StatusStep(r, s)
  BY <1>2 DEF StatusStep, StatusOf, Ledger!Successors
<1>5. FollowsTo(e, s)
  BY <1>1, <1>2, <1>3, <1>4 DEF FollowsTo
<1> QED BY <1>2, <1>5, Nobodys DEF s

\* So does the receipt of a revert.
LEMMA RevertedFollows ==
  ASSUME Inv, Inv2, NEW e \in Execs, rec[e].state = "mint_submitted", mint[e] = "reverted"
  PROVE  LET s == relayFinishBlocked(rec[e], "destination_reverted")
         IN FollowsTo(e, s) /\ \A v \in Workers : SameFor(v, rec[e], s)
<1> DEFINE r == rec[e]
           s == relayFinishBlocked(r, "destination_reverted")
<1>1. r \in Row /\ Canonical(r) /\ \A w \in Workers : ~Sending(w, e)
  BY RowFacts
<1>2. /\ s.state = "blocked" /\ s.msg = r.msg /\ s.att = r.att /\ s.hash = r.hash
      /\ s.reason = "destination_reverted" /\ s.lease = None /\ s.expired = FALSE
  BY <1>1, BlockedFields
<1> HIDE DEF s
<1>3. Canonical(s)
  BY <1>1, <1>2 DEF Canonical, assertCanonicalRelayRecord, Terminal, RELAY_TERMINAL_STATES,
                    RELAY_BLOCKED_REASONS
<1>4. StatusStep(r, s)
  BY <1>2 DEF StatusStep, StatusOf, Ledger!Successors
<1>5. FollowsTo(e, s)
  BY <1>1, <1>2, <1>3, <1>4 DEF FollowsTo
<1> QED BY <1>2, <1>5, Nobodys DEF s

\* The receipt of the row's own hash succeeded.
LEMMA MintedFollows ==
  ASSUME Inv, Inv2, NEW e \in Execs, rec[e].state = "mint_submitted", mint[e] = "ok",
         rec[e].hash = sends[e]
  PROVE  LET s == relayFinishMinted(rec[e])
         IN FollowsTo(e, s) /\ \A v \in Workers : SameFor(v, rec[e], s)
<1> DEFINE r == rec[e]
           s == relayFinishMinted(r)
<1>1. r \in Row /\ Canonical(r)
  BY RowFacts
<1>2. /\ s.state = "minted" /\ s.msg = r.msg /\ s.att = r.att /\ s.hash = r.hash
      /\ s.reason = r.reason /\ s.lease = None /\ s.expired = FALSE
  BY <1>1 DEF Unleased, relayFinishMinted, Row
<1> HIDE DEF s
<1>3. Canonical(s)
  BY <1>1, <1>2 DEF Canonical, assertCanonicalRelayRecord, Terminal, RELAY_TERMINAL_STATES
<1>4. StatusStep(r, s)
  BY <1>2 DEF StatusStep, StatusOf, Ledger!Successors
<1>5. FollowsTo(e, s)
  BY <1>1, <1>2, <1>3, <1>4 DEF FollowsTo
<1> QED BY <1>2, <1>5, Nobodys DEF s

\* A claim changes only the lease.
LEMMA ClaimFollows ==
  ASSUME Inv, Inv2, NEW e \in Execs, NEW w \in Workers, Claimable(rec[e])
  PROVE  LET s == [rec[e] EXCEPT !.lease = w, !.expired = FALSE]
         IN /\ FollowsTo(e, s) /\ \A v \in Workers : v # w => SameFor(v, rec[e], s)
            /\ s.state = rec[e].state /\ s.hash = rec[e].hash /\ s.lease = w
<1> DEFINE r == rec[e]
           s == [r EXCEPT !.lease = w, !.expired = FALSE]
<1>1. r \in Row /\ Canonical(r)
  BY RowFacts
<1>2. /\ s.state = r.state /\ s.msg = r.msg /\ s.att = r.att /\ s.hash = r.hash
      /\ s.reason = r.reason /\ s.lease = w /\ s.expired = FALSE
  BY <1>1 DEF Row
<1> HIDE DEF s
<1>3. Canonical(s)
  BY <1>1, <1>2, NoneApart
     DEF Canonical, assertCanonicalRelayRecord, Claimable, RELAY_CLAIMABLE_STATES, Terminal,
         RELAY_TERMINAL_STATES
<1>4. FollowsTo(e, s)
  BY <1>2, <1>3 DEF FollowsTo, StatusStep, StatusOf, Claimable, RELAY_CLAIMABLE_STATES
<1>5. \A v \in Workers : v # w => SameFor(v, r, s)
  BY <1>2 DEF SameFor
<1> QED BY <1>2, <1>4, <1>5 DEF s

\* Evidence is stored before the fence only.
LEMMA AttestedFollows ==
  ASSUME Inv, Inv2, NEW e \in Execs, NEW w \in Workers, rec[e].lease = w,
         rec[e].state \in {"attestation_pending", "attested"}, NEW s,
         s.state = "attested", s.msg \in Messages, s.att \in Attestations, s.hash = rec[e].hash,
         s.reason = rec[e].reason, s.lease = w
  PROVE  FollowsTo(e, s) /\ \A v \in Workers : v # w => SameFor(v, rec[e], s)
<1>1. rec[e] \in Row /\ Canonical(rec[e])
  BY RowFacts
<1>2. Canonical(s)
  BY <1>1, NoneApart DEF Canonical, assertCanonicalRelayRecord, Terminal, RELAY_TERMINAL_STATES
<1>3. FollowsTo(e, s)
  BY <1>2 DEF FollowsTo, StatusStep, StatusOf, Unfenced
<1> QED BY <1>3 DEF SameFor

\* A hash that is not null is stored past the fence.
LEMMA SubmittedFollows ==
  ASSUME Inv, Inv2, NEW e \in Execs, NEW w \in Workers, rec[e].lease = w,
         rec[e].state = "mint_submitting", NEW h \in Nat, h # 0
  PROVE  LET s == [rec[e] EXCEPT !.state = "mint_submitted", !.hash = h]
         IN /\ FollowsTo(e, s) /\ \A v \in Workers : v # w => SameFor(v, rec[e], s)
            /\ s.state = "mint_submitted" /\ s.hash = h
<1> DEFINE r == rec[e]
           s == [r EXCEPT !.state = "mint_submitted", !.hash = h]
<1>1. r \in Row /\ Canonical(r)
  BY RowFacts
<1>2. /\ s.state = "mint_submitted" /\ s.msg = r.msg /\ s.att = r.att /\ s.hash = h
      /\ s.reason = r.reason /\ s.lease = w /\ s.expired = r.expired
  BY <1>1 DEF Row
<1> HIDE DEF s
<1>3. Canonical(s)
  BY <1>1, <1>2, NoneApart
     DEF Canonical, assertCanonicalRelayRecord, Terminal, RELAY_TERMINAL_STATES
<1>4. StatusStep(r, s)
  BY <1>2 DEF StatusStep, StatusOf, Ledger!Successors
<1>5. FollowsTo(e, s)
  BY <1>2, <1>3, <1>4 DEF FollowsTo
<1>6. \A v \in Workers : v # w => SameFor(v, r, s)
  BY <1>2 DEF SameFor
<1> QED BY <1>2, <1>5, <1>6 DEF s

\* A new row is canonical.
LEMMA EnqueuedFollows ==
  ASSUME Inv, Inv2, NEW e \in Execs, NEW i \in Intents
  PROVE  FollowsTo(e, Enqueued(e, i)) /\ \A v \in Workers : SameFor(v, rec[e], Enqueued(e, i))
<1>1. CASE rec[e].state # "absent"
  BY <1>1, SameRow DEF Enqueued
<1>2. CASE rec[e].state = "absent"
  <2> DEFINE s == relayNewPendingRecord(i)
  <2>1. /\ s.state = "attestation_pending" /\ s.msg = None /\ s.att = None /\ s.hash = 0
        /\ s.reason = None /\ s.lease = None /\ s.expired = FALSE
    BY DEF relayNewPendingRecord, NoRow
  <2> HIDE DEF s
  <2>2. Canonical(s)
    BY <2>1 DEF Canonical, assertCanonicalRelayRecord, Terminal, RELAY_TERMINAL_STATES
  <2>3. StatusStep(rec[e], s)
    BY <1>2, <2>1 DEF StatusStep, StatusOf, Ledger!Successors
  <2>4. FollowsTo(e, s)
    BY <1>2, <2>1, <2>2, <2>3 DEF FollowsTo, Unfenced
  <2> QED BY <1>2, <2>1, <2>4, Nobodys DEF s, Enqueued
<1> QED BY <1>1, <1>2

LEMMA ExpiredFollows ==
  ASSUME Inv, Inv2, NEW e \in Execs, rec[e].lease # None
  PROVE  LET s == [rec[e] EXCEPT !.expired = TRUE]
         IN FollowsTo(e, s) /\ \A v \in Workers : SameFor(v, rec[e], s)
<1> DEFINE r == rec[e]
           s == [r EXCEPT !.expired = TRUE]
<1>1. r \in Row /\ Canonical(r) /\ Truth(e)
  BY RowFacts
<1>2. /\ s.state = r.state /\ s.msg = r.msg /\ s.att = r.att /\ s.hash = r.hash
      /\ s.reason = r.reason /\ s.lease = r.lease
  BY <1>1 DEF Row
<1> HIDE DEF s
<1>3. Canonical(s)
  BY <1>1, <1>2 DEF Canonical, assertCanonicalRelayRecord, Terminal
<1>4. FollowsTo(e, s)
  BY <1>2, <1>3 DEF FollowsTo, StatusStep, StatusOf
<1>5. \A v \in Workers : SameFor(v, r, s)
  BY <1>2 DEF SameFor
<1> QED BY <1>4, <1>5 DEF s

-----------------------------------------------------------------------------
(* The actions that send nothing *)

\* A call ends: its row follows, and what it deposits is minted.
LEMMA EndingTame ==
  ASSUME Inv, Inv2, NEW w \in Workers, call[w].pc \notin {"idle", "sweep", "send"}, NEW s,
         FollowsTo(call[w].exec, s), \A v \in Workers : SameFor(v, RowOf(w), s),
         Save(w, s), Return(w), UNCHANGED chainVars,
         \A f \in dispatched' : f \in dispatched \/ mint[f] = "ok"
  PROVE  Tame
<1> DEFINE e == call[w].exec
           c == AfterCall(call[w])
<1>1. call[w] \in Call /\ e \in Execs /\ RowOf(w) = rec[e]
  BY WorkedRow
<1>2. c.pc \in {"idle", "sweep"}
  BY <1>1, AfterCallTyped
<1>3. call' = [call EXCEPT ![w] = c] /\ rec' = [rec EXCEPT ![e] = s]
  BY DEF Return, Save, Inv, TypeOK
<1> HIDE DEF c
<1>4. c.pc \notin Driving
  BY <1>2 DEF Driving
<1> QED BY <1>1, <1>2, <1>3, <1>4, OneRow

\* A deposit is made for a row that is minted, or is being found minted.
LEMMA DepositTrue ==
  ASSUME Inv, Inv2, NEW e \in Execs, NEW r, Deposits(r, e), r.state = "minted" => mint[e] = "ok"
  PROVE  \A f \in dispatched' : f \in dispatched \/ mint[f] = "ok"
BY DEF Deposits

LEMMA EndsTame ==
  ASSUME Inv, Inv2, NEW w \in Workers
  PROVE  /\ DriveAnswer(w) => Tame
         /\ \A reason \in RELAY_BLOCKED_REASONS : PollBlocked(w, reason) => Tame
         /\ SubmitUnknown(w) => Tame
         /\ SubmitCheckpointFailed(w) => Tame
         /\ ConfirmMinted(w) => Tame
         /\ ConfirmReverted(w) => Tame
         /\ ConfirmPending(w) => Tame
         /\ Refused(w) => Tame
         /\ \A released \in BOOLEAN : GiveUp(w, released) => Tame
<1> DEFINE e == call[w].exec
<1>0. ASSUME call[w].pc \notin {"idle", "sweep"}
      PROVE  /\ e \in Execs /\ RowOf(w) = rec[e] /\ call[w] \in Call
             /\ call[w].hash \in Nat /\ rec[e].hash \in Nat /\ Phase(w)
             /\ rec' = rec => Save(w, rec[e])
             /\ FollowsTo(e, rec[e]) /\ \A v \in Workers : SameFor(v, rec[e], rec[e])
             /\ Truth(e)
  BY <1>0, WorkedRow, KeptRow, SameRow DEF Inv2
<1>1. ASSUME DriveAnswer(w) PROVE Tame
  <2>1. /\ call[w].pc = "drive" /\ Return(w) /\ UNCHANGED <<rec, chainVars>>
        /\ UNCHANGED dispatched \/ Deposits(RowOf(w), e)
    BY <1>1 DEF DriveAnswer
  <2>2. RowOf(w).state = "minted" => mint[e] = "ok"
    BY <1>0, <2>1 DEF Truth
  <2>3. \A f \in dispatched' : f \in dispatched \/ mint[f] = "ok"
    BY <1>0, <2>1, <2>2, DepositTrue
  <2> QED BY <1>0, <2>1, <2>3, EndingTame
<1>2. ASSUME NEW reason \in RELAY_BLOCKED_REASONS, PollBlocked(w, reason) PROVE Tame
  <2>1. /\ call[w].pc = "poll" /\ Return(w) /\ UNCHANGED <<chainVars, dispatched>>
        /\ Save(w, relayFinishBlocked(RowOf(w), reason)) /\ RowOf(w).lease = w
        /\ reason # "destination_reverted"
    BY <1>2 DEF PollBlocked, Holds, PollVerdicts
  <2>2. rec[e].state \in {"attestation_pending", "attested"}
    BY <1>0, <2>1 DEF Phase, Known, Driving
  <2>3. /\ FollowsTo(e, relayFinishBlocked(RowOf(w), reason))
        /\ \A v \in Workers : SameFor(v, RowOf(w), relayFinishBlocked(RowOf(w), reason))
    BY <1>0, <2>1, <2>2, PollBlockedFollows
  <2> QED BY <2>1, <2>3, EndingTame
<1>3. ASSUME SubmitUnknown(w) PROVE Tame
  <2>1. /\ call[w].pc = "failed" /\ Return(w) /\ UNCHANGED <<chainVars, dispatched>>
        /\ Save(w, relayFinishUncertain(RowOf(w), RowOf(w).hash, "submission_unknown"))
        /\ RowOf(w).state = "mint_submitting"
    BY <1>3 DEF SubmitUnknown
  <2>2. "submission_unknown" \in RELAY_UNCERTAIN_REASONS
    BY DEF RELAY_UNCERTAIN_REASONS
  <2> DEFINE s == relayFinishUncertain(RowOf(w), RowOf(w).hash, "submission_unknown")
  <2>3. FollowsTo(e, s) /\ \A v \in Workers : SameFor(v, RowOf(w), s)
    BY <1>0, <2>1, <2>2, UncertainFollows
  <2> QED BY <2>1, <2>3, EndingTame
<1>4. ASSUME SubmitCheckpointFailed(w) PROVE Tame
  <2>1. /\ call[w].pc = "sent" /\ Return(w) /\ UNCHANGED <<chainVars, dispatched>>
        /\ Save(w, relayFinishUncertain(RowOf(w), call[w].hash, "submitted_checkpoint_failed"))
        /\ RowOf(w).state = "mint_submitting"
    BY <1>4 DEF SubmitCheckpointFailed
  <2>2. "submitted_checkpoint_failed" \in RELAY_UNCERTAIN_REASONS
    BY DEF RELAY_UNCERTAIN_REASONS
  <2> DEFINE s == relayFinishUncertain(RowOf(w), call[w].hash, "submitted_checkpoint_failed")
  <2>3. FollowsTo(e, s) /\ \A v \in Workers : SameFor(v, RowOf(w), s)
    BY <1>0, <2>1, <2>2, UncertainFollows
  <2> QED BY <2>1, <2>3, EndingTame
<1>5. ASSUME ConfirmMinted(w) PROVE Tame
  <2> DEFINE s == relayFinishMinted(RowOf(w))
  <2>1. /\ call[w].pc = "confirm" /\ Return(w) /\ UNCHANGED chainVars /\ Save(w, s)
        /\ RowOf(w).state = "mint_submitted" /\ RowOf(w).hash = sends[e] /\ mint[e] = "ok"
        /\ UNCHANGED dispatched \/ Deposits(s, e)
    BY <1>5 DEF ConfirmMinted, Receipt
  <2>2. FollowsTo(e, s) /\ \A v \in Workers : SameFor(v, RowOf(w), s)
    BY <1>0, <2>1, MintedFollows
  <2> HIDE DEF s
  <2>3. \A f \in dispatched' : f \in dispatched \/ mint[f] = "ok"
    BY <1>0, <2>1, DepositTrue
  <2> QED BY <2>1, <2>2, <2>3, EndingTame
<1>6. ASSUME ConfirmReverted(w) PROVE Tame
  <2> DEFINE s == relayFinishBlocked(RowOf(w), "destination_reverted")
  <2>1. /\ call[w].pc = "confirm" /\ Return(w) /\ UNCHANGED <<chainVars, dispatched>>
        /\ Save(w, s) /\ RowOf(w).lease = w /\ mint[e] = "reverted"
    BY <1>6 DEF ConfirmReverted, Receipt, Holds
  <2>2. rec[e].state = "mint_submitted"
    BY <1>0, <2>1 DEF Phase, Known, Driving
  <2>3. FollowsTo(e, s) /\ \A v \in Workers : SameFor(v, RowOf(w), s)
    BY <1>0, <2>1, <2>2, RevertedFollows
  <2> QED BY <2>1, <2>3, EndingTame
<1>7. ASSUME ConfirmPending(w) PROVE Tame
  <2>1. /\ call[w].pc = "confirm" /\ Return(w) /\ UNCHANGED <<chainVars, dispatched>>
        /\ Save(w, relayRelease(w))
    BY <1>7 DEF ConfirmPending
  <2>2. FollowsTo(e, relayRelease(w)) /\ \A v \in Workers : SameFor(v, RowOf(w), relayRelease(w))
    BY <1>0, <2>1, ReleaseFollows
  <2> QED BY <2>1, <2>2, EndingTame
<1>8. ASSUME Refused(w) PROVE Tame
  <2>1. /\ call[w].pc \notin {"idle", "sweep", "send"} /\ Return(w)
        /\ UNCHANGED <<rec, chainVars, dispatched>>
    BY <1>8 DEF Refused, Driving
  <2> QED BY <1>0, <2>1, EndingTame
<1>9. ASSUME NEW released \in BOOLEAN, GiveUp(w, released) PROVE Tame
  <2> DEFINE s == IF released THEN relayRelease(w) ELSE RowOf(w)
  <2>1. /\ call[w].pc \notin {"idle", "sweep", "send"} /\ Return(w)
        /\ UNCHANGED <<chainVars, dispatched>> /\ Save(w, s)
    BY <1>9 DEF GiveUp, Driving
  <2>2. FollowsTo(e, s) /\ \A v \in Workers : SameFor(v, RowOf(w), s)
    BY <1>0, <2>1, ReleaseFollows
  <2> QED BY <2>1, <2>2, EndingTame
<1> QED BY <1>1, <1>2, <1>3, <1>4, <1>5, <1>6, <1>7, <1>8, <1>9

LEMMA MovesTame ==
  ASSUME Inv, Inv2, NEW w \in Workers
  PROVE  /\ \A e \in Execs : SweepRow(w, e) => Tame
         /\ DriveClaim(w) => Tame
         /\ \A m \in Messages, a \in Attestations : PollAttested(w, m, a) => Tame
         /\ SubmitCheckpoint(w) => Tame
<1>0. call[w] \in Call
  BY DEF Inv, TypeOK
<1>1. ASSUME NEW e \in Execs, SweepRow(w, e) PROVE Tame
  <2> DEFINE rest == [call[w] EXCEPT !.todo = @ \ {e}]
             c == IF e \in inFlight(ProcOf[w]) THEN AfterCall(rest)
                  ELSE [rest EXCEPT !.pc = "drive", !.exec = e]
  <2>1. rest \in Call
    BY <1>0 DEF Call
  <2>2. [rest EXCEPT !.pc = "drive", !.exec = e].pc = "drive"
    BY <2>1 DEF Call
  <2>3. AfterCall(rest).pc \in {"idle", "sweep"}
    BY <2>1, AfterCallTyped
  <2>4. /\ call' = [call EXCEPT ![w] = c] /\ rec' = [rec EXCEPT ![e] = rec[e]]
        /\ UNCHANGED <<chainVars, dispatched>> /\ call[w].pc # "send"
    BY <1>1 DEF SweepRow, Inv, TypeOK
  <2> HIDE DEF rest
  <2>5. c.pc \notin Driving /\ c.pc \notin {"send", "sent"}
    BY <2>2, <2>3 DEF Driving
  <2> HIDE DEF c
  <2> QED BY <2>4, <2>5, SameRow, OneRow
<1>2. ASSUME DriveClaim(w) PROVE Tame
  <2> DEFINE e == call[w].exec
             r == rec[e]
             s == [r EXCEPT !.lease = w, !.expired = FALSE]
             c == [call[w] EXCEPT !.pc = IF r.state = "mint_submitted" THEN "confirm" ELSE "poll",
                                  !.from = r.state, !.hash = r.hash]
  <2>1. /\ call[w].pc = "drive" /\ Claimable(r) /\ rec' = [rec EXCEPT ![e] = s]
        /\ UNCHANGED <<chainVars, dispatched>> /\ e \in Execs
        /\ call' = [call EXCEPT ![w] = c]
    BY <1>2, WorkedRow DEF DriveClaim, relayClaimable, Save, RowOf, Inv, TypeOK
  <2>2. /\ c.pc = IF r.state = "mint_submitted" THEN "confirm" ELSE "poll"
        /\ c.exec = e /\ c.hash = r.hash
    BY <1>0 DEF Call
  <2>3. /\ FollowsTo(e, s) /\ \A v \in Workers : v # w => SameFor(v, r, s)
        /\ s.state = r.state /\ s.hash = r.hash
    BY <2>1, ClaimFollows
  <2> HIDE DEF c, s
  <2>4. Known(w, c, s)
    BY <2>1, <2>2, <2>3 DEF Known, Claimable, RELAY_CLAIMABLE_STATES
  <2> QED BY <2>1, <2>2, <2>3, <2>4, OneRow
<1>3. ASSUME NEW m \in Messages, NEW a \in Attestations, PollAttested(w, m, a) PROVE Tame
  <2> PICK e \in Execs : e = call[w].exec
    BY <1>3, WorkedRow DEF PollAttested
  <2> DEFINE r == rec[e]
             s == [r EXCEPT !.state = "attested", !.msg = m, !.att = a]
             c == [call[w] EXCEPT !.pc = "fence", !.msg = m, !.att = a]
  <2>1. /\ call[w].pc = "poll" /\ r.state \in {"attestation_pending", "attested"}
        /\ rec' = [rec EXCEPT ![e] = s] /\ r.lease = w
        /\ UNCHANGED <<chainVars, dispatched>> /\ e \in Execs
        /\ call' = [call EXCEPT ![w] = c]
    BY <1>3, WorkedRow DEF PollAttested, Holds, Save, RowOf, Inv, TypeOK
  <2>2. c.pc = "fence" /\ c.exec = e /\ c.msg = m /\ c.att = a
    BY <1>0 DEF Call
  <2>3. /\ FollowsTo(e, s) /\ \A v \in Workers : v # w => SameFor(v, r, s)
        /\ s.state = "attested" /\ s.msg = m /\ s.att = a
    <3>1. r \in Row
      BY DEF Inv, TypeOK
    <3>2. /\ s.state = "attested" /\ s.msg = m /\ s.att = a /\ s.hash = r.hash
          /\ s.reason = r.reason /\ s.lease = w
      BY <2>1, <3>1 DEF Row
    <3> HIDE DEF s
    <3> QED BY <2>1, <3>2, AttestedFollows
  <2> HIDE DEF c, s
  <2>4. Known(w, c, s)
    BY <2>2, <2>3 DEF Known
  <2> QED BY <2>1, <2>2, <2>3, <2>4, OneRow
<1>4. ASSUME SubmitCheckpoint(w) PROVE Tame
  <2> DEFINE e == call[w].exec
             r == rec[e]
             s == [r EXCEPT !.state = "mint_submitted", !.hash = call[w].hash]
             c == [call[w] EXCEPT !.pc = "confirm"]
  <2>1. /\ call[w].pc = "sent" /\ r.state = "mint_submitting"
        /\ rec' = [rec EXCEPT ![e] = s] /\ r.lease = w
        /\ UNCHANGED <<chainVars, dispatched>> /\ e \in Execs
        /\ call' = [call EXCEPT ![w] = c]
    BY <1>4, WorkedRow DEF SubmitCheckpoint, Holds, Save, RowOf, Inv, TypeOK
  <2>2. c.pc = "confirm" /\ c.exec = e /\ c.hash = call[w].hash
    BY <1>0 DEF Call
  <2>3. call[w].hash \in Nat /\ call[w].hash # 0
    BY <1>0, <2>1 DEF Call, Inv2, HashKnown
  <2>4. /\ FollowsTo(e, s) /\ \A v \in Workers : v # w => SameFor(v, r, s)
        /\ s.state = "mint_submitted" /\ s.hash = call[w].hash
    BY <2>1, <2>3, SubmittedFollows
  <2> HIDE DEF c, s
  <2>5. Known(w, c, s)
    BY <2>2, <2>4 DEF Known
  <2> QED BY <2>1, <2>2, <2>4, <2>5, OneRow
<1> QED BY <1>1, <1>2, <1>3, <1>4

\* relayMint answers from a terminal row or starts a call.
LEMMA RelayMintTame ==
  ASSUME Inv, Inv2, NEW w \in Workers, NEW e \in Execs, NEW i \in Intents, relayMint(w, e, i)
  PROVE  Tame
<1> DEFINE s == Enqueued(e, i)
           d == [IdleCall EXCEPT !.pc = "drive", !.kind = "relay", !.exec = e]
           c == IF Terminal(s) THEN call[w] ELSE d
<1>1. /\ call[w].pc = "idle" /\ call' = [call EXCEPT ![w] = c] /\ rec' = [rec EXCEPT ![e] = s]
      /\ UNCHANGED chainVars /\ Deposits(s, e)
  BY DEF relayMint, Inv, TypeOK
<1>2. d.pc = "drive"
  BY NewCallTyped
<1> HIDE DEF d
<1>3. c.pc \notin Driving /\ c.pc \notin {"send", "sent"}
  BY <1>1, <1>2 DEF Driving
<1>4. s.state = "minted" => mint[e] = "ok"
  <2>1. CASE rec[e].state = "absent"
    BY <2>1 DEF Enqueued, relayNewPendingRecord, NoRow
  <2>2. CASE rec[e].state # "absent"
    BY <2>2 DEF Enqueued, Inv2, Truth
  <2> QED BY <2>1, <2>2
<1>5. FollowsTo(e, s) /\ \A v \in Workers : SameFor(v, rec[e], s)
  BY EnqueuedFollows
<1> HIDE DEF s, c
<1>6. \A f \in dispatched' : f \in dispatched \/ mint[f] = "ok"
  BY <1>1, <1>4, DepositTrue
<1> QED BY <1>1, <1>3, <1>5, <1>6, OneRow

LEMMA ResumeTame ==
  ASSUME Inv, Inv2, NEW w \in Workers, NEW e \in Execs, resumeExisting(w, e)
  PROVE  Tame
<1> DEFINE s == Reconciled(rec[e])
           d == [IdleCall EXCEPT !.pc = "drive", !.kind = "resume", !.exec = e]
           c == IF Terminal(rec'[e]) THEN call[w] ELSE d
<1>1. /\ call[w].pc = "idle" /\ call' = [call EXCEPT ![w] = c] /\ rec' = [rec EXCEPT ![e] = s]
      /\ UNCHANGED <<chainVars, dispatched>>
  BY DEF resumeExisting, Inv, TypeOK
<1>2. d.pc = "drive"
  BY NewCallTyped
<1> HIDE DEF d
<1>3. c.pc \notin Driving /\ c.pc \notin {"send", "sent"}
  BY <1>1, <1>2 DEF Driving
<1>5. FollowsTo(e, s) /\ \A v \in Workers : SameFor(v, rec[e], s)
  BY ReconciledFollows
<1> HIDE DEF s, c
<1> QED BY <1>1, <1>3, <1>5, OneRow

\* The sweep reconciles every row at once.
LEMMA SweepTame ==
  ASSUME Inv, Inv2, NEW w \in Workers, sweepStuck(w)
  PROVE  Tame
<1> DEFINE t == Sweepable(rec')
           b == [call[w] EXCEPT !.kind = "sweep", !.todo = t]
           c == AfterCall(b)
<1>1. t \in SUBSET Execs /\ call[w] \in Call
  BY DEF Sweepable, Inv, TypeOK
<1> HIDE DEF t
<1>2. b \in Call
  BY <1>1 DEF Call
<1>3. /\ call[w].pc = "idle" /\ call' = [call EXCEPT ![w] = c] /\ UNCHANGED <<chainVars, dispatched>>
      /\ rec' = [e \in Execs |-> Reconciled(rec[e])]
  BY DEF sweepStuck, Inv, TypeOK, t
<1>4. c.pc \in {"idle", "sweep"}
  BY <1>2, AfterCallTyped
<1> HIDE DEF b, c
<1>5. \A e \in Execs : Follows(e) /\ \A v \in Workers : SameFor(v, rec[e], rec'[e])
  BY <1>3, ReconciledFollows DEF Follows
<1>6. \A v \in Workers : call'[v] = IF v = w THEN c ELSE call[v]
  BY <1>3 DEF Inv, TypeOK
<1>7. ASSUME NEW v \in Workers
      PROVE  \/ call'[v] = call[v] /\ SameFor(v, RowOf(v), rec'[call[v].exec])
             \/ Phase(v)' /\ call'[v].pc \notin {"send", "sent"}
  <2>1. CASE call'[v].pc \in {"idle", "sweep"}
    BY <2>1 DEF Phase, Known, Driving
  <2>2. CASE call'[v].pc \notin {"idle", "sweep"}
    <3>1. call'[v] = call[v] /\ call[v].exec \in Execs
      BY <1>4, <1>6, <2>2 DEF Inv, ExecKnown
    <3> QED BY <1>5, <3>1 DEF RowOf
  <2> QED BY <2>1, <2>2
<1>8. \A v \in Workers : call[v].pc = "send" => call'[v] = call[v]
  BY <1>3, <1>6
<1> QED BY <1>3, <1>5, <1>7, <1>8 DEF Tame

\* A crash ends calls and leaves rows, a step that changes nothing leaves both.
LEMMA RowsKeptTame ==
  ASSUME Inv, Inv2, UNCHANGED <<rec, chainVars, dispatched>>,
         \A v \in Workers : call'[v] = IdleCall \/ call'[v] = call[v]
  PROVE  Tame
<1>1. \A e \in Execs : Follows(e)
  BY SameRow DEF Follows
<1>2. ASSUME NEW v \in Workers
      PROVE  \/ call'[v] = call[v] /\ SameFor(v, RowOf(v), rec'[call[v].exec])
             \/ Phase(v)' /\ call'[v].pc \notin {"send", "sent"}
  <2>1. CASE call'[v] = IdleCall
    BY <2>1, IdleTyped DEF Phase, Known, Driving
  <2>2. CASE call'[v] = call[v]
    BY <2>2 DEF SameFor, RowOf
  <2> QED BY <2>1, <2>2
<1> QED BY <1>1, <1>2 DEF Tame

LEMMA ExpiryTame ==
  ASSUME Inv, Inv2, NEW e \in Execs, LeaseExpires(e)
  PROVE  Tame
<1> DEFINE s == [rec[e] EXCEPT !.expired = TRUE]
<1>1. /\ rec[e].lease # None /\ rec' = [rec EXCEPT ![e] = s]
      /\ UNCHANGED <<call, chainVars, dispatched>>
  BY DEF LeaseExpires, Inv, TypeOK
<1>2. FollowsTo(e, s) /\ \A v \in Workers : SameFor(v, rec[e], s)
  BY <1>1, ExpiredFollows
<1> HIDE DEF s
<1>3. \A f \in Execs : rec'[f] = IF f = e THEN s ELSE rec[f]
  BY <1>1 DEF Inv, TypeOK
<1>4. \A f \in Execs : Follows(f) /\ \A v \in Workers : SameFor(v, rec[f], rec'[f])
  BY <1>2, <1>3, SameRow DEF Follows
<1>5. ASSUME NEW v \in Workers
      PROVE  \/ call'[v] = call[v] /\ SameFor(v, RowOf(v), rec'[call[v].exec])
             \/ Phase(v)' /\ call'[v].pc \notin {"send", "sent"}
  <2>1. CASE call[v].pc \in {"idle", "sweep"}
    BY <1>1, <2>1 DEF Phase, Known, Driving
  <2>2. CASE call[v].pc \notin {"idle", "sweep"}
    BY <1>1, <1>4, <2>2 DEF RowOf, Inv, ExecKnown
  <2> QED BY <2>1, <2>2
<1> QED BY <1>1, <1>4, <1>5 DEF Tame

-----------------------------------------------------------------------------
(* The fence, the send and the chain *)

\* The chain settles what was pending: no row speaks of it yet.
LEMMA ChainStep ==
  ASSUME Inv, Inv2, NEW e \in Execs, NEW fate \in {"ok", "reverted"}, ChainSettles(e, fate)
  PROVE  Inv2' /\ LedgerStep
<1>1. /\ mint[e] = "pending" /\ UNCHANGED <<rec, call, sends, wire, dispatched>>
      /\ \A f \in Execs : mint'[f] = IF f = e THEN fate ELSE mint[f]
  BY DEF ChainSettles, Inv, TypeOK
<1>2. \A f \in Execs : Truth(f)'
  BY <1>1 DEF Inv2, Truth, Sending
<1>3. Inv2'
  BY <1>1, <1>2 DEF Inv2, Phase, RowOf, HashKnown
<1>4. UNCHANGED Ledger!ledgerVars
  BY <1>1 DEF Ledger!ledgerVars
<1> QED BY <1>3, <1>4 DEF LedgerStep

\* Crossing the fence issues the ledger's ticket.
LEMMA FenceStep ==
  ASSUME Inv, Inv', Inv2, NEW w \in Workers, SubmitFence(w)
  PROVE  Inv2' /\ LedgerStep
<1> PICK e \in Execs : e = call[w].exec
  BY WorkedRow DEF SubmitFence
<1> DEFINE r == rec[e]
           s == [r EXCEPT !.state = "mint_submitting"]
           c == [call[w] EXCEPT !.pc = "send"]
<1>1. call[w] \in Call /\ e \in Execs /\ call[w].pc = "fence" /\ r.lease = w /\ r.state = "attested"
  BY WorkedRow DEF SubmitFence, Holds, RowOf
<1>2. /\ call' = [call EXCEPT ![w] = c] /\ rec' = [rec EXCEPT ![e] = s]
      /\ UNCHANGED <<sends, mint, wire, dispatched>>
  BY DEF SubmitFence, Save, RowOf, Inv, TypeOK, chainVars
<1>3. /\ r \in Row /\ Canonical(r) /\ Truth(e) /\ mint[e] = "none"
      /\ \A v \in Workers : ~Sending(v, e)
  BY <1>1, RowFacts DEF Unfenced
<1>4. /\ s.state = "mint_submitting" /\ s.msg = r.msg /\ s.att = r.att /\ s.hash = r.hash
      /\ s.reason = r.reason /\ s.lease = w /\ s.expired = r.expired
  BY <1>1, <1>3 DEF Row
<1>5. c.pc = "send" /\ c.exec = e /\ c.msg = call[w].msg /\ c.att = call[w].att
  BY <1>1 DEF Call
<1>6. r.msg = call[w].msg /\ r.att = call[w].att
  BY <1>1 DEF Inv2, Phase, Known, RowOf, Driving
<1>7. sends[e] = 0
  BY <1>1 DEF Inv, UnsentBeforeFence, Unfenced
<1> HIDE DEF s, c
<1>8. /\ \A f \in Execs : rec'[f] = IF f = e THEN s ELSE rec[f]
      /\ \A v \in Workers : call'[v] = IF v = w THEN c ELSE call[v]
  BY <1>2 DEF Inv, TypeOK
<1>9. Canonical(s)
  BY <1>1, <1>3, <1>4, NoneApart
     DEF Canonical, assertCanonicalRelayRecord, Terminal, RELAY_TERMINAL_STATES
<1>10. \A f \in Execs : Canonical(rec'[f])
  BY <1>8, <1>9 DEF Inv2
<1>11. ASSUME NEW f \in Execs PROVE Truth(f)'
  <2>1. \A v \in Workers : Sending(v, f)' <=> (Sending(v, f) \/ (v = w /\ f = e))
    BY <1>1, <1>5, <1>8 DEF Sending
  <2>2. CASE f = e
    BY <1>1, <1>2, <1>3, <1>4, <1>5, <1>6, <1>7, <1>8, <2>1, <2>2 DEF Truth
  <2>3. CASE f # e
    <3>1. \A v \in Workers : Sending(v, f) => call'[v] = call[v]
      BY <1>1, <1>8, <2>3 DEF Sending
    <3> QED BY <1>2, <1>8, <2>1, <2>3, <3>1 DEF Inv2, Truth
  <2> QED BY <2>2, <2>3
<1>12. ASSUME NEW v \in Workers PROVE Phase(v)'
  <2>1. CASE v = w
    BY <1>4, <1>5, <1>6, <1>8, <1>1, <2>1 DEF Phase, Known, RowOf
  <2>2. CASE v # w /\ call[v].pc \in {"idle", "sweep"}
    BY <1>8, <2>2 DEF Phase, Known, Driving
  <2>3. CASE v # w /\ call[v].pc \notin {"idle", "sweep"}
    <3>1. call[v].exec \in Execs /\ Phase(v) /\ call'[v] = call[v]
      BY <1>8, <2>3 DEF Inv, ExecKnown, Inv2
    <3> QED BY <1>4, <1>8, <2>3, <3>1 DEF Phase, Known, RowOf
  <2> QED BY <2>1, <2>2, <2>3
<1>13. HashKnown'
  BY <1>5, <1>8 DEF Inv2, HashKnown
<1>14. Inv2'
  BY <1>10, <1>11, <1>12, <1>13 DEF Inv2
<1> DEFINE st == [f \in Execs |-> StatusOf(rec[f])]
           tk == {f \in Execs : \E v \in Workers : call[v].pc = "send" /\ call[v].exec = f}
<1>15. st[e] = "open" /\ StatusOf(s) = "fenced"
  BY <1>1, <1>4 DEF StatusOf
<1>16. st' = [st EXCEPT ![e] = "fenced"]
  BY <1>1, <1>8, <1>15
<1>17. tk' = tk \cup {e}
  <2>1. ASSUME NEW f \in Execs PROVE f \in tk' <=> f \in tk \cup {e}
    BY <1>1, <1>5, <1>8
  <2> QED BY <1>1, <2>1
<1>18. Ledger!Fence(e)
  BY <1>2, <1>15, <1>16, <1>17 DEF Ledger!Fence
<1> QED BY <1>1, <1>14, <1>18 DEF LedgerStep, Ledger!LedgerNext

\* The send uses it.
LEMMA SendStep ==
  ASSUME Inv, Inv', Inv2, NEW w \in Workers, NEW fate \in {"pending", "lost"},
         NEW answer \in {"sent", "failed"}, SubmitSend(w, fate, answer)
  PROVE  Inv2' /\ LedgerStep
<1> PICK e \in Execs : e = call[w].exec
  BY WorkedRow DEF SubmitSend
<1> DEFINE h == IF answer = "sent" THEN sends[e] + 1 ELSE call[w].hash
           c == [call[w] EXCEPT !.pc = answer, !.hash = h]
<1>1. call[w] \in Call /\ e \in Execs /\ Sending(w, e) /\ sends[e] = 0
  BY WorkedRow DEF SubmitSend, Sending, Inv, OneTicket
<1>2. /\ sends' = [sends EXCEPT ![e] = sends[e] + 1] /\ mint' = [mint EXCEPT ![e] = fate]
      /\ wire' = [wire EXCEPT ![e] = <<call[w].msg, call[w].att>>]
      /\ UNCHANGED <<rec, dispatched>>
  BY DEF SubmitSend, Inv, TypeOK
<1>3. sends'[e] = sends[e] + 1
  BY <1>1, <1>2 DEF Inv, TypeOK
<1>4. call' = [call EXCEPT ![w] = c]
  BY <1>3 DEF SubmitSend, Inv, TypeOK
<1>5. answer = "sent" => h # 0
  BY <1>1
<1> HIDE DEF h
<1>6. c.pc = answer /\ c.exec = e /\ c.hash = h /\ c.msg = call[w].msg /\ c.att = call[w].att
  BY <1>1 DEF Call
<1> HIDE DEF c
<1>7. /\ \A v \in Workers : call'[v] = IF v = w THEN c ELSE call[v]
      /\ \A f \in Execs : sends'[f] = IF f = e THEN sends[e] + 1 ELSE sends[f]
      /\ \A f \in Execs : mint'[f] = IF f = e THEN fate ELSE mint[f]
      /\ \A f \in Execs : wire'[f] = IF f = e THEN <<call[w].msg, call[w].att>> ELSE wire[f]
      /\ rec' = rec /\ dispatched' = dispatched
  BY <1>2, <1>4 DEF Inv, TypeOK
<1>8. \A v \in Workers : Sending(v, e) => v = w
  BY <1>1 DEF Inv, OneTicket
<1>9. Truth(e) /\ Canonical(rec[e])
  BY <1>1 DEF Inv2
<1>10. /\ rec[e].state # "minted" /\ rec[e].state # "blocked" /\ e \notin dispatched
       /\ call[w].msg = rec[e].msg /\ call[w].att = rec[e].att
  BY <1>1, <1>9 DEF Truth
<1>11. ASSUME NEW f \in Execs PROVE Truth(f)'
  <2>1. \A v \in Workers : Sending(v, f)' => Sending(v, f) /\ v # w /\ call'[v] = call[v]
    BY <1>6, <1>7 DEF Sending
  <2>2. CASE f = e
    <3>1. \A v \in Workers : ~Sending(v, e)'
      BY <1>8, <2>1, <2>2
    <3> QED BY <1>1, <1>7, <1>10, <2>2, <3>1 DEF Truth
  <2>3. CASE f # e
    BY <1>7, <2>1, <2>3 DEF Inv2, Truth
  <2> QED BY <2>2, <2>3
<1>12. ASSUME NEW v \in Workers PROVE Phase(v)'
  <2>1. CASE v = w
    BY <1>1, <1>6, <1>7, <2>1 DEF Inv2, Phase, Known, RowOf, Sending, Driving
  <2>2. CASE v # w
    BY <1>7, <2>2 DEF Inv2, Phase, RowOf
  <2> QED BY <2>1, <2>2
<1>13. HashKnown'
  BY <1>5, <1>6, <1>7 DEF Inv2, HashKnown
<1>14. Inv2'
  BY <1>7, <1>11, <1>12, <1>13 DEF Inv2
<1> DEFINE st == [f \in Execs |-> StatusOf(rec[f])]
           tk == {f \in Execs : \E v \in Workers : call[v].pc = "send" /\ call[v].exec = f}
<1>15. e \in tk
  BY <1>1 DEF Sending
<1>16. tk' = tk \ {e}
  <2>1. ASSUME NEW f \in Execs PROVE f \in tk' <=> f \in tk \ {e}
    BY <1>1, <1>6, <1>7, <1>8 DEF Sending
  <2> QED BY <2>1
<1>17. st' = st
  BY <1>7
<1>18. Ledger!Send(e)
  BY <1>2, <1>15, <1>16, <1>17 DEF Ledger!Send
<1> QED BY <1>1, <1>14, <1>18 DEF LedgerStep, Ledger!LedgerNext

-----------------------------------------------------------------------------
(* Theorems *)

LEMMA InitTruth == Init => Inv2 /\ Ledger!LedgerInit
<1> SUFFICES ASSUME Init PROVE Inv2 /\ Ledger!LedgerInit
  OBVIOUS
<1>1. NoRow.state = "absent" /\ IdleCall.pc = "idle"
  BY DEF NoRow, IdleCall
<1>2. ASSUME NEW e \in Execs PROVE Canonical(rec[e]) /\ Truth(e)
  <2>1. /\ rec[e].state = "absent" /\ sends[e] = 0 /\ mint[e] = "none" /\ e \notin dispatched
        /\ \A w \in Workers : ~Sending(w, e)
    BY <1>1 DEF Init, Sending
  <2> QED BY <2>1 DEF Canonical, Truth
<1>3. HashKnown /\ \A w \in Workers : Phase(w)
  BY <1>1 DEF Init, HashKnown, Phase, Known, Driving
<1>4. [e \in Execs |-> StatusOf(rec[e])] = [e \in Execs |-> "absent"]
  BY <1>1 DEF Init, StatusOf
<1>5. {e \in Execs : \E w \in Workers : call[w].pc = "send" /\ call[w].exec = e} = {}
  BY <1>1 DEF Init
<1>6. Ledger!LedgerInit
  BY <1>4, <1>5 DEF Init, Ledger!LedgerInit
<1> QED BY <1>2, <1>3, <1>6 DEF Inv2

LEMMA StepTrue ==
  ASSUME Inv, Inv2, [Next]_vars
  PROVE  Inv2' /\ LedgerStep
<1> USE DEF Workers
<1>0. Inv'
  BY StepKept DEF Kept
<1>1. Tame => Inv2' /\ LedgerStep
  BY <1>0, TameKeeps, TameImplements
<1>2. CASE \E w \in Workers : Work(w) \/ SubmitCheckpointFailed(w)
  <2> PICK w \in Workers : Work(w) \/ SubmitCheckpointFailed(w)
    BY <1>2
  <2>1. CASE SubmitFence(w)
    BY <1>0, <2>1, FenceStep
  <2>2. CASE \E fate \in {"pending", "lost"}, answer \in {"sent", "failed"} : SubmitSend(w, fate, answer)
    BY <1>0, <2>2, SendStep
  <2> QED BY <1>1, <2>1, <2>2, MovesTame, EndsTame DEF Work
<1>3. CASE \E w \in Callers, e \in Execs, i \in Intents : relayMint(w, e, i)
  BY <1>1, <1>3, RelayMintTame
<1>4. CASE \E w \in Callers, e \in Execs : resumeExisting(w, e)
  BY <1>1, <1>4, ResumeTame
<1>5. CASE \E w \in Sweepers : sweepStuck(w)
  BY <1>1, <1>5, SweepTame
<1>6. CASE \E w \in Workers, released \in BOOLEAN : GiveUp(w, released)
  BY <1>1, <1>6, EndsTame
<1>7. CASE \E p \in Procs : Crash(p)
  <2>1. /\ UNCHANGED <<rec, chainVars, dispatched>>
        /\ \A v \in Workers : call'[v] = IdleCall \/ call'[v] = call[v]
    BY <1>7 DEF Crash
  <2> QED BY <1>1, <2>1, RowsKeptTame
<1>8. CASE \E e \in Execs : LeaseExpires(e)
  BY <1>1, <1>8, ExpiryTame
<1>9. CASE \E e \in Execs, fate \in {"ok", "reverted"} : ChainSettles(e, fate)
  BY <1>9, ChainStep
<1>10. CASE UNCHANGED vars
  <2>1. UNCHANGED <<rec, chainVars, dispatched, call>>
    BY <1>10 DEF vars, chainVars
  <2> QED BY <1>1, <2>1, RowsKeptTame
<1> QED BY <1>2, <1>3, <1>4, <1>5, <1>6, <1>7, <1>8, <1>9, <1>10 DEF Next

LEMMA TruthInvariance == Spec => [](Inv /\ Inv2)
<1>1. Init => Inv /\ Inv2
  BY InitInv, InitTruth
<1>2. (Inv /\ Inv2) /\ [Next]_vars => (Inv /\ Inv2)'
  BY StepKept, StepTrue DEF Kept
<1> QED BY <1>1, <1>2, PTL DEF Spec

\* Every row a transition of store.mjs writes passes the check that every
\* later read makes (assertCanonicalRelayRecord), so no call, crash or expiry
\* leaves a row that makes the sweep throw.
THEOREM RowsCanonical == Spec => []CanonicalRecords
<1>1. Inv2 => CanonicalRecords
  BY DEF Inv2, Canonical, CanonicalRecords
<1> QED BY <1>1, TruthInvariance, PTL

\* What relayFinishMinted and relayFinishBlocked record is true of the chain,
\* and stays true: a blocked row has no transaction that can still succeed.
THEOREM VerdictsHold == Spec => []VerdictsTrue
<1>1. Inv2 => VerdictsTrue
  BY DEF Inv2, Truth, VerdictsTrue
<1> QED BY <1>1, TruthInvariance, PTL

\* farm.mjs deposits only proceeds whose mint succeeded.
THEOREM DepositsAreBacked == Spec => []DepositsBacked
<1>1. Inv /\ Inv2 => DepositsBacked
  BY DEF Inv, TypeOK, Inv2, Truth, DepositsBacked
<1> QED BY <1>1, TruthInvariance, PTL

\* The message and attestation that were sent are the ones the row keeps:
\* recordAttested writes before the fence only, and the fence is crossed by
\* the call that wrote them.
THEOREM EvidenceKept == Spec => []SubmittedEvidenceKept
<1>1. Inv2 => SubmittedEvidenceKept
  BY DEF Inv2, Truth, SubmittedEvidenceKept
<1> QED BY <1>1, TruthInvariance, PTL

\* The store, the watcher and the sweep together implement the ledger of
\* one-shot sends: the right to send is issued by markMintSubmitting only, is
\* used or lost, never returned, and a settled row stays settled.
THEOREM RelayImplementsLedger == Spec => ImplementsLedger
<1>1. Init => Ledger!LedgerInit
  BY InitTruth
<1>2. Inv /\ Inv2 /\ [Next]_vars => [Ledger!LedgerNext]_(Ledger!ledgerVars)
  BY StepTrue DEF LedgerStep
<1> QED BY <1>1, <1>2, TruthInvariance, PTL DEF Spec, ImplementsLedger, Ledger!LedgerSpec
=============================================================================
