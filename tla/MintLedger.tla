----------------------------- MODULE MintLedger -----------------------------
(***************************************************************************)
(* What the CCTP relay promises for each relayed burn: the right to send   *)
(* the destination mint is issued once, when the row crosses the submit    *)
(* fence, is used at most once, and a row that is settled stays settled.   *)
(* Leases, workers, crashes and the store's conflicts do not appear.       *)
(***************************************************************************)
EXTENDS Naturals

CONSTANT Execs    \* execution ids

VARIABLES
  status,   \* progress of each row
  ticket,   \* rows whose one right to send is issued and unused
  sends     \* sends to the destination chain made for each row

ledgerVars == <<status, ticket, sends>>

Statuses == {"absent", "open", "fenced", "submitted", "minted", "blocked", "uncertain"}

Settled(s) == s \in {"minted", "blocked", "uncertain"}

\* From a status, the statuses a row may move to without sending.
Successors(s) ==
  CASE s = "absent"    -> {"open"}
    [] s = "open"      -> {"blocked"}
    [] s = "fenced"    -> {"submitted", "uncertain"}
    [] s = "submitted" -> {"minted", "blocked"}
    [] OTHER           -> {}

LedgerInit ==
  /\ status = [e \in Execs |-> "absent"]
  /\ ticket = {}
  /\ sends = [e \in Execs |-> 0]

\* Any number of rows may advance in one step: recovery settles several.
Advance ==
  /\ status' \in [Execs -> Statuses]
  /\ \A e \in Execs : status'[e] = status[e] \/ status'[e] \in Successors(status[e])
  /\ UNCHANGED <<ticket, sends>>

Fence(e) ==
  /\ status[e] = "open"
  /\ status' = [status EXCEPT ![e] = "fenced"]
  /\ ticket' = ticket \cup {e}
  /\ UNCHANGED sends

Send(e) ==
  /\ e \in ticket
  /\ ticket' = ticket \ {e}
  /\ sends' = [sends EXCEPT ![e] = @ + 1]
  /\ UNCHANGED status

\* A crash loses the right to send of whoever held it.
Void ==
  /\ ticket' \in SUBSET ticket
  /\ UNCHANGED <<status, sends>>

LedgerNext ==
  \/ Advance
  \/ \E e \in Execs : Fence(e) \/ Send(e)
  \/ Void

LedgerSpec == LedgerInit /\ [][LedgerNext]_ledgerVars
=============================================================================
