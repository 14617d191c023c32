---------------------------- MODULE AgentAccount ----------------------------
(***************************************************************************)
(* The scope an agent_account contract enforces on its session key, as     *)
(* operators over one AgentScope record.  __check_auth has no state beyond *)
(* that record: a signature is accepted when every authorization context   *)
(* is inside the scope, and the record is rewritten only on success.       *)
(* Scopes count time in seconds (now), allowances in ledgers (seq).        *)
(***************************************************************************)
EXTENDS Integers

CONSTANTS
  Owners,        \* human accounts that grant scopes
  Tokens,        \* SEP-41 assets
  Targets,       \* vault or CCTP messenger contracts an agent is pinned to
  Routes,        \* (mint_recipient, destination_domain) pairs of bridge scopes
  NoRoute,       \* the all-zero pair, legal only for kind 0
  Unlimited,     \* i128::MAX, the per_execution_max of v2 agents
  LedgerSecs,    \* LEDGER_SECS, the pace the conversion assumes
  ApproveTtl,    \* APPROVE_TTL_LEDGERS
  TtlBuffer,     \* BUFFER_LEDGERS
  MaxTtl         \* the network's maximum entry TTL

ASSUME TtlAssumption ==
  /\ LedgerSecs \in Nat \ {0}
  /\ ApproveTtl \in Nat
  /\ TtlBuffer \in Nat \ {0}
  /\ MaxTtl \in Nat \ {0}

ASSUME UnlimitedAssumption == Unlimited \in Nat \ {0}

\* AgentScope (types.rs): kind 0 deposits in a vault, kind 1 burns on CCTP.
AgentScope ==
  [owner: Owners, target: Targets, token: Tokens, kind: {0, 1},
   route: Routes \cup {NoRoute},
   cap_per_period: Nat, period_duration: Nat,
   spent_in_period: Nat, period_start: Nat,
   expiry: Nat, revoked: BOOLEAN, per_execution_max: Nat]

RollPeriodCarryOver(s, now) ==
  IF now >= s.period_start + s.period_duration
  THEN [s EXCEPT !.period_start = now, !.spent_in_period = @ - s.cap_per_period]
  ELSE s

\* Rolling period reset at the head of enforce().
RollPeriod(s, now) ==
  IF now >= s.period_start + s.period_duration
  THEN [s EXCEPT !.period_start = now, !.spent_in_period = 0]
  ELSE s

ScopeLiveUnlessExpired(s, now) == now < s.expiry

\* The two early returns shared by enforce() and enforce_exit().
ScopeLive(s, now) == ~s.revoked /\ now < s.expiry

\* enforce() on a context calling pull or pull_v3 on the deploying router:
\* allowed, uncounted, but the rolled period is still written back.
EnforcePull(s, now) == RollPeriod(s, now)

\* enforce() on a counted context (kind 0 deposit, kind 1 deposit_for_burn).
SpendAllowed(s, now, amount) ==
  /\ amount > 0
  /\ amount <= s.per_execution_max
  /\ RollPeriod(s, now).spent_in_period + amount <= s.cap_per_period

EnforceSpend(s, now, amount) ==
  [RollPeriod(s, now) EXCEPT !.spent_in_period = @ + amount]

AllowanceTtlUnbuffered(expiry, now) ==
  LET remaining == IF expiry > now THEN expiry - now ELSE 0
      needed    == remaining \div LedgerSecs
      floored   == IF needed > ApproveTtl THEN needed ELSE ApproveTtl
  IN  IF floored < MaxTtl THEN floored ELSE MaxTtl

\* allowance_ttl_ledgers(): the scope's remaining seconds as whole ledgers of
\* LedgerSecs, plus a buffer, floored at the default TTL and capped by the
\* network.
AllowanceTtl(expiry, now) ==
  LET remaining == IF expiry > now THEN expiry - now ELSE 0
      needed    == remaining \div LedgerSecs + TtlBuffer
      floored   == IF needed > ApproveTtl THEN needed ELSE ApproveTtl
  IN  IF floored < MaxTtl THEN floored ELSE MaxTtl

\* The SEP-41 approve the constructor makes from the agent to its target.
ConstructorAllowance(s, seq, now) ==
  [amount |-> s.cap_per_period, until |-> seq + AllowanceTtl(s.expiry, now)]

\* What SEP-41 reads: an allowance past its live-until ledger counts as zero.
Spendable(a, seq) == IF seq <= a.until THEN a.amount ELSE 0

NoAllowance == [amount |-> 0, until |-> 0]
=============================================================================
