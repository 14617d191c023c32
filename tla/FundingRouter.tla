---------------------------- MODULE FundingRouter ---------------------------
(***************************************************************************)
(* The delegated-spending core on Stellar: the funding_router factory      *)
(* (grant, pull, grant_v3, pull_v3, revoke_v3), the agent accounts it      *)
(* deploys, the one-popup exit_router, and the SEP-41 token whose          *)
(* allowances enforce the budget.                                          *)
(*                                                                         *)
(* A Soroban invocation is atomic: a call that panics leaves no trace, so  *)
(* each action is a call that succeeds and a refused call is a stuttering  *)
(* step.  exit_router.sweep calls one agent after the other inside one     *)
(* invocation; it is modelled call by call, under a lock that keeps every  *)
(* other invocation out until it returns.                                  *)
(***************************************************************************)
EXTENDS AgentAccount, Sums

CONSTANTS
  Salts,         \* raw salts an owner may name in an AgentInit
  Execs,         \* execution ids
  Amounts,       \* amounts a caller may move
  Budgets,       \* budgets and limits an owner may grant
  Inits,         \* AgentInit records a caller may pass (without the salt)
  InitialBalance,\* each owner's balance of each token at the start
  Quotes,        \* what the vault may mint for a deposit, or pay for shares
  Expiries,      \* expiry ledgers an owner may name in a grant
  ExitSalts,     \* salts of agents whose owner may install an exit signer
  MaxSweep,      \* longest list of agents passed to exit_router.sweep
  CloseTimes,    \* seconds the close of a ledger may take
  MaxAhead,      \* seconds the network may run ahead of LedgerSecs a ledger
  MaxSeq,        \* last ledger explored
  None           \* an absent storage entry

ASSUME AmountsAssumption == Amounts \cup Budgets \subseteq Nat

ASSUME ExpiriesAssumption == Expiries \subseteq Nat

ASSUME SaltsAssumption == IsFiniteSet(Salts)

\* The vault refuses to mint nothing and to pay nothing.
ASSUME QuotesAssumption == Quotes \subseteq Nat \ {0}

\* What the buffer of the constructor's allowance is there to absorb.
ASSUME PaceAssumption ==
  /\ CloseTimes \subseteq Nat
  /\ MaxAhead \in Nat /\ MaxAhead <= TtlBuffer * LedgerSecs

ASSUME InitialBalanceAssumption == InitialBalance \in Nat

ASSUME BoundsAssumption == MaxSeq \in Nat /\ MaxSweep \in Nat

ASSUME InitsAssumption ==
  Inits \subseteq [target: Targets, token: Tokens, kind: {0, 1},
                   route: Routes \cup {NoRoute}, cap: Nat,
                   period_duration: Nat, expiry: Nat]

\* derive_salt hashes the owner with the raw salt, so an agent's address is
\* the pair, and derive_permission_id hashes the owner with all raw salts.
Agents == Owners \X Salts
PermIds == Owners \X ((SUBSET Salts) \ {{}})

OwnerTokens == Owners \X Tokens

\* PermissionGrantV3 (types.rs), keyed by its permission_id.
PermissionGrantV3 ==
  [scope_id: Targets \X Tokens \X {0, 1} \X (Routes \cup {NoRoute}),
   owner: Owners, token: Tokens, mandate_ceiling: Nat, confirmed_spent: Nat,
   per_run_max: Nat, live_until_ledger: Nat, revoked: BOOLEAN]

ASSUME NoneAssumption ==
  /\ None \notin AgentScope
  /\ None \notin PermissionGrantV3
  /\ None \notin PermIds
  /\ None \notin [owner: Owners, token: Tokens]
  /\ None \notin [owner: Owners, to: Owners, todo: SUBSET Agents]

VARIABLES
  seq,           \* ledger sequence
  now,           \* ledger timestamp, in seconds
  ownerBal,      \* token balance of each owner
  agentBal,      \* balance of each agent in its own token
  shares,        \* vault shares of each agent
  allow,         \* SEP-41 allowance owner -> router
  vaultAllow,    \* SEP-41 allowance agent -> target
  scope,         \* each agent's AgentScope, None before deployment
  exitSigner,    \* agents whose owner installed an exit signer
  deployed,      \* DataKey::Deployed(agent) -> DeployedInfo
  linked,        \* DataKey::LinkedAgentV3(agent) -> permission id
  perm,          \* DataKey::PermissionV3(id) -> PermissionGrantV3
  used,          \* DataKey::ExecutionUsedV3
  sweeping,      \* the exit_router.sweep in progress, None when there is none
  lastBudget,    \* history: amount of the last approve owner -> router
  pulledSince,   \* history: amount pulled since that approve
  pulledUnder,   \* history: amount moved by pull_v3 under each permission
  everPlaced,    \* history: amount each agent ever deposited or burned
  returned,      \* history: amount the vault ever paid each agent
  swept,         \* history: agents whose owner_withdraw succeeded
  born,          \* history: ledger in which each agent was deployed
  ahead          \* history: seconds the network is ahead of its pace

clock == <<seq, now, ahead>>
chainVars == <<ownerBal, agentBal, shares, allow, vaultAllow>>
agentVars == <<scope, exitSigner>>
routerVars == <<deployed, linked, perm, used>>
budgetHistory == <<lastBudget, pulledSince, pulledUnder>>
moneyHistory == <<everPlaced, returned>>
vars == <<clock, chainVars, agentVars, routerVars, sweeping, budgetHistory,
          moneyHistory, swept, born>>

Allowance == [amount: Nat, until: Nat]

TypeOK ==
  /\ seq \in Nat /\ now \in Nat /\ ahead \in Nat
  /\ ownerBal \in [OwnerTokens -> Nat]
  /\ agentBal \in [Agents -> Nat]
  /\ shares \in [Agents -> Nat]
  /\ allow \in [OwnerTokens -> Allowance]
  /\ vaultAllow \in [Agents -> Allowance]
  /\ scope \in [Agents -> AgentScope \cup {None}]
  /\ exitSigner \in SUBSET Agents
  /\ deployed \in [Agents -> [owner: Owners, token: Tokens] \cup {None}]
  /\ linked \in [Agents -> PermIds \cup {None}]
  /\ perm \in [PermIds -> PermissionGrantV3 \cup {None}]
  /\ used \in SUBSET (PermIds \X Execs)
  /\ sweeping \in [owner: Owners, to: Owners, todo: SUBSET Agents]
                    \cup {None}
  /\ lastBudget \in [OwnerTokens -> Nat]
  /\ pulledSince \in [OwnerTokens -> Nat]
  /\ pulledUnder \in [PermIds -> Nat]
  /\ everPlaced \in [Agents -> Nat]
  /\ returned \in [Agents -> Nat]
  /\ swept \in SUBSET Agents
  /\ born \in [Agents -> Nat]

Init ==
  /\ seq = 0 /\ now = 0 /\ ahead = 0
  /\ ownerBal = [x \in OwnerTokens |-> InitialBalance]
  /\ agentBal = [a \in Agents |-> 0]
  /\ shares = [a \in Agents |-> 0]
  /\ allow = [x \in OwnerTokens |-> NoAllowance]
  /\ vaultAllow = [a \in Agents |-> NoAllowance]
  /\ scope = [a \in Agents |-> None]
  /\ exitSigner = {}
  /\ deployed = [a \in Agents |-> None]
  /\ linked = [a \in Agents |-> None]
  /\ perm = [p \in PermIds |-> None]
  /\ used = {}
  /\ sweeping = None
  /\ lastBudget = [x \in OwnerTokens |-> 0]
  /\ pulledSince = [x \in OwnerTokens |-> 0]
  /\ pulledUnder = [p \in PermIds |-> 0]
  /\ everPlaced = [a \in Agents |-> 0]
  /\ returned = [a \in Agents |-> 0]
  /\ swept = {}
  /\ born = [a \in Agents |-> 0]
-----------------------------------------------------------------------------
(* Deployment, shared by grant and grant_v3 *)

\* The checks both grants make on every AgentInit before any side effect.
ValidInit(init) ==
  /\ init.cap > 0
  /\ init.period_duration > 0
  /\ init.expiry > now
  /\ init.kind = 1 => init.route # NoRoute

\* The AgentScope a grant builds from an AgentInit.
NewScope(owner, init, perExecutionMax) ==
  [owner |-> owner, target |-> init.target, token |-> init.token,
   kind |-> init.kind, route |-> init.route,
   cap_per_period |-> init.cap, period_duration |-> init.period_duration,
   spent_in_period |-> 0, period_start |-> now,
   expiry |-> init.expiry, revoked |-> FALSE,
   per_execution_max |-> perExecutionMax]

\* deploy_v2 refuses an address that already holds a contract.
Fresh(owner, salts) == \A s \in salts : scope[<<owner, s>>] = None

\* deploy_v2 of one agent per salt, each running the constructor.
DeployAgents(owner, salts, init, perExecutionMax) ==
  /\ scope' = [a \in Agents |->
                 IF a[1] = owner /\ a[2] \in salts
                 THEN NewScope(owner, init[a[2]], perExecutionMax)
                 ELSE scope[a]]
  /\ vaultAllow' = [a \in Agents |->
                      IF a[1] = owner /\ a[2] \in salts
                      THEN ConstructorAllowance(
                             NewScope(owner, init[a[2]], perExecutionMax), seq, now)
                      ELSE vaultAllow[a]]
  /\ born' = [a \in Agents |->
                IF a[1] = owner /\ a[2] \in salts THEN seq ELSE born[a]]

ApproveRouterAdding(owner, budget, until) ==
  /\ allow' = [x \in OwnerTokens |->
                 IF x[1] = owner /\ x[2] \in DOMAIN budget
                 THEN [amount |-> allow[x].amount + budget[x[2]],
                       until |-> until]
                 ELSE allow[x]]
  /\ lastBudget' = [x \in OwnerTokens |->
                      IF x[1] = owner /\ x[2] \in DOMAIN budget
                      THEN budget[x[2]] ELSE lastBudget[x]]
  /\ pulledSince' = [x \in OwnerTokens |->
                       IF x[1] = owner /\ x[2] \in DOMAIN budget
                       THEN 0 ELSE pulledSince[x]]

\* SEP-41 approve(owner, router, amount, until): replaces the entry.
ApproveRouter(owner, budget, until) ==
  /\ allow' = [x \in OwnerTokens |->
                 IF x[1] = owner /\ x[2] \in DOMAIN budget
                 THEN [amount |-> budget[x[2]], until |-> until]
                 ELSE allow[x]]
  /\ lastBudget' = [x \in OwnerTokens |->
                      IF x[1] = owner /\ x[2] \in DOMAIN budget
                      THEN budget[x[2]] ELSE lastBudget[x]]
  /\ pulledSince' = [x \in OwnerTokens |->
                       IF x[1] = owner /\ x[2] \in DOMAIN budget
                       THEN 0 ELSE pulledSince[x]]
-----------------------------------------------------------------------------
(* funding_router *)

\* grant: one popup approves every budget and deploys every agent.
Grant(owner, budget, expiry, init) ==
  LET salts == DOMAIN init IN
  /\ sweeping = None
  /\ DOMAIN budget # {}
  /\ salts # {}
  /\ expiry > seq
  /\ \A t \in DOMAIN budget : budget[t] > 0
  /\ \A s \in salts : /\ ValidInit(init[s])
                      /\ init[s].token \in DOMAIN budget
  /\ Fresh(owner, salts)
  /\ ApproveRouter(owner, budget, expiry)
  /\ DeployAgents(owner, salts, init, Unlimited)
  /\ deployed' = [a \in Agents |->
                    IF a[1] = owner /\ a[2] \in salts
                    THEN [owner |-> owner, token |-> init[a[2]].token]
                    ELSE deployed[a]]
  /\ UNCHANGED <<clock, ownerBal, agentBal, shares, exitSigner, linked, perm,
                 used, sweeping, pulledUnder, moneyHistory, swept>>

\* SEP-41 transfer_from(router, owner -> agent, amount).
TransferFrom(owner, token, agent, amount) ==
  /\ Spendable(allow[<<owner, token>>], seq) >= amount
  /\ ownerBal[<<owner, token>>] >= amount
  /\ allow' = [allow EXCEPT ![<<owner, token>>].amount = @ - amount]
  /\ ownerBal' = [ownerBal EXCEPT ![<<owner, token>>] = @ - amount]
  /\ agentBal' = [agentBal EXCEPT ![agent] = @ + amount]
  /\ pulledSince' = [pulledSince EXCEPT ![<<owner, token>>] = @ + amount]

\* agent.require_auth() of a router call: __check_auth with the session key.
SessionPullAuth(agent) ==
  /\ scope[agent] # None
  /\ ScopeLive(scope[agent], now)
  /\ scope' = [scope EXCEPT ![agent] = EnforcePull(@, now)]

\* pull: a v2 agent draws on its owner's allowance.
Pull(agent, amount) ==
  /\ sweeping = None
  /\ SessionPullAuth(agent)
  /\ amount > 0
  /\ deployed[agent] # None
  /\ TransferFrom(deployed[agent].owner, deployed[agent].token, agent, amount)
  /\ UNCHANGED <<clock, shares, vaultAllow, exitSigner, routerVars, sweeping,
                 lastBudget, pulledUnder, moneyHistory, swept, born>>

\* derive_scope_id: the fingerprint of target, token, kind and bridge route.
ScopeId(s) == <<s.target, s.token, s.kind, s.route>>

DerivePermissionIdNoSalts(owner, salts) ==
  <<owner, {CHOOSE s \in Salts : TRUE}>>

\* derive_permission_id: the owner and every raw salt of the grant.
DerivePermissionId(owner, salts) == <<owner, salts>>

\* grant_v3: one bounded permission, its agents immutably linked to it.
GrantV3(owner, token, ceiling, perRunMax, liveUntil, init) ==
  LET salts == DOMAIN init
      id    == DerivePermissionId(owner, salts)
      first == CHOOSE s \in salts : TRUE
  IN
  /\ sweeping = None
  /\ salts # {}
  /\ ceiling > 0
  /\ perRunMax > 0
  /\ perRunMax <= ceiling
  /\ liveUntil > seq
  /\ \A s \in salts : /\ init[s].token = token
                      /\ ValidInit(init[s])
                      /\ ScopeId(init[s]) = ScopeId(init[first])
  /\ Fresh(owner, salts)
  /\ ApproveRouter(owner, [t \in {token} |-> ceiling], liveUntil)
  /\ DeployAgents(owner, salts, init, ceiling \div Cardinality(salts))
  /\ linked' = [a \in Agents |->
                  IF a[1] = owner /\ a[2] \in salts THEN id ELSE linked[a]]
  /\ perm' = [perm EXCEPT ![id] =
                [scope_id |-> ScopeId(init[first]), owner |-> owner,
                 token |-> token, mandate_ceiling |-> ceiling,
                 confirmed_spent |-> 0, per_run_max |-> perRunMax,
                 live_until_ledger |-> liveUntil, revoked |-> FALSE]]
  /\ UNCHANGED <<clock, ownerBal, agentBal, shares, exitSigner, deployed, used,
                 sweeping, pulledUnder, moneyHistory, swept>>

ExecutionUnusedUnchecked(id, exec) == TRUE

\* The replay guard, keyed by (permission, execution).
ExecutionUnused(id, exec) == <<id, exec>> \notin used

WithinLimitsPerRunOnly(g, amount) == amount <= g.per_run_max

\* The amount checks of pull_v3.
WithinLimits(g, amount) ==
  /\ amount <= g.per_run_max
  /\ g.confirmed_spent + amount <= g.mandate_ceiling

\* pull_v3: a linked agent draws on the permission, once per execution id.
PullV3(id, exec, agent, amount) ==
  LET g == perm[id] IN
  /\ sweeping = None
  /\ SessionPullAuth(agent)
  /\ amount > 0
  /\ g # None
  /\ ~g.revoked
  /\ seq < g.live_until_ledger
  /\ linked[agent] = id
  /\ ExecutionUnused(id, exec)
  /\ WithinLimits(g, amount)
  /\ ScopeId(scope[agent]) = g.scope_id
  /\ used' = used \cup {<<id, exec>>}
  /\ perm' = [perm EXCEPT ![id].confirmed_spent = @ + amount]
  /\ TransferFrom(g.owner, g.token, agent, amount)
  /\ pulledUnder' = [pulledUnder EXCEPT ![id] = @ + amount]
  /\ UNCHANGED <<clock, shares, vaultAllow, exitSigner, deployed, linked,
                 sweeping, lastBudget, moneyHistory, swept, born>>

\* revoke_v3: the owner's kill switch for one permission.
RevokeV3(id) ==
  /\ sweeping = None
  /\ perm[id] # None
  /\ ~perm[id].revoked
  /\ perm' = [perm EXCEPT ![id].revoked = TRUE]
  /\ UNCHANGED <<clock, chainVars, agentVars, deployed, linked, used, sweeping,
                 budgetHistory, moneyHistory, swept, born>>
-----------------------------------------------------------------------------
(* agent_account *)

\* The session key signs vault.deposit (kind 0) or deposit_for_burn (kind 1,
\* to a route the caller names); the target pulls by transfer_from, and the
\* vault mints shares at its price, at least one.
Spend(agent, amount, route, minted) ==
  /\ sweeping = None
  /\ scope[agent] # None
  /\ ScopeLive(scope[agent], now)
  /\ SpendAllowed(scope[agent], now, amount)
  /\ IF scope[agent].kind = 1 THEN route = scope[agent].route /\ minted = 0
     ELSE minted > 0
  /\ Spendable(vaultAllow[agent], seq) >= amount
  /\ agentBal[agent] >= amount
  /\ scope' = [scope EXCEPT ![agent] = EnforceSpend(@, now, amount)]
  /\ vaultAllow' = [vaultAllow EXCEPT ![agent].amount = @ - amount]
  /\ agentBal' = [agentBal EXCEPT ![agent] = @ - amount]
  /\ shares' = [shares EXCEPT ![agent] = @ + minted]
  /\ everPlaced' = [everPlaced EXCEPT ![agent] = @ + amount]
  /\ UNCHANGED <<clock, ownerBal, allow, exitSigner, routerVars, sweeping,
                 budgetHistory, returned, swept, born>>

\* revoke: the scope's kill switch; also clears the target's allowance.
Revoke(agent) ==
  /\ sweeping = None
  /\ scope[agent] # None
  /\ scope' = [scope EXCEPT ![agent].revoked = TRUE]
  /\ vaultAllow' = [vaultAllow EXCEPT ![agent] = NoAllowance]
  /\ UNCHANGED <<clock, ownerBal, agentBal, shares, allow, exitSigner,
                 routerVars, sweeping, budgetHistory, moneyHistory, swept, born>>

\* set_exit_signer.
SetExitSigner(agent) ==
  /\ sweeping = None
  /\ agent[2] \in ExitSalts
  /\ scope[agent] # None
  /\ exitSigner' = exitSigner \cup {agent}
  /\ UNCHANGED <<clock, chainVars, scope, routerVars, sweeping, budgetHistory,
                 moneyHistory, swept, born>>

\* The exit signer redeems n vault shares into the agent (kind 0 only), for
\* what the vault pays.
ExitRedeem(agent, n, payout) ==
  /\ sweeping = None
  /\ agent \in exitSigner
  /\ ScopeLive(scope[agent], now)
  /\ scope[agent].kind = 0
  /\ n > 0
  /\ n <= shares[agent]
  /\ shares' = [shares EXCEPT ![agent] = @ - n]
  /\ agentBal' = [agentBal EXCEPT ![agent] = @ + payout]
  /\ returned' = [returned EXCEPT ![agent] = @ + payout]
  /\ UNCHANGED <<clock, ownerBal, allow, vaultAllow, agentVars, routerVars,
                 sweeping, budgetHistory, everPlaced, swept, born>>

\* The exit signer transfers the agent's tokens, to the scope's owner only.
ExitTransfer(agent, to, amount) ==
  /\ sweeping = None
  /\ agent \in exitSigner
  /\ ScopeLive(scope[agent], now)
  /\ to = scope[agent].owner
  /\ amount > 0
  /\ amount <= agentBal[agent]
  /\ agentBal' = [agentBal EXCEPT ![agent] = @ - amount]
  /\ ownerBal' = [ownerBal EXCEPT ![<<to, scope[agent].token>>] = @ + amount]
  /\ UNCHANGED <<clock, shares, allow, vaultAllow, agentVars, routerVars,
                 sweeping, budgetHistory, moneyHistory, swept, born>>

ExitDestinationUnchecked(to, owner) == TRUE

\* Exit sweeps only ever reach the owner itself.
ExitDestination(to, owner) == to = owner

ExitScopeAlive(s) == s

\* The terminal flip that keeps later pulls out of a swept agent.
ExitScope(s) == [s EXCEPT !.revoked = TRUE]

\* owner_withdraw(to) under the authority of caller: terminal exit.  Shares
\* are redeemed first, for what the vault pays.  Any refusal rolls the whole
\* call back, the revoked flag included.
OwnerWithdraw(agent, caller, to, payout) ==
  LET total == agentBal[agent] + payout
      token == scope[agent].token
  IN
  /\ scope[agent] # None
  /\ caller = scope[agent].owner
  /\ ExitDestination(to, scope[agent].owner)
  /\ shares[agent] = 0 <=> payout = 0
  /\ total > 0
  /\ scope' = [scope EXCEPT ![agent] = ExitScope(@)]
  /\ shares' = [shares EXCEPT ![agent] = 0]
  /\ agentBal' = [agentBal EXCEPT ![agent] = 0]
  /\ returned' = [returned EXCEPT ![agent] = @ + payout]
  /\ ownerBal' = [ownerBal EXCEPT ![<<to, token>>] = @ + total]
  /\ vaultAllow' = [vaultAllow EXCEPT ![agent] = NoAllowance]
  /\ swept' = swept \cup {agent}
  /\ UNCHANGED <<clock, allow, exitSigner, routerVars, budgetHistory,
                 everPlaced, born>>

\* owner_withdraw called by the owner directly.
DirectWithdraw(agent, caller, to, payout) ==
  /\ sweeping = None
  /\ OwnerWithdraw(agent, caller, to, payout)
  /\ UNCHANGED sweeping
-----------------------------------------------------------------------------
(* exit_router.sweep *)

\* sweep(owner, agents, to): the owner's authorization and the list.
SweepStart(owner, to, agents) ==
  /\ sweeping = None
  /\ agents # {}
  /\ Cardinality(agents) <= MaxSweep
  /\ sweeping' = [owner |-> owner, to |-> to, todo |-> agents]
  /\ UNCHANGED <<clock, chainVars, agentVars, routerVars, budgetHistory,
                 moneyHistory, swept, born>>

\* try_owner_withdraw on one listed agent succeeds.
SweepAgent(agent, payout) ==
  /\ sweeping # None
  /\ agent \in sweeping.todo
  /\ OwnerWithdraw(agent, sweeping.owner, sweeping.to, payout)
  /\ sweeping' = [sweeping EXCEPT !.todo = @ \ {agent}]

\* Why try_owner_withdraw fails: unknown or foreign agent, foreign
\* destination, nothing to sweep, or a vault that cannot pay the shares.
WithdrawRefused(agent, caller, to) ==
  scope[agent] # None =>
    \/ scope[agent].owner # caller
    \/ scope[agent].owner # to
    \/ agentBal[agent] + shares[agent] = 0
    \/ shares[agent] > 0

\* A refusal rolls back that agent alone and the sweep goes on.
SweepSkip(agent) ==
  /\ sweeping # None
  /\ agent \in sweeping.todo
  /\ WithdrawRefused(agent, sweeping.owner, sweeping.to)
  /\ sweeping' = [sweeping EXCEPT !.todo = @ \ {agent}]
  /\ UNCHANGED <<clock, chainVars, agentVars, routerVars, budgetHistory,
                 moneyHistory, swept, born>>

\* sweep returns; NothingSwept rolls back a call that moved nothing.
SweepEnd ==
  /\ sweeping # None
  /\ sweeping.todo = {}
  /\ sweeping' = None
  /\ UNCHANGED <<clock, chainVars, agentVars, routerVars, budgetHistory,
                 moneyHistory, swept, born>>

\* Seconds the network is ahead of LedgerSecs a ledger after a close that
\* took secs: the most ledgers outran time since any earlier close.
AheadAfter(secs) ==
  IF ahead + LedgerSecs > secs THEN ahead + LedgerSecs - secs ELSE 0

\* A ledger closes after secs seconds.
CloseLedger(secs) ==
  /\ sweeping = None
  /\ seq < MaxSeq
  /\ AheadAfter(secs) <= MaxAhead
  /\ seq' = seq + 1
  /\ now' = now + secs
  /\ ahead' = AheadAfter(secs)
  /\ UNCHANGED <<chainVars, agentVars, routerVars, sweeping, budgetHistory,
                 moneyHistory, swept, born>>

Next ==
  \/ \E owner \in Owners, expiry \in Expiries,
        T \in SUBSET Tokens, S \in SUBSET Salts :
       \E budget \in [T -> Budgets], init \in [S -> Inits] :
         Grant(owner, budget, expiry, init)
  \/ \E a \in Agents, n \in Amounts : Pull(a, n)
  \/ \E owner \in Owners, token \in Tokens, ceiling \in Budgets,
        perRun \in Budgets, until \in Expiries, S \in SUBSET Salts :
       \E init \in [S -> Inits] :
         GrantV3(owner, token, ceiling, perRun, until, init)
  \/ \E p \in PermIds, e \in Execs, a \in Agents, n \in Amounts :
       PullV3(p, e, a, n)
  \/ \E p \in PermIds : RevokeV3(p)
  \/ \E a \in Agents, n \in Amounts, r \in Routes \cup {NoRoute},
        minted \in Quotes \cup {0} : Spend(a, n, r, minted)
  \/ \E a \in Agents : Revoke(a)
  \/ \E a \in Agents : SetExitSigner(a)
  \/ \E a \in Agents, n \in Quotes, payout \in Quotes : ExitRedeem(a, n, payout)
  \/ \E a \in Agents, to \in Owners, n \in Amounts : ExitTransfer(a, to, n)
  \/ \E a \in Agents, caller \in Owners, to \in Owners, payout \in Quotes \cup {0} :
       DirectWithdraw(a, caller, to, payout)
  \/ \E owner \in Owners, to \in Owners, S \in SUBSET Agents :
       SweepStart(owner, to, S)
  \/ \E a \in Agents, payout \in Quotes \cup {0} : SweepAgent(a, payout)
  \/ \E a \in Agents : SweepSkip(a)
  \/ SweepEnd
  \/ \E secs \in CloseTimes : CloseLedger(secs)

Spec == Init /\ [][Next]_vars
-----------------------------------------------------------------------------
(* Properties *)

\* Since the owner's last grant touching a token, agents of every generation
\* together have pulled exactly what is gone from that grant's budget: the
\* shared SEP-41 allowance is the one ceiling for pull and pull_v3.
BudgetBound ==
  \A x \in OwnerTokens : pulledSince[x] + allow[x].amount = lastBudget[x]

\* confirmed_spent is what pull_v3 really moved under a permission, and it
\* never passes mandate_ceiling, however pulls of several agents interleave.
CeilingBound ==
  \A p \in PermIds :
    IF perm[p] = None
    THEN pulledUnder[p] = 0
    ELSE /\ pulledUnder[p] = perm[p].confirmed_spent
         /\ pulledUnder[p] <= perm[p].mandate_ceiling

\* A permission spends at most per_run_max per execution id ever accepted:
\* a replayed execution id moves nothing (ExecutionUsedV3).
RunsBoundSpend ==
  \A p \in PermIds :
    perm[p] # None =>
      pulledUnder[p] <= perm[p].per_run_max
                          * Cardinality({e \in Execs : <<p, e>> \in used})

\* v2 and v3 agents never mix: an agent answers to Deployed or to
\* LinkedAgentV3, never both, and a link names a permission of the agent's
\* own owner and token.
LinksConsistent ==
  \A a \in Agents :
    /\ deployed[a] # None => /\ linked[a] = None
                             /\ scope[a] # None
                             /\ deployed[a].owner = scope[a].owner
                             /\ deployed[a].token = scope[a].token
    /\ linked[a] # None => /\ scope[a] # None
                           /\ perm[linked[a]] # None
                           /\ perm[linked[a]].owner = scope[a].owner
                           /\ perm[linked[a]].scope_id = ScopeId(scope[a])

\* The cap is per rolling period, not for the agent's life: as long as the
\* scope is live, a funded spend it authorizes is one the target may take.
\* The constructor's allowance of one cap_per_period is never renewed
\* (agent_account/src/lib.rs: __constructor, account.rs: enforce).
CapIsPerPeriod ==
  \A a \in Agents, n \in Amounts :
    (/\ scope[a] # None
     /\ ScopeLive(scope[a], now)
     /\ SpendAllowed(scope[a], now, n)
     /\ agentBal[a] >= n)
      => Spendable(vaultAllow[a], seq) >= n

\* owner_withdraw is terminal: a swept agent stays revoked and empty, with
\* no allowance left, so no late relayed pull strands fresh funds in it.
SweptStaysEmpty ==
  \A a \in swept :
    /\ scope[a].revoked
    /\ agentBal[a] = 0
    /\ vaultAllow[a].amount = 0
    /\ shares[a] = 0

\* What an owner and the owner's agents hold is what the owner started with,
\* less what those agents deposited or burned, plus what the vault paid them,
\* at any price: no grant, pull, spend or exit moves a token to another owner.
OwnerConservation ==
  \A x \in OwnerTokens :
    LET mine == {a \in Agents : /\ scope[a] # None
                                /\ a[1] = x[1]
                                /\ scope[a].token = x[2]}
    IN  ownerBal[x]
          + SumOf([a \in Agents |-> agentBal[a] + everPlaced[a] - returned[a]], mine)
          = InitialBalance

\* The constructor's allowance, counted in ledgers, outlasts the scope,
\* counted in seconds, as long as the network is within the buffer of its
\* pace: a live scope meets an expired allowance only when the network's
\* maximum TTL has passed since the agent was deployed.
AllowanceOutlastsScope ==
  \A a \in Agents :
    scope[a] # None /\ ScopeLive(scope[a], now)
      => seq <= vaultAllow[a].until \/ seq > born[a] + MaxTtl

\* After an owner revoked an agent, nothing more flows into it and nothing
\* more is placed through it, whoever else acts.
RevokedAgentInert ==
  [][\A a \in Agents :
       (scope[a] # None /\ scope[a].revoked)
         => /\ agentBal'[a] <= agentBal[a]
            /\ everPlaced'[a] = everPlaced[a]
            /\ scope'[a] # None /\ scope'[a].revoked]_vars

\* A permission's terms are fixed at grant_v3: no later grant of the same
\* owner resets its spend, revives it after revoke_v3 or changes its limits.
PermissionMonotone ==
  [][\A p \in PermIds :
       perm[p] # None =>
         /\ perm'[p] # None
         /\ perm'[p].confirmed_spent >= perm[p].confirmed_spent
         /\ perm[p].revoked =>
              /\ perm'[p].revoked
              /\ perm'[p].confirmed_spent = perm[p].confirmed_spent
         /\ perm'[p] = [perm[p] EXCEPT
                          !.confirmed_spent = perm'[p].confirmed_spent,
                          !.revoked = perm'[p].revoked]]_vars

\* An address that holds no contract has no balance, record or history.
UndeployedEmpty ==
  \A a \in Agents :
    scope[a] = None => /\ agentBal[a] = 0 /\ shares[a] = 0
                       /\ everPlaced[a] = 0 /\ returned[a] = 0
                       /\ a \notin exitSigner /\ a \notin swept
                       /\ deployed[a] = None /\ linked[a] = None

\* Every agent a permission was granted for is deployed.
PermissionBacked ==
  \A p \in PermIds :
    perm[p] # None => \A s \in p[2] : scope[<<p[1], s>>] # None

\* The inductive strengthening the proofs use.
IndInv ==
  /\ TypeOK
  /\ BudgetBound
  /\ CeilingBound
  /\ LinksConsistent
  /\ SweptStaysEmpty
  /\ UndeployedEmpty
  /\ PermissionBacked
=============================================================================
