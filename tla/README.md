# Vibing Farmer: verification project

TLA+ models of the parts of Vibing Farmer that hold or move an owner's money, TLC
configurations that check them on small instances, and TLAPS proofs of the properties
that matter most, for every value of the constants. Every definition is translated from
the code under `src/`; `PROJECT.json` maps it to its lines.

## 1. The system

An owner lends a bounded amount of a token to short-lived *agents* on Stellar. An agent's
session key may deposit into a yield vault there or burn USDC towards Base through Circle's
CCTP; on Base a second session key, under a *mandate*, deposits into ERC-4626 vaults and
later unwinds the position back to Stellar. A relayer with a SQLite database drives what
must survive a closed browser.

| Part | State | Operations | Talks to |
|---|---|---|---|
| `funding_router` | grants, permissions, execution ids, links to agents | `grant`, `pull`, `grant_v3`, `pull_v3`, `revoke_v3` | token allowance of the owner; deploys agents |
| `agent_account` | scope (cap, period, expiry, revoked), exit signer | constructor, `__check_auth`, `revoke`, `owner_withdraw`, exit signer | vault or CCTP messenger |
| `exit_router` | none | `sweep` of several agents | agents, vault |
| `autofarm_vault` | shares, strategies, cooldowns, lifeboat, mandate, pending upgrade | `deposit`, `redeem`, `compound`, `rebalance`, `emergency_derisk`, `resume`, registry and settings, upgrade | strategies |
| `blend_strategy` | book principal, BLND, Blend position | `deposit`, `withdraw`, `harvest` | Blend pool, swap router |
| relayer: CCTP relay | one durable row per burn with a lease | enqueue, claim, attest, fence, submit, confirm, sweep | Iris, both chains, farm flow |
| relayer: mandate activation | mandate row and work row, queue, retry timer | register, replay, revoke, activate, recover | Base bundler |
| relayer: work queue | accepted, running items, drain waiters | `enqueue`, `drain`, `stop` | activation worker |
| relayer: Base execution and recovery | children of a run with claims and checkpoints | dispatch deposits, recover | Base bundler, agent index |
| relayer: unwind | unwind jobs | reserve, prove, enqueue, reconcile | CCTP relay |
| relayer: outboxes | leased entries to deliver | enqueue, claim, deliver | agent index |
| keeper | streak and last liquidity in memory | tick: decide and submit derisk, resume, compound, rebalance | vault |
| agent index API | receipts, associations, recovery claims | report, claim, renew, release | relayer, frontend |
| frontend | run, transfer and grant journals in local storage | plan, run, resume | all of the above |
| Base contracts | adapters, router | deposit, withdraw, sweep | ERC-4626 vaults, CCTP |

What is hard here: one token allowance shared by several grants; time resets of a limit
against an allowance that is never renewed; strategies that trap in the middle of a loop;
rounding on both sides of a share price; a process that dies between "I am about to send"
and "this is the hash"; leases that expire under a worker that still runs; answers of Iris
that change; revocation and expiry while a worker holds a key; a bounded queue in front of
durable work. `PROJECT.json` lists each of these hazards at its line, with the properties
that would catch it, and with a note where no property covers it.

What makes each part correct: the owner's spending bounds and terminal exits (router and
agents); conservation, no dilution and open exits (vault); one submission per burn and
truthful verdicts (relay); one activation per mandate, agreeing tables and no lost work
(activation); one deposit per child, truthful records and every outcome found (Base
execution); danger answered and no late transaction turning the lifeboat (keeper).

## 2. Modules

| Module | Models | Runs | Proofs |
|---|---|---|---|
| `AgentAccount` | scopes, `__check_auth`, constructor allowance, as operators | through `FundingRouter` | |
| `FundingRouter` | router, agents, exit router and token allowances composed | `router_*` | `FundingRouterProofs` |
| `AutofarmVault` | vault with its Blend strategies | `vault` | `AutofarmVaultProofs` |
| `Sums` | the sum of a function over a finite set, used by the router's and the vault's ledgers | through both | `SumProofs` |
| `MintLedger` | abstract: the right to send a mint is issued and used once | `relay_safety` | |
| `CctpRelay` | relay store, watcher, sweep and farm flow, implementing `MintLedger` | `relay_*` | `CctpRelayProofs` |
| `WorkQueue` | the in-memory queue | `work_queue` | `WorkQueueProofs` |
| `MandateActivation` | mandate and work tables, worker, queue, timer, startup | `mandate_activation` | `MandateActivationProofs` |
| `BaseDeposits` | evidence logs, fenced dispatch, reconciliation, boot and recovery of Base deposits | `base_*` | `BaseDepositsProofs` |
| `Keeper` | radar and scheduled worker, composed with `AutofarmVault` | `keeper` | `KeeperProofs` |

`MC*` modules only name model values, symmetry sets and the records an instance uses.

In every module a comment that starts with "Variant" marks a definition that `Next` never
uses: it is its neighbour with a plausible mistake (a dropped guard, a missing reset), and
replaying a run with it shows that the property can fail.

### AgentAccount and FundingRouter

A Soroban invocation is atomic, so an action is a call that succeeds and a refused call is
a stutter. The exception is `exit_router.sweep`: it calls one agent after the other inside
one invocation, each guarded by a `try_` call, so it is modelled agent by agent under the
variable `sweeping`, which keeps other invocations out. An agent's address is the pair of
owner and salt and a permission's id the pair of owner and set of salts, because the code
hashes exactly these. `allow` and `vaultAllow` are SEP-41 allowances with amount and last
ledger; an `approve` replaces the old one. Time is kept twice, as in the code: allowances and
grants count ledgers (`seq`), scopes count seconds (`now`), and `AllowanceTtl` has the
conversion of `allowance_ttl_ledgers` with its division, buffer, floor and cap. A ledger may
close in any of `CloseTimes` seconds; `MaxAhead` limits by how many seconds ledgers may
outrun `LEDGER_SECS` in total, and `PaceAssumption` takes it to be within the buffer the
constant is there for. What the vault mints for a deposit and pays for shares is its quote,
any member of `Quotes`; the price itself is `AutofarmVault`'s. History variables count what
was pulled, placed and returned, when an agent was deployed and how far ledgers are ahead; no
action reads them, except that `ahead` limits the pace.

### AutofarmVault

Calls are atomic; a `try_` call into a strategy whose pool traps changes nothing and the
vault goes on. A pool is open, on ice (takes no supply), frozen (no supply and no
withdrawal) or broken (cannot be read), and may change at any time. Interest, bad debt,
BLND emissions and swap proceeds are choices of the environment. A Blend position is bTokens at
the rate of its pool, as in `blend.rs`: `pos` is the value rounded down, a supply mints
rounded down and a withdrawal burns rounded up, a full drain asks for the value rounded up and
is paid the value rounded down, and interest and bad debt are changes of the rate, down to the
zero that must not trap an exit. So a withdrawal may cost a position more than it pays, as
`blend_strategy/src/test.rs:811` has it, and `Dust` is the most a conversion may cost. The
pool's side of the conversion is external and taken from how the strategy and its tests use
it. Shares, payouts and the pro-rata cuts of `compound` keep their integer divisions.

### CctpRelay and MintLedger

A worker is one asynchronous call of a process. Between any two awaits of the code other
workers run, so a step is one store transaction with the network read that led to it, or
one send. The lease token of a row stands for the worker that claimed it. The chain may
take a transaction although the call throws, and may drop one whose hash it returned.
Crashes, lost leases, refused checkpoints and changed attestations are steps of the
environment. `MintLedger` states the promise without workers, leases or crashes: status,
the unused right to send, and the sends; `ImplementsLedger` maps `mint_submitting` to
"fenced", and a worker about to send to a right not yet used.

### WorkQueue

Each function of `workQueue.mjs` is synchronous, hence one action; `launch` and
`settleDrain` are part of the action that calls them.

### MandateActivation

Two tables, one row each per mandate, written by registration, replay, revocation, expiry
clean-up, the nine calls of the worker and reconciliation. The worker's `run` record is its
program counter and the hash it holds. Any process may crash at any step; its lease then
runs out, and a scan at startup or of the retry timer makes the row pending again before
the fence, and uncertain after it. The order in which a queue dispatches is arbitrary,
which includes the code's. A failed store call is a `Fault`. The timer's three flags are
`req` and `loop`: it is armed exactly when a retry is requested and none is running.

### BaseDeposits

One mandate, hence one kernel account whose user operations execute in the order of their
nonces, with any number of farm jobs and their children. A step runs from one await to the
next. The log of a child is the evidence outbox: `Enqueues` has the rules of `enqueueInternal`
(one entry per state, transitions, the handle may not change, a known hash may not be
disputed), and a refused entry is a throw whose consequence the caller decides. A *run* is one
dispatch or reconciliation under way; a run of a job belongs to the boot (`resumeFarmIntentsV2`
and `recoverDeposits`), a run of a worker to a recovery an owner asked for. Its `pc` is the
await it is at. `claimAuthorizedSubmission` writes the submitting entry and the owner token in
the transaction that checks the mandate; what follows may fail at any point. The agent index is
`seen`, the number of entries it has applied: claims and renewals are tied to that version. A
delivery may be confirmed, fail for a while, be refused or contradict what the index has
(`Answers`); after `MaxAttempts` failures or a refusal the row is dead, after a contradiction
in conflict, and either holds back every later row of the child. The gate of a recovery may
likewise end a row for good (`over`), as the executor does for every error it does not call
retryable, and that version is not taken up again. `send` may throw although the bundler took
the operation; the chain may execute it after the reconcile window (`Lateness`); a restart
forgets every run and every claim token; leases run out under runs that go on. Requests are
counted in the safety run and free in the liveness run.

Abstracted: an entry's blocks, fees and texts; a row of older evidence (the index refuses
it); an operation is its child and nonce, and the decoded event is compared through `Terms`
(pool and amount). Jobs start with their mint confirmed, which `CctpRelay` covers.

### Keeper

Radar and scheduled worker are processes that sign with one account, over the actions of
`AutofarmVault`: what lands is `emergency_derisk`, `resume`, `compound` or `rebalance` of that
module, in the state of that moment. The pools of `Fickle` strategies may stop and resume
paying at any time. A transaction can land only while no other transaction built since has used
the sequence number (`live`, `sent`); errors and polls that give up may hide that it was taken.
Signals are read one by one in steps of their own between which the pool moves, each read may
fail, and vault state is read last. `kept` records the strategies whose pool refused when a
rescue landed. Utilization and divergence are kept as their position to the thresholds;
liquidity is a number, and the drop is computed as in `liqDropBps`. `decideCompound` compares
live value with the live `balance()` that `readState` passes as principal, so the worker
compounds idle tokens only. The fields `current` and `earned` of an action and the variables
`clear` and `kept` are history.

## 3. Runs

Each run asks one question. All pass except `router_cap` and `base_nonce`, which exhibit the
findings.

| Run | Question | Bounds and why they are enough |
|---|---|---|
| `router_v3` | Do all spending bounds hold when v2 and v3 grants share a token, and does an allowance in ledgers outlast a scope in seconds? | 1 owner, 2 salts, 2 execution ids, amounts 1 and 2, 3 ledgers that close in 1 or 2 seconds where the contract counts 2: two grants compete, an id is replayed, a period rolls over, the division has a remainder, scopes and grants expire |
| `router_exit` | Are exits terminal, are revoked agents inert, and does money stay with its owner at any vault price? | 2 owners, vault and bridge agents, quotes of 1 and 2 for an amount of 1, sweeps of up to 2 agents naming foreign agents and destinations, 2 ledgers |
| `router_cap` | a finding | 1 agent with a cap of 2 per second, a budget of 3, 3 ledgers |
| `vault` | Do shares, tokens and exits survive rounding, bad debt and strategies that trap, and can a rescue be undone, or code installed, outside its rules? | Two corners that meet in the rescue flag and the keeper (`Corners`): 2 strategies in all four pool states at rates 0, 2 and 3 of scalar 2, deposits of up to 3, interest and loss of 1, BLND, swaps above and below the floor, where every conversion and division leaves a remainder somewhere; and over one healthy strategy mandates, settings and upgrades against a delay of 1: schedule, replace, cancel, execute, mandate renewed and expired. One pool at a time is off par and one in trouble |
| `keeper` | Does lasting danger get the vault out, and can a late transaction turn the lifeboat? | 2 strategies, one with a pool that stops and resumes paying, 2 levels of utilization, 2 normal ledgers to resume, mandate on and off; any number of restarts, failed reads and lost or late transactions. `sent` and `todo` are finite, so nothing is cut off. Divergence and liquidity drops are off in this run; `LifeboatTurnsInTime` covers them |
| `relay_safety` | Is a burn submitted once, and is what rows say true? | 1 burn under 2 execution ids and 2 intents, 2 callers and 2 sweepers in 2 processes, no limit on faults; program counters are finite, so this explores every interleaving |
| `relay_recovery` | Does every row get resolved? | 2 rows, 1 caller, 1 sweeper, 1 fault, under fairness |
| `work_queue` | Does the queue leak, stall or wait for ever? | 4 items for 2 slots and 2 places, 2 waiters |
| `mandate_activation` | Is a mandate activated once, do tables agree, is work lost? | 3 mandates for 1 slot and 1 place (so a queue is full), 1 fault, 1 expiry |
| `base_deposits` | Is a child deposited once, traceably, and is its record true? | 1 job of 2 children with different terms, 2 concurrent recoveries, 1 fault, 2 owner requests: a recovery meets the boot's claim, a sibling's pending operation and a lost lease; a report may be contradicted by the index |
| `base_outcome` | Is an executed deposit found, and does revocation stop what was not fenced? | 1 child, 1 worker, 2 faults, late execution, an index that is unavailable, refuses or contradicts, rows dead after 2 attempts, requests without limit, under fairness |
| `base_nonce` | a finding | 2 children with the same terms, 1 recovery, 2 faults |

Where an invariant is proved as the type of a module (relay, activation, deposits), the runs do
not evaluate it again. Deadlock is checked except where the model's clock, inputs or faults end
(`router_v3`, `router_cap`, the vault and `base_*` runs, in which the system may simply be left
alone, and `keeper`, whose liveness property says more). Symmetry sets contain only values no
definition tells apart; runs that check liveness use none.

### Fairness

`relay_recovery`, `work_queue`, `base_outcome` and `keeper` check liveness.

- Relay: a worker's next step is weakly fair, since an asynchronous call that is not cut short
  by a crash continues. The sweep is weakly fair: `server.mjs` starts it on an interval
  whenever the last one has ended. A lease whose worker is gone expires, because it is a time
  stamp. A pending transaction is decided by its chain; sends that the destination dropped are
  never decided, and `RowsSettle` excepts them.
- `WorkQueue`: `run()` settles; every `run` of the relayer is bounded by time-outs.
- `BaseDeposits`: awaits end, the outbox attempts its deliveries on an interval, with whatever
  answer, and the owner asks again while a request would be taken (a held row is not retried by
  the recovery worker's ticks, so without the owner nothing is promised). Strong fairness of the
  poll's renewal and read: each is tried anew after every failure that the code calls
  retryable. Nothing is assumed of the index's answers, of faults, of the bundler or of the
  chain: `OutcomeFound` starts when the deposit was executed, and excepts a child that was given
  up (`GivenUp`: a dead or conflicting row, or a recovery of the latest version that is over),
  because the code really stops there.
- `Keeper`: strong fairness of the evaluations in which utilization could be read, of the account
  read, of the send and of inclusion, for the radar only, which tries all of these again in
  every ledger. The worker, restarts, the market, the pools and the mandate are not fair.

### Findings

`router_cap`: the agent constructor approves `cap_per_period` to its target once, and the session
key may sign nothing that renews it, while `__check_auth` resets its count every period. After the
first cap is spent, a funded deposit that is authorized fails in `transfer_from`. The cap is a cap
for life; `docs-site/skill-system.md:49` says that "`cap_per_period` isn't a one-shot lifetime
cap", and `agent_account/src/test.rs:239` exercises the reset of `__check_auth` alone.

`base_nonce`: the reconcile handle of a child holds the nonce the kernel account reports, which
an operation of a sibling that is accepted and not yet executed has not consumed. Two children
claimed one after the other then hold the same nonce. If the second is claimed and never sent,
its reconciliation finds the sibling's event at that nonce, and accepts it when both ask for the
same amount of the same pool. The unsent child is confirmed. `readBaseDepositEvidence` says that
"the unique EntryPoint event supplies" the missing hash. `OwnConfirmations` proves that
different terms exclude it.

### Observations

Met while modelling; each is what the model does, none is excluded by a property.

- `grant_v3` says its single `approve` "covers every future `pull_v3`". A later grant on the same
  token replaces that allowance while the earlier permission keeps its ceiling, so
  `remaining_budget` may report more than can be pulled. The error is on the safe side.
- `harvest` promises that "the book never overstates the position", but the mark-down is
  skipped when bad debt leaves nothing to pull.
- A rescue of which withdrawals fail still sets `derisked`; later calls return `Ok(0)` and the radar
  acts only when not derisked, so what a pool refused to pay is not asked for again in that
  rescue, although the pool may pay by then. `DangerRescued` excepts these strategies.
- An agent index that is out for five attempts leaves an evidence row dead, which holds back every
  later row of that child; a recovery that ends in an error outside the retryable codes is over
  for that version. Nothing in the relayer takes either up again.
- A withdrawal can leave bTokens that are worth 0 by the floor; `remove_strategy` then accepts the
  strategy and the dust stays with it.
- `mandate_ceiling / n` and the pro-rata cuts of `compound` may floor to 0.
- The radar compares liquidity with the evaluation before: a slow drain never engages that signal
  alone. An oracle that cannot be read counts as normal.
- An unknown deposit whose operation reverted, was never sent or executed late stays unknown.

## 4. Proofs

All theorems hold for arbitrary sets of owners, agents, holders, processes and so on, from the
`ASSUME`s of the modules (sets of naturals, names that differ, finite sets). TLC checked each
inductive invariant on the instances above before it was proved.

| Proof module | Properties of the runs it proves |
|---|---|
| `FundingRouterProofs` | `TypeOK`, `BudgetBound`, `CeilingBound`, `SweptStaysEmpty`, `PermissionMonotone`, `RevokedAgentInert`, `AllowanceOutlastsScope`, `RunsBoundSpend`, `OwnerConservation`, `LinksAlwaysConsistent` (theorem) |
| `AutofarmVaultProofs` | `TypesHold` (theorem), `DeadSharesLocked`, `TokensConserved`, `NoDilution`, `ExitsStayOpen`, `RescueHolds`, `PendingAlwaysAnnounced` (theorem), `UpgradeAnnounced` |
| `SumProofs` | lemmas on sums over finite sets, cited by the two above |
| `KeeperProofs` | `TimelyTurns` |
| `CctpRelayProofs` | `RelayTypeCorrect` (theorem), `AtMostOneSubmission`, `TerminalStable`, `CanonicalRecords`, `VerdictsTrue`, `DepositsBacked`, `SubmittedEvidenceKept`, `ImplementsLedger` |
| `WorkQueueProofs` | `QueueConsistent`, `NoIdleSlot` |
| `MandateActivationProofs` | `ActivationTypeCorrect` (theorem), `ActivatedAtMostOnce`, `TablesAgree`, `NeverResurrected`, `PendingTracked` |
| `BaseDepositsProofs` | `DepositTypes` (theorem), `OneSend`, `SendsTraceable`, `FailedIsFinal`, `ConfirmedOwn`, `RevokedStaysUnsent` |

**FundingRouterProofs.** `IndInv` is `TypeOK` with `BudgetBound`, `CeilingBound`,
`LinksConsistent`, `SweptStaysEmpty` and two strengthenings: `UndeployedEmpty` (an address
without a contract has no balance or history, needed because a grant deploys there) and
`PermissionBacked` (a permission's agents exist, so a used permission id cannot be granted
again). One lemma per entry point shows that it preserves `IndInv`. From it follow the step
properties `PermissionMonotone` and `RevokedAgentInert`: every step leaves each agent *kept* or
newly deployed, and each permission kept (`StepMoves`). Two further inductions use that: a live
scope meets an expired allowance only when the network's maximum TTL has passed since
deployment (`AllowanceOutlastsScope`), and each accepted execution id pays for at most
`per_run_max` (`RunsBoundSpend`), where an id that is new has moved nothing by `CeilingBound`.
For the former, `TtlReachesExpiry` bounds what the division of seconds by `LedgerSecs` loses by
one ledger less a second, `DeployCovers` states the reach of a new allowance in seconds, and
`PaceCarries` carries it over ledgers of any length within `PaceAssumption`; the buffer of one
ledger is what makes up for the division, and without it TLC finds the scope that outlives its
allowance. `OwnerConservation` is a sum over the owner's agents, with what the vault paid them
at any quote. Pulls and exits move tokens by the owner and token a record names, while the sum
counts by the address the record is found under, so it needs `Identified`: a scope's owner is
the one its address was derived from, and a permission's token the one of its scope.

**SumProofs.** What a sum is for every finite set: it satisfies the recursion of a fold, changes
by what one summand changes by, splits over disjoint sets, is monotone, and ignores zeros. The
library's induction rules take a predicate as a parameter, which no backend instantiates. The
proofs take the set of subsets a claim fails for instead; proper inclusion is well founded on the
subsets of a finite set, so that set would have a least member, and removing one of its elements
contradicts it.

**AutofarmVaultProofs.** `MoneyInv` is `TypeOK`, `DeadSharesLocked` and `TokensConserved`
together; none is inductive alone. A redemption leaves the supply positive only because the shares
add up and the dead ones are locked; idle stays a natural number after a compound only because the
floored slices of the strategies add up to at most the idle cash; and the drain of `redeem` covers
the payout with tokens that conservation accounts for. Each step lemma shows `MoneyInv'`, that the
assets behind a share did not fall beyond the dust (`Undiluted`) and that a rescue holds
(`Rescued`), so the two step properties follow with the invariant. The bToken conversion enters
through two lemmas: a supply raises and a withdrawal lowers the value of a position by the amount,
up to one `Dust` to the pool's advantage (`SupplyRounds`, `WithdrawRounds`). A call then has an
*exact* value for each position, and `Rounds` says that the real one is at most that and at least
that less the dust of the conversions it made; `RoundedSum` lifts this to total assets.
`TokensConserved` is the upper half and hence an inequality, `NoDilution` the lower half with two
conversions per strategy; a deposit converts nothing and has no slack. `Undiluted` is the
nonlinear part: it is reduced to `b * (a \div b) <= a` and products of two variables, one lemma
each. `ExitsStayOpen` follows from
`MoneyInv` in one state: `ensure_idle` asks the registry in order, and the first strategy that is
not drained completely covers all that is still missing (`FirstPosition` gives it, by the same
argument on positions). It concludes `RedeemAllowed`, the whole guard of `redeem`, which is what
its `ENABLED` would say, since the rest of `redeem` only assigns. Amounts are arbitrary positive
naturals (`AmountsAssumption`), other inputs naturals (`InputsAssumption`, `BpsAssumption`); the
bound of 10000 on `max_move_bps` comes from the guard of `set_limits`. `SharesAssumption` has the
contract's order of its constants, dead shares below the smallest first deposit.

For the upgrade slot, `PendingMatchesAnnouncement` is inductive with the types of the upgrade slot
alone; `UpgradeAnnounced` follows, since `execute_upgrade` reads the slot.

**CctpRelayProofs.** `AtMostOneSubmission` is not inductive. The strengthening says: before the
fence nothing was sent and nobody is at the send (`UnsentBeforeFence`); at most one worker is at
the send of a row, and then nothing was sent (`OneTicket`); rows of the same burn do not coexist
(`BurnsDistinct`); only open rows are leased (`OnlyOpenLeased`), which makes a terminal row safe
from late workers (`TerminalStable`). `Inv2` adds what the records say: every row is canonical and
its verdict true of the chain, the holder of a lease knows its row as far as its phase has read
it, and the hash a worker carries is one that was sent. Every step but the fence, the send and the
chain's settlement is *tame*: it changes one row by a transition of the store and sends nothing.
Tame steps keep `Inv2` and map to `Advance`, `Void` or a stutter of `MintLedger`, the fence to
`Fence` and the send to `Send`, which is the refinement `ImplementsLedger`.

**WorkQueueProofs.** One lemma says what `launch` does to a queue without repetitions: it moves a
prefix into the free slots, loses nothing and leaves no slot idle. `NoIdleSlot` also needs that a
queue stopped by cancelling is empty, since then the end of a run launches nothing.

**MandateActivationProofs.** `IInv` has six parts. `SendInv`: a row that can still reach the fence
has sent nothing, and at most one run is past it and unsent. `TablesAgree` needs `ReceiptInv` (a
run past its receipt holds the hash of an included operation). `WakeInv` is stronger than
`PendingTracked`: a queue counts only if no run has taken the item, because such a run will remove
it; it needs `RunQueued` (a run is a queue item). The proofs share two abstractions of a step,
`RowsMove` and `RunsMove`, that every action satisfies.

**BaseDepositsProofs.** A run is *armed* between the claim and the send. `SendInv`: an armed run's
child has not been sent, no two runs are armed for one child, and the nonce it will send is in the
child's log; the claim needs a log without a submitting entry and writes one, and logs only grow,
so a child is armed once. `FinalInv` says what a final record rests on: one handle per log, one
executed operation per nonce, and for a failed or blocked child either that it was never sent and
nobody is armed, or that its nonce went to an operation that reverted. `FarmInv` carries the same
through the boot's loop, whose first reading of the children is stale when it is used. Every step
is a claim, a send or *quiet* (`StepKinds`), so each part is shown three times and not once per
action. `OwnConfirmations` has the hypothesis that children differ in their terms, which
`base_nonce` shows to be needed.

**KeeperProofs.** Radar and worker share one sequence number, so a landing empties what is sent: a
decided action is overtaken by at most one turn of the flag, and that turn leaves the flag as the
action would set it. `StreakEarned` ties the streak in memory to the normal evaluations of this
rescue, so a resume that is current was earned.

Only model-checked: `RowsSettle`, `DrainsWhenStopped`, `OutcomeFound` and
`DangerRescued`, which are liveness under fairness and out of the prover's reach.

## 5. Not modelled

- Widths: amounts are naturals; `i128` overflow aborts the invocation and is a refused call.
- Soroban instance TTLs; strategies that report false balances; pools that can pay a part of a
  withdrawal (a call is paid in full or traps); the allowance a depositor gives the vault.
- Tokens that third parties send to an agent's address: `SweptStaysEmpty` and
  `RevokedAgentInert` are about the flows of the contracts. Mints that third parties submit on
  the destination chain for a burn of the relay.
- Interest between the two reads of the keeper's `readState`.
- The relay's legacy JSON store and its conversion, paging and order of the sweep, attempt
  counters, time stamps and `relayRenew` (a lease may live as long as it likes).
- Rotation of a mandate's key envelope, and stopping the activation queue at shutdown. A
  refused binding, which a lost rotation race produces, may happen at any time.
- The durable queue of recovery rows is kept per child with its latest version; paging, back-off
  and leases of the outboxes, and the association outbox, which has the same lease pattern.
- The unwind store: its job table is projected from relay rows in the transaction that reads them.
- The browser's journals and orchestrator: they keep no authority of their own; every money-moving
  step they take is one of the calls modelled here, and two tabs can race on local storage (a
  listed hazard).
- The other parts of section 1; `PROJECT.json` gives the reason for each.

The models cover the code that decides whether money moves, is recorded or is recovered. Most of
the repository by lines is user interface, chain plumbing, API proxies, scripts and formatting,
whose behaviour is not a state machine over shared or durable state.
