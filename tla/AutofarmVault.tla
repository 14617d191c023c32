---------------------------- MODULE AutofarmVault ---------------------------
(***************************************************************************)
(* The yield vault on Stellar (soroban/contracts/autofarm_vault) with the  *)
(* strategies it farms through (soroban/contracts/blend_strategy): priced  *)
(* shares, the keeper's compound and rebalance, the mandate-gated          *)
(* lifeboat and the timelocked upgrade.                                    *)
(*                                                                         *)
(* A Soroban invocation is atomic, so each action is one call that         *)
(* succeeds.  A try_ call to a strategy that traps is caught by the vault  *)
(* and changes nothing; a hard call that traps rolls the invocation back.  *)
(* Blend, Soroswap and the clock are the environment.                      *)
(***************************************************************************)
EXTENDS Sequences, Sums

CONSTANTS
  Holders,        \* accounts and agents that hold shares
  Strategies,     \* deployed BlendStrategy contracts
  Vault,          \* the vault's own address
  Keepers,        \* addresses the admin may name as keeper
  Authorities,    \* addresses the admin may name as mandate authority
  Hashes,         \* wasm hashes
  Amounts,        \* token amounts and share counts a caller may pass
  PoolModes,      \* statuses the Blend pools may take
  Cooldowns,      \* values the admin may set for both cooldowns
  MoveBps,        \* values the admin may set for max_move_bps
  MinOuts,        \* swap floors the keeper may pass to compound
  Emissions,      \* BLND a claim may yield
  Proceeds,       \* tokens a BLND swap may pay
  Scalar,         \* SCALAR_12, the unit of a pool's rate
  Rates,          \* rates at which a pool may come to convert bTokens
  InitialBalance, \* each holder's token balance at the start
  DeadShares, MinFirstDeposit, MaxStrategies, TimelockDelay,
  DefaultCooldown, DefaultMoveBps, DefaultCompoundCooldown,
  MaxYield,       \* bound on interest and swap proceeds explored
  MaxLost,        \* bound on bad debt explored
  MaxNow,         \* last timestamp explored
  None            \* an absent storage entry

ASSUME SharesAssumption ==
  /\ DeadShares \in Nat \ {0} /\ MinFirstDeposit \in Nat
  /\ DeadShares < MinFirstDeposit
  /\ InitialBalance \in Nat

ASSUME AmountsAssumption == Amounts \subseteq Nat \ {0}

ASSUME InputsAssumption ==
  /\ Cooldowns \subseteq Nat /\ MinOuts \subseteq Nat
  /\ Emissions \subseteq Nat /\ Proceeds \subseteq Nat

ASSUME BpsAssumption == MoveBps \subseteq Nat

ASSUME RateAssumption == Scalar \in Nat \ {0} /\ Rates \subseteq Nat

ASSUME LimitsAssumption ==
  /\ MaxStrategies \in Nat /\ TimelockDelay \in Nat
  /\ DefaultCooldown \in Nat /\ DefaultMoveBps \in 0..10000
  /\ DefaultCompoundCooldown \in Nat
  /\ MaxYield \in Nat /\ MaxLost \in Nat /\ MaxNow \in Nat

ASSUME NamesAssumption ==
  /\ IsFiniteSet(Holders) /\ IsFiniteSet(Strategies)
  /\ Vault \notin Holders \cup Strategies
  /\ None \notin Keepers \cup Authorities \cup Nat
  /\ None \notin [wasm_hash: Hashes, eta: Nat]
  /\ None \notin [wasm_hash: Hashes, at: Nat]
  /\ PoolModes \subseteq {"open", "on_ice", "frozen", "broken"}

VARIABLES
  now,              \* ledger timestamp
  shares, supply,   \* the share ledger: balances and total supply
  wallet,           \* token balance of each holder
  idle,             \* token balance of the vault
  strategies,       \* registered strategies, in registration order
  btok, b_rate,     \* each strategy's bTokens and its pool's bToken rate
  principal,        \* each strategy's book principal
  blnd,             \* BLND held by each strategy
  pool,             \* status of each strategy's Blend pool
  paused, keeper, cooldown_s, max_move_bps, compound_cooldown_s,
  last_rebalance, last_compound,
  derisked, mandate_authority, mandate_expiry,
  pending,          \* PendingUpgrade, None when there is none
  wasm,             \* installed hash, None for the code deployed first
  yield, lost,      \* history: value the environment added and destroyed
  announced         \* history: the last UpgradeScheduled not cancelled

shareVars == <<shares, supply, wallet>>
fundVars == <<idle, btok, principal, blnd>>
limitVars == <<paused, keeper, cooldown_s, max_move_bps, compound_cooldown_s>>
stampVars == <<last_rebalance, last_compound>>
lifeboatVars == <<derisked, mandate_authority, mandate_expiry>>
upgradeVars == <<pending, wasm, announced>>
envVars == <<yield, lost>>
vars == <<now, shareVars, fundVars, strategies, b_rate, pool, limitVars, stampVars,
          lifeboatVars, upgradeVars, envVars>>

PendingUpgrade == [wasm_hash: Hashes, eta: Nat]

\* Every variable has its type; the registry holds no strategy twice and at
\* most MaxStrategies, which total_assets' sum and the cuts rely on.
TypeOK ==
  /\ now \in Nat
  /\ shares \in [Holders \cup {Vault} -> Nat] /\ supply \in Nat
  /\ wallet \in [Holders -> Nat]
  /\ idle \in Nat
  /\ strategies \in Seq(Strategies) /\ Len(strategies) <= MaxStrategies
  /\ \A i, j \in 1..Len(strategies) :
       strategies[i] = strategies[j] => i = j
  /\ btok \in [Strategies -> Nat] /\ b_rate \in [Strategies -> Nat]
  /\ principal \in [Strategies -> Nat] /\ blnd \in [Strategies -> Nat]
  /\ pool \in [Strategies -> PoolModes \cup {"open"}]
  /\ paused \in BOOLEAN /\ keeper \in Keepers \cup {None}
  /\ cooldown_s \in Nat /\ max_move_bps \in 0..10000
  /\ compound_cooldown_s \in Nat
  /\ last_rebalance \in Nat /\ last_compound \in Nat \cup {None}
  /\ derisked \in BOOLEAN /\ mandate_authority \in Authorities \cup {None}
  /\ mandate_expiry \in Nat
  /\ pending \in PendingUpgrade \cup {None} /\ wasm \in Hashes \cup {None}
  /\ yield \in Nat /\ lost \in Nat
  /\ announced \in [wasm_hash: Hashes, at: Nat] \cup {None}

\* __constructor of the vault and of each strategy.  The clock is unix time,
\* already past the default cooldown that last_rebalance = 0 is held against.
Init ==
  /\ now = DefaultCooldown
  /\ shares = [h \in Holders \cup {Vault} |-> 0] /\ supply = 0
  /\ wallet = [h \in Holders |-> InitialBalance]
  /\ idle = 0 /\ strategies = <<>>
  /\ btok = [s \in Strategies |-> 0] /\ b_rate = [s \in Strategies |-> Scalar]
  /\ principal = [s \in Strategies |-> 0] /\ blnd = [s \in Strategies |-> 0]
  /\ pool = [s \in Strategies |-> "open"]
  /\ paused = FALSE /\ keeper = None
  /\ cooldown_s = DefaultCooldown /\ max_move_bps = DefaultMoveBps
  /\ compound_cooldown_s = DefaultCompoundCooldown
  /\ last_rebalance = 0 /\ last_compound = None
  /\ derisked = FALSE /\ mandate_authority = None /\ mandate_expiry = 0
  /\ pending = None /\ wasm = None /\ announced = None
  /\ yield = 0 /\ lost = 0
-----------------------------------------------------------------------------
(* The Blend pool behind a strategy: what traps in each status *)

Readable(s) == pool[s] # "broken"
Withdrawable(s) == pool[s] \in {"open", "on_ice"}
Suppliable(s) == pool[s] = "open"

\* to_underlying_floor and to_underlying_ceil: what b bTokens are worth.
Underlying(b, rate) == (b * rate) \div Scalar
UnderlyingCeil(b, rate) == (b * rate + Scalar - 1) \div Scalar

\* balance(): the live value of each strategy's position.
pos == [s \in Strategies |-> Underlying(btok[s], b_rate[s])]

\* The pool converts a request to bTokens, to its own advantage both ways.
Minted(s, amount) == IF amount = 0 THEN 0 ELSE (amount * Scalar) \div b_rate[s]
Burnt(s, amount) ==
  IF amount = 0 THEN 0 ELSE (amount * Scalar + b_rate[s] - 1) \div b_rate[s]

\* A supply that would mint nothing traps, as does one at a rate of zero.
Supplies(s, amount) == Suppliable(s) /\ b_rate[s] > 0 /\ Minted(s, amount) > 0
-----------------------------------------------------------------------------
(* Accounting shared by the vault's entry points *)

Registered == {strategies[i] : i \in 1..Len(strategies)}

\* total_assets calls every registered strategy's balance() hard.
NavReadable == \A s \in Registered : Readable(s)

total_assets == idle + SumOf(pos, Registered)

\* Strategies registered before s.
Before(s) ==
  {strategies[i] : i \in {j \in 1..Len(strategies) :
                            \E k \in j+1..Len(strategies) : strategies[k] = s}}

\* What BlendStrategy.withdraw(amount) sends to the vault: the request, cut
\* to the live value, which is then paid exactly.
Withdrawn(s, amount) == IF Withdrawable(s) THEN Min({amount, pos[s]}) ELSE 0

\* What a BlendStrategy.deposit(amount) takes from the vault.
Deposited(s, amount) ==
  IF amount > 0 /\ Supplies(s, amount) THEN amount ELSE 0

\* The book after a withdrawal of got.
BookLess(s, got) == IF got >= principal[s] THEN 0 ELSE principal[s] - got

\* ensure_idle: what each strategy pays when they are drained in order until
\* the vault holds needed.
Drained(needed) ==
  [s \in Strategies |->
     LET short == needed - idle
                    - SumOf([t \in Strategies |-> Withdrawn(t, pos[t])],
                            Before(s))
     IN  IF s \in Registered /\ short > 0 THEN Withdrawn(s, short) ELSE 0]

\* Strategies pay take to the vault, which spends out of it.
Receive(take, out) ==
  /\ idle' = idle + SumOf(take, Strategies) - out
  /\ btok' = [s \in Strategies |-> btok[s] - Burnt(s, take[s])]
  /\ principal' = [s \in Strategies |-> BookLess(s, take[s])]
  /\ UNCHANGED blnd

\* Everything S can return, as withdraw(i128::MAX) does.
DrainAll(S) ==
  [s \in Strategies |-> IF s \in S THEN Withdrawn(s, pos[s]) ELSE 0]
-----------------------------------------------------------------------------
(* Holders *)

\* Variant: the shares minted round up.
SharesForRoundedUp(amount) ==
  IF supply = 0 THEN amount - DeadShares
                ELSE (amount * supply + total_assets - 1) \div total_assets

\* Shares minted for amount, priced before the tokens are pulled in.
SharesFor(amount) ==
  IF supply = 0 THEN amount - DeadShares
                ELSE (amount * supply) \div total_assets

DepositAllowed(h, amount) ==
  /\ ~paused /\ NavReadable
  /\ amount <= wallet[h]
  /\ IF supply = 0 THEN amount >= MinFirstDeposit ELSE total_assets > 0
  /\ SharesFor(amount) > 0

\* Variant: the first deposit locks no shares.
DepositWithoutDeadShares(h, amount) ==
  /\ DepositAllowed(h, amount)
  /\ shares' = [shares EXCEPT ![h] = @ + SharesFor(amount)]
  /\ supply' = supply + SharesFor(amount)
  /\ wallet' = [wallet EXCEPT ![h] = @ - amount]
  /\ idle' = idle + amount
  /\ UNCHANGED <<now, btok, principal, blnd, strategies, b_rate, pool, limitVars,
                 stampVars, lifeboatVars, upgradeVars, envVars>>

deposit(h, amount) ==
  /\ DepositAllowed(h, amount)
  /\ LET dead == IF supply = 0 THEN DeadShares ELSE 0
     IN  /\ shares' = [shares EXCEPT ![h] = @ + SharesFor(amount),
                                     ![Vault] = @ + dead]
         /\ supply' = supply + SharesFor(amount) + dead
  /\ wallet' = [wallet EXCEPT ![h] = @ - amount]
  /\ idle' = idle + amount
  /\ UNCHANGED <<now, btok, principal, blnd, strategies, b_rate, pool, limitVars,
                 stampVars, lifeboatVars, upgradeVars, envVars>>

Payout(n) == (n * total_assets) \div supply

Covered(needed) == idle + SumOf(Drained(needed), Strategies) >= needed

\* Variant: redeem is pause-gated like deposit.
RedeemAllowedNotPaused(h, n) ==
  /\ ~paused /\ NavReadable
  /\ n <= shares[h]
  /\ Payout(n) > 0
  /\ Covered(Payout(n))

RedeemAllowed(h, n) ==
  /\ NavReadable
  /\ n <= shares[h]
  /\ Payout(n) > 0
  /\ Covered(Payout(n))

redeem(h, n) ==
  /\ RedeemAllowed(h, n)
  /\ Receive(Drained(Payout(n)), Payout(n))
  /\ shares' = [shares EXCEPT ![h] = @ - n]
  /\ supply' = supply - n
  /\ wallet' = [wallet EXCEPT ![h] = @ + Payout(n)]
  /\ UNCHANGED <<now, strategies, b_rate, pool, limitVars, stampVars, lifeboatVars,
                 upgradeVars, envVars>>

\* Anyone may send tokens to the vault's address without taking shares.
Donate(h, amount) ==
  /\ amount <= wallet[h]
  /\ wallet' = [wallet EXCEPT ![h] = @ - amount]
  /\ idle' = idle + amount
  /\ UNCHANGED <<now, shares, supply, btok, principal, blnd, strategies, b_rate,
                 pool, limitVars, stampVars, lifeboatVars, upgradeVars, envVars>>
-----------------------------------------------------------------------------
(* Keeper *)

\* Variant: everything pulled is re-supplied and the interest forwarded too.
HarvestTwice(s, min_out, c, p) ==
  IF Supplies(s, pos[s])
  THEN [btok |-> Minted(s, pos[s]), principal |-> Min({principal[s], pos[s]}),
        blnd |-> blnd[s] + c, swapped |-> 0,
        out |-> pos[s] - Min({principal[s], pos[s]})]
  ELSE [btok |-> btok[s], principal |-> principal[s], blnd |-> blnd[s],
        swapped |-> 0, out |-> 0]

\* BlendStrategy.harvest: drain the position, claim c, swap the BLND held
\* when the keeper gave a floor, re-supply the book, forward the rest.  The
\* drain asks for the value rounded up, so the pool takes every bToken and
\* pays the value rounded down.  bTokens worth nothing are left alone.  A
\* trap anywhere (the pool, or a swap that pays p below the floor) undoes it.
HarvestOf(s, min_out, c, p) ==
  LET held     == blnd[s] + IF btok[s] > 0 THEN c ELSE 0
      swaps    == held > 0 /\ min_out > 0
      drains   == UnderlyingCeil(btok[s], b_rate[s]) > 0
      resupply == Min({principal[s], pos[s]})
      ok       == /\ Readable(s)
                  /\ drains => Withdrawable(s)
                  /\ resupply > 0 => Supplies(s, resupply)
                  /\ swaps => p >= min_out
  IN  IF ok
      THEN [btok |-> (IF drains THEN 0 ELSE btok[s]) + Minted(s, resupply),
            principal |-> IF pos[s] > 0 THEN resupply ELSE principal[s],
            blnd |-> IF swaps THEN 0 ELSE held,
            swapped |-> IF swaps THEN p ELSE 0,
            out |-> pos[s] - resupply + IF swaps THEN p ELSE 0]
      ELSE [btok |-> btok[s], principal |-> principal[s], blnd |-> blnd[s],
            swapped |-> 0, out |-> 0]

\* The slice of cash compound offers to s: pro rata to the balances read
\* before harvesting, the last strategy taking the remainder.
Cut(s, cash) ==
  LET total == SumOf(pos, Registered)
      share == [t \in Registered |-> (cash * pos[t]) \div total]
      last  == strategies[Len(strategies)]
  IN  IF total = 0 THEN IF s = strategies[1] THEN cash ELSE 0
      ELSE IF s = last THEN cash - SumOf(share, Registered \ {last})
           ELSE share[s]

\* None means never compounded: the first compound is not gated.
CompoundDue ==
  last_compound # None => now >= last_compound + compound_cooldown_s

\* Variant: compound forgets the lifeboat flag.
CompoundWhileDerisked == keeper # None /\ CompoundDue /\ NavReadable

CompoundAllowed == ~derisked /\ keeper # None /\ CompoundDue /\ NavReadable

\* Every registered strategy harvested, each on its own.
Harvests(min_outs, claim, pays) ==
  [s \in Registered |-> HarvestOf(s, min_outs[s], claim[s], pays[s])]

\* The sum compound reports in its event.
TotalGain(h) == SumOf([s \in Registered |-> h[s].out], Registered)

\* Harvest every strategy, then sweep all idle tokens into them; a slice
\* whose deposit traps stays idle.
compound(min_outs, claim, pays) ==
  /\ CompoundAllowed
  /\ LET h    == Harvests(min_outs, claim, pays)
         cash == idle + TotalGain(h)
         took == [s \in Registered |-> Deposited(s, Cut(s, cash))]
     IN  /\ idle' = cash - SumOf(took, Registered)
         /\ btok' = [s \in Strategies |->
                       IF s \in Registered THEN h[s].btok + Minted(s, took[s])
                                           ELSE btok[s]]
         /\ principal' = [s \in Strategies |->
                            IF s \in Registered THEN h[s].principal + took[s]
                                                ELSE principal[s]]
         /\ blnd' = [s \in Strategies |->
                       IF s \in Registered THEN h[s].blnd ELSE blnd[s]]
         /\ yield' = yield + SumOf([s \in Registered |-> h[s].swapped],
                                   Registered)
  /\ last_compound' = now
  /\ UNCHANGED <<now, shareVars, strategies, b_rate, pool, limitVars, last_rebalance,
                 lifeboatVars, upgradeVars, lost>>

\* The cap is on the balance of the strategy the tokens leave.
MoveCap(s) == (pos[s] * max_move_bps) \div 10000

RebalanceAllowed(from, to, amount) ==
  /\ ~derisked /\ keeper # None
  /\ from \in Registered /\ to \in Registered \cup {Vault}
  /\ now >= last_rebalance + cooldown_s
  /\ Withdrawable(from)
  /\ amount <= MoveCap(from)
  /\ to # Vault => Supplies(to, amount)

\* Withdraw and deposit are hard calls here; BlendStrategy reports what it
\* sent, so the observed delta is the amount.
rebalance(from, to, amount) ==
  /\ RebalanceAllowed(from, to, amount)
  /\ LET less == [btok EXCEPT ![from] = @ - Burnt(from, amount)]
         book == [principal EXCEPT ![from] = BookLess(from, amount)]
     IN  IF to = Vault
         THEN /\ idle' = idle + amount
              /\ btok' = less
              /\ principal' = book
         ELSE /\ btok' = [less EXCEPT ![to] = @ + Minted(to, amount)]
              /\ principal' = [book EXCEPT ![to] = @ + amount]
              /\ UNCHANGED idle
  /\ last_rebalance' = now
  /\ UNCHANGED <<now, shareVars, blnd, strategies, b_rate, pool, limitVars,
                 last_compound, lifeboatVars, upgradeVars, envVars>>
-----------------------------------------------------------------------------
(* Lifeboat *)

MandateLive == now < mandate_expiry

\* A call while already derisked returns Ok(0) and changes nothing.
emergency_derisk ==
  /\ keeper # None /\ ~derisked /\ MandateLive
  /\ derisked' = TRUE
  /\ Receive(DrainAll(Registered), 0)
  /\ UNCHANGED <<now, shareVars, strategies, b_rate, pool, limitVars, stampVars,
                 mandate_authority, mandate_expiry, upgradeVars, envVars>>

resume ==
  /\ keeper # None /\ derisked /\ MandateLive
  /\ derisked' = FALSE
  /\ UNCHANGED <<now, shareVars, fundVars, strategies, b_rate, pool, limitVars,
                 stampVars, mandate_authority, mandate_expiry, upgradeVars,
                 envVars>>

set_mandate_authority(a) ==
  /\ mandate_authority' = a
  /\ UNCHANGED <<now, shareVars, fundVars, strategies, b_rate, pool, limitVars,
                 stampVars, derisked, mandate_expiry, upgradeVars, envVars>>

\* Any expiry is accepted; one in the past disarms the keeper.
set_mandate(expiry) ==
  /\ mandate_authority # None
  /\ mandate_expiry' = expiry
  /\ UNCHANGED <<now, shareVars, fundVars, strategies, b_rate, pool, limitVars,
                 stampVars, derisked, mandate_authority, upgradeVars, envVars>>
-----------------------------------------------------------------------------
(* Admin *)

adminFrame == <<now, shareVars, stampVars, lifeboatVars, envVars, b_rate, pool>>

add_strategy(s) ==
  /\ s \notin Registered
  /\ Len(strategies) < MaxStrategies
  /\ strategies' = Append(strategies, s)
  /\ UNCHANGED <<adminFrame, fundVars, limitVars, upgradeVars>>

\* The registry after list.remove(first_index_of(s)).
Without(s) ==
  LET k == CHOOSE i \in 1..Len(strategies) : strategies[i] = s
  IN  [i \in 1..Len(strategies)-1 |->
         IF i < k THEN strategies[i] ELSE strategies[i + 1]]

remove_strategy(s) ==
  /\ s \in Registered
  /\ Readable(s) /\ pos[s] = 0
  /\ strategies' = Without(s)
  /\ UNCHANGED <<adminFrame, fundVars, limitVars, upgradeVars>>

quarantine_strategy(s) ==
  /\ s \in Registered
  /\ strategies' = Without(s)
  /\ UNCHANGED <<adminFrame, fundVars, limitVars, upgradeVars>>

\* Any strategy address, registered or not.
emergency_withdraw(s) ==
  /\ Receive(DrainAll({s}), 0)
  /\ UNCHANGED <<adminFrame, strategies, limitVars, upgradeVars>>

set_keeper(k) ==
  /\ keeper' = k
  /\ UNCHANGED <<adminFrame, fundVars, strategies, upgradeVars, paused,
                 cooldown_s, max_move_bps, compound_cooldown_s>>

set_limits(cooldown, bps) ==
  /\ bps <= 10000
  /\ cooldown_s' = cooldown
  /\ max_move_bps' = bps
  /\ UNCHANGED <<adminFrame, fundVars, strategies, upgradeVars, paused,
                 keeper, compound_cooldown_s>>

set_compound_cooldown(cooldown) ==
  /\ compound_cooldown_s' = cooldown
  /\ UNCHANGED <<adminFrame, fundVars, strategies, upgradeVars, paused,
                 keeper, cooldown_s, max_move_bps>>

pause ==
  /\ ~paused
  /\ paused' = TRUE
  /\ UNCHANGED <<adminFrame, fundVars, strategies, upgradeVars, keeper,
                 cooldown_s, max_move_bps, compound_cooldown_s>>

unpause ==
  /\ paused
  /\ paused' = FALSE
  /\ UNCHANGED <<adminFrame, fundVars, strategies, upgradeVars, keeper,
                 cooldown_s, max_move_bps, compound_cooldown_s>>

\* Variant: scheduling over an existing schedule keeps its eta.
ScheduleKeepsEta(hash) ==
  /\ pending' = [wasm_hash |-> hash,
                 eta |-> IF pending = None THEN now + TimelockDelay
                                           ELSE pending.eta]
  /\ announced' = [wasm_hash |-> hash, at |-> now]
  /\ UNCHANGED <<adminFrame, fundVars, strategies, limitVars, wasm>>

\* Scheduling over an existing schedule replaces it and its eta.
schedule_upgrade(hash) ==
  /\ pending' = [wasm_hash |-> hash, eta |-> now + TimelockDelay]
  /\ announced' = [wasm_hash |-> hash, at |-> now]
  /\ UNCHANGED <<adminFrame, fundVars, strategies, limitVars, wasm>>

execute_upgrade ==
  /\ pending # None
  /\ now >= pending.eta
  /\ wasm' = pending.wasm_hash
  /\ pending' = None
  /\ announced' = None
  /\ UNCHANGED <<adminFrame, fundVars, strategies, limitVars>>

cancel_upgrade ==
  /\ pending # None
  /\ pending' = None
  /\ announced' = None
  /\ UNCHANGED <<adminFrame, fundVars, strategies, limitVars, wasm>>
-----------------------------------------------------------------------------
(* Environment: the Blend pools and the clock *)

envFrame == <<shareVars, fundVars, strategies, limitVars, stampVars,
              lifeboatVars, upgradeVars>>

\* The value a position gains when its pool's rate becomes rate.
Gain(s, rate) == Underlying(btok[s], rate) - pos[s]

PoolAccrues(s, rate) ==
  /\ 0 < b_rate[s] /\ b_rate[s] < rate
  /\ yield + Gain(s, rate) <= MaxYield
  /\ b_rate' = [b_rate EXCEPT ![s] = rate]
  /\ yield' = yield + Gain(s, rate)
  /\ UNCHANGED <<envFrame, now, pool, lost>>

\* Bad debt socialised over the pool's suppliers.
PoolLoses(s, rate) ==
  /\ rate < b_rate[s]
  /\ lost - Gain(s, rate) <= MaxLost
  /\ b_rate' = [b_rate EXCEPT ![s] = rate]
  /\ lost' = lost - Gain(s, rate)
  /\ UNCHANGED <<envFrame, now, pool, yield>>

PoolChanges(s, mode) ==
  /\ pool[s] # mode
  /\ pool' = [pool EXCEPT ![s] = mode]
  /\ UNCHANGED <<envFrame, now, b_rate, envVars>>

Tick ==
  /\ now < MaxNow
  /\ now' = now + 1
  /\ UNCHANGED <<envFrame, b_rate, pool, envVars>>
-----------------------------------------------------------------------------
HolderStep ==
  \E h \in Holders, n \in Amounts : deposit(h, n) \/ redeem(h, n) \/ Donate(h, n)

\* BLND held and proceeds explored are bounded by the values of Emissions
\* and MaxYield.
CompoundStep ==
  \E m \in [Registered -> MinOuts], c \in [Registered -> Emissions],
     p \in [Registered -> Proceeds] :
    /\ \A s \in Registered :
         /\ c[s] > 0 => btok[s] > 0 /\ c[s] + blnd[s] \in Emissions
         /\ p[s] > 0 => c[s] + blnd[s] > 0
    /\ yield + SumOf(p, Registered) <= MaxYield
    /\ compound(m, c, p)

RebalanceStep ==
  \E from \in Strategies, to \in Strategies \cup {Vault}, n \in Amounts :
    rebalance(from, to, n)

LifeboatStep ==
  \/ emergency_derisk
  \/ resume
  \/ \E a \in Authorities : set_mandate_authority(a)
  \/ \E t \in 0..MaxNow+1 : set_mandate(t)

RegistryStep ==
  \E s \in Strategies :
    \/ add_strategy(s)
    \/ remove_strategy(s)
    \/ quarantine_strategy(s)
    \/ emergency_withdraw(s)

SettingsStep ==
  \/ \E k \in Keepers : set_keeper(k)
  \/ \E c \in Cooldowns, b \in MoveBps : set_limits(c, b)
  \/ \E c \in Cooldowns : set_compound_cooldown(c)
  \/ pause
  \/ unpause

UpgradeStep ==
  \/ \E x \in Hashes : schedule_upgrade(x)
  \/ execute_upgrade
  \/ cancel_upgrade

PoolStep ==
  \E s \in Strategies :
    \/ \E rate \in Rates : PoolAccrues(s, rate) \/ PoolLoses(s, rate)
    \/ \E m \in PoolModes : PoolChanges(s, m)

Next ==
  \/ HolderStep
  \/ CompoundStep
  \/ RebalanceStep
  \/ LifeboatStep
  \/ RegistryStep
  \/ SettingsStep
  \/ UpgradeStep
  \/ PoolStep
  \/ Tick

Spec == Init /\ [][Next]_vars
-----------------------------------------------------------------------------
(* Properties *)

\* The share ledger adds up, and once the first deposit has been made the
\* vault holds exactly the dead shares for ever: no redemption brings the
\* supply back to zero, where the next deposit would again be priced 1:1.
DeadSharesLocked ==
  /\ supply = SumOf(shares, Holders \cup {Vault})
  /\ shares[Vault] = IF supply = 0 THEN 0 ELSE DeadShares

\* The vault creates no token: wallets, idle and the value of every position
\* (registered or not) sum to at most what was brought in plus interest and
\* swap proceeds, less the bad debt.  What is missing is what the pools keep
\* of each conversion, which NoDilution bounds.  The pro-rata slices of
\* compound, the in-order drain of redeem and the lifeboat all rest on it.
TokensConserved ==
  SumOf(wallet, Holders) + idle + SumOf(pos, Strategies) + lost
    <= InitialBalance * Cardinality(Holders) + yield

\* The most value a position loses to one conversion: a bToken, rounded up.
Dust == [s \in Strategies |-> (b_rate[s] + Scalar - 1) \div Scalar]

\* Nobody is diluted: whatever holders, keeper or admin do, total_assets per
\* share falls by no more than the pools' rounding, two conversions of each
\* registered strategy per call (a harvest's re-supply and a slice; a move's
\* withdrawal and deposit), and not at all by a deposit: the shares minted,
\* the payout and the slices round in favour of those who stay.  Else only
\* bad debt in a pool, or the admin writing a strategy off with
\* quarantine_strategy, lowers it.
NoDilution ==
  [][\/ \E s \in Strategies :
          \/ quarantine_strategy(s)
          \/ \E rate \in Rates : PoolLoses(s, rate)
     \/ supply = 0
     \/ LET slack == IF supply' > supply THEN 0 ELSE 2 * SumOf(Dust, Registered)
        IN  (total_assets' + slack) * supply >= total_assets * supply']_vars

\* Holders can always exit (redeem's and ensure_idle's promise): when every
\* registered strategy still reports its balance and the tokens within reach
\* cover a holder's payout, redeeming the whole holding succeeds, paused or
\* not, derisked or not, and whichever strategies trap on withdraw.
ExitsStayOpen ==
  \A h \in Holders :
    (/\ NavReadable
     /\ shares[h] > 0 /\ Payout(shares[h]) > 0
     /\ Payout(shares[h]) <= idle + SumOf(pos, {s \in Registered :
                                                  Withdrawable(s)}))
      => RedeemAllowed(h, shares[h])

\* A rescue holds: from emergency_derisk until the resume, no step by anyone
\* puts tokens back into a pool (a strategy's book grows only by supplying),
\* and the flag falls only while a mandate is live.
RescueHolds ==
  [][derisked => /\ \A s \in Strategies : principal'[s] <= principal[s]
                 /\ derisked' \/ now < mandate_expiry]_vars

\* The code changes only to a hash that was announced at least the full delay
\* earlier and neither cancelled nor replaced since.
UpgradeAnnounced ==
  [][wasm' # wasm =>
       /\ announced # None
       /\ wasm' = announced.wasm_hash
       /\ now >= announced.at + TimelockDelay]_vars

\* The pending slot is the announcement that holders were shown: same hash,
\* and an eta a full delay after it.
PendingMatchesAnnouncement ==
  /\ (pending = None) <=> (announced = None)
  /\ pending # None =>
       /\ pending.wasm_hash = announced.wasm_hash
       /\ pending.eta = announced.at + TimelockDelay
=============================================================================
