------------------------------- MODULE Keeper -------------------------------
(***************************************************************************)
(* The keeper of the vault: the lifeboat radar, which evaluates the pool   *)
(* once per ledger (keeper/src/radar.js, lifeboat.js), the scheduled       *)
(* worker that compounds and rebalances (index.js, decide.js), and the     *)
(* submission both use (chain.js), composed with AutofarmVault.            *)
(*                                                                         *)
(* Radar and worker are separate processes that sign with one account.  A  *)
(* transaction carries the sequence number after the one the account had   *)
(* when it was built, so of all transactions built since the account's     *)
(* last one landed, one can land.  What can still land is in `sent`.       *)
(***************************************************************************)
EXTENDS AutofarmVault, SequencesExt

CONSTANTS
  Utils, Divs,  \* how utilization and oracle divergence may stand to their
                \* thresholds; Divs = {None} if no reference is configured
  Liquidities,  \* tokens the pool may have available
  Fickle,       \* strategies whose pools may change status
  DropEngage,   \* liqDropEngageBps
  AllClear      \* allClearLedgers

ASSUME KeeperAssumption ==
  /\ Utils \subseteq {"low", "mid", "high"}
  /\ Divs \subseteq {"low", "mid", "high"} \/ Divs = {None}
  /\ None \notin {"low", "mid", "high"}
  /\ Liquidities \subseteq Nat \cup {None} /\ DropEngage \in Nat
  /\ AllClear \in Nat \ {0} /\ Fickle \subseteq Strategies

VARIABLES
  util, div, liq,  \* the pool: utilization, oracle divergence, liquidity
  memo,            \* the radar's prevLiq and normalStreak
  signals,         \* what the radar has read of the pool in this evaluation
  proc,            \* radar and worker: where each is, and what it has to submit
  sent,            \* transactions the network has and may still include
  clear,           \* history: normal evaluations in a row within this rescue
  kept             \* history: strategies whose pool refused in this rescue

market == <<util, div, liq>>
keeperVars == <<market, memo, signals, proc, sent, clear, kept>>
allVars == <<vars, keeperVars>>

Procs == {"radar", "worker"}

-----------------------------------------------------------------------------
(* Decisions *)

\* An action, and two facts about its decision that nothing reads: the flag
\* has not changed since, and the rescue had been clear for AllClear ledgers.
Action(type, from, to, amount, earned) ==
  [type |-> type, from |-> from, to |-> to, amount |-> amount,
   current |-> type \in {"derisk", "resume"}, earned |-> earned]
Plain(type, earned) == Action(type, None, None, 0, earned)

\* liqDropBpsFrom: compared with the evaluation before, None if there is none.
liqDropBps(prev, cur) ==
  IF prev = None \/ cur = None THEN None
  ELSE IF prev = 0 THEN None
  ELSE IF cur > prev THEN 0 ELSE ((prev - cur) * 10000) \div prev

Dropped(prev, cur) == liqDropBps(prev, cur) # None /\ liqDropBps(prev, cur) >= DropEngage

\* Variant: what could not be read does not count.
NormalIfUnread(s) ==
  /\ s.util \in {None, "low"}
  /\ ~Dropped(memo.prevLiq, s.liq)
  /\ s.div \in {None, "low"}

\* A utilization that could not be read is not normal; an oracle that could
\* not be read does not count.
isNormal(s) ==
  /\ s.util = "low"
  /\ ~Dropped(memo.prevLiq, s.liq)
  /\ s.div \in {None, "low"}

Engages(s) == s.div = "high" \/ Dropped(memo.prevLiq, s.liq) \/ s.util = "high"

\* Variant: normal ledgers count before the rescue, too.
StreakAlways(s) == IF isNormal(s) THEN memo.streak + 1 ELSE 0

\* normalStreak after this evaluation.
Streak(s) == IF derisked /\ isNormal(s) THEN memo.streak + 1 ELSE 0

Capped(n) == IF n > AllClear THEN AllClear ELSE n

\* decideLifeboat.  An alarm, danger without a live mandate, is a log line.
decideLifeboat(s, streak, earned) ==
  IF ~derisked /\ Engages(s) /\ MandateLive THEN <<Plain("derisk", earned)>>
  ELSE IF derisked /\ MandateLive /\ streak >= AllClear THEN <<Plain("resume", earned)>>
  ELSE <<>>

\* decideCompound: idle tokens, or positions worth more than the balance it is
\* given (the threshold minCompound is one unit).  It does not look at derisked.
decideCompound(balance) ==
  IF idle > 0 \/ \E s \in Registered : pos[s] > balance[s]
  THEN <<Plain("compound", FALSE)>> ELSE <<>>

\* decideRebalance between the strategies of lowest and highest rate: half the
\* imbalance, at most half the source, and never against the imbalance.
RebalanceAmount(from, to) ==
  IF pos[from] <= pos[to] THEN 0
  ELSE Min({(pos[from] - pos[to]) \div 2, pos[from] \div 2})

decideRebalance(from, to) ==
  IF /\ now - last_rebalance >= cooldown_s
     /\ from # to /\ RebalanceAmount(from, to) > 0
  THEN <<Action("rebalance", from, to, RebalanceAmount(from, to), FALSE)>>
  ELSE <<>>

-----------------------------------------------------------------------------
(* The radar *)

Idle == [pc |-> "idle", todo |-> <<>>, live |-> FALSE]

NoSignals == [util |-> None, div |-> None, liq |-> None]

\* One await of readLifeboatChainState.
Reads(from, to) ==
  /\ proc["radar"].pc = from
  /\ proc' = [proc EXCEPT !["radar"].pc = to]
  /\ UNCHANGED <<vars, market, memo, sent, clear, kept>>

\* runRadar sees a new ledger, which may close between any two evaluations,
\* and reads the pool signal by signal, each None when its read fails.
ReadUtilization ==
  /\ Reads("idle", "liquidity")
  /\ \E u \in {util, None} : signals' = [NoSignals EXCEPT !.util = u]

ReadLiquidity ==
  /\ Reads("liquidity", "price")
  /\ \E l \in {liq, None} : signals' = [signals EXCEPT !.liq = l]

ReadPrice ==
  /\ Reads("price", "vault")
  /\ \E d \in {div, None} : signals' = [signals EXCEPT !.div = d]

\* The vault's lifeboat_state is read last; if that fails the evaluation is
\* skipped.
SkipTick ==
  /\ proc["radar"].pc = "vault"
  /\ proc' = [proc EXCEPT !["radar"] = Idle]
  /\ signals' = NoSignals
  /\ UNCHANGED <<vars, market, memo, sent, clear, kept>>

\* radarTick with all it could read: memo, then decision.
radarTick ==
  LET s == signals
      seen == IF derisked /\ isNormal(s) THEN Capped(clear + 1) ELSE 0
      todo == decideLifeboat(s, Streak(s), seen = AllClear)
  IN /\ proc["radar"].pc = "vault"
     /\ memo' = [prevLiq |-> s.liq, streak |-> Capped(Streak(s))]
     /\ clear' = seen
     /\ proc' = [proc EXCEPT !["radar"] =
                   IF todo = <<>> THEN Idle ELSE [Idle EXCEPT !.pc = "account", !.todo = todo]]
     /\ signals' = NoSignals
     /\ UNCHANGED <<vars, market, sent, kept>>

\* A new process starts without a memo.
RestartRadar ==
  /\ memo' = [prevLiq |-> None, streak |-> 0]
  /\ signals' = NoSignals
  /\ proc' = [proc EXCEPT !["radar"] = Idle]
  /\ UNCHANGED <<vars, market, sent, clear, kept>>

-----------------------------------------------------------------------------
(* The scheduled worker *)

\* scheduled: one read, from which both actions are decided.  The balance that
\* readState holds the live value against is balance(), which is live as well:
\* without interest between the two reads only idle tokens are compounded.
Scheduled ==
  /\ proc["worker"].pc = "idle"
  /\ \E from, to \in Registered :
       LET todo == decideCompound(pos) \o decideRebalance(from, to)
       IN /\ todo # <<>>
          /\ proc' = [proc EXCEPT !["worker"] = [Idle EXCEPT !.pc = "account", !.todo = todo]]
  /\ UNCHANGED <<vars, market, memo, signals, sent, clear, kept>>

-----------------------------------------------------------------------------
(* submit *)

\* The action is over, confirmed or not: the next one, if there is one.
Over(p) ==
  LET rest == Tail(proc[p].todo)
  IN IF rest = <<>> THEN Idle ELSE [pc |-> "account", todo |-> rest, live |-> FALSE]

\* getAccount: the sequence number, as it is now.
GetAccount(p) ==
  /\ proc[p].pc = "account"
  /\ proc' = [proc EXCEPT ![p].pc = "send", ![p].live = TRUE]
  /\ UNCHANGED <<vars, market, memo, signals, sent, clear, kept>>

\* Whether the call succeeds in the present state.  derisk and resume do
\* nothing, and succeed, when the flag already stands that way.
Simulates(a) ==
  \/ a.type = "derisk" /\ (derisked \/ MandateLive)
  \/ a.type = "resume" /\ (~derisked \/ MandateLive)
  \/ a.type = "compound" /\ CompoundAllowed
  \/ a.type = "rebalance" /\ RebalanceAllowed(a.from, a.to, a.amount)

\* prepareTransaction, sendTransaction and pollTransaction.  A transaction
\* with a sequence number already used is refused; an error, or a poll that
\* gives up, may hide that it was taken.  How it ends is only logged.
SendTransaction(p) ==
  LET a == Head(proc[p].todo)
  IN /\ proc[p].pc = "send"
     /\ \/ Simulates(a) /\ proc[p].live /\ sent' = sent \cup {a}
        \/ sent' = sent
     /\ proc' = [proc EXCEPT ![p] = Over(p)]
     /\ UNCHANGED <<vars, market, memo, signals, clear, kept>>

-----------------------------------------------------------------------------
(* The network *)

\* What the call does to the vault: nothing, if it fails by now.
Executes(a) ==
  \/ a.type = "derisk" /\ emergency_derisk
  \/ a.type = "resume" /\ resume
  \/ /\ a.type = "compound"
     /\ compound([s \in Registered |-> 0], [s \in Registered |-> 0], [s \in Registered |-> 0])
  \/ a.type = "rebalance" /\ rebalance(a.from, a.to, a.amount)
  \/ UNCHANGED vars

\* A transaction lands: the sequence number is used, whatever the call did.
Land(a) ==
  /\ a \in sent
  /\ sent' = {}
  /\ Executes(a)
  /\ proc' = [p \in Procs |->
       [proc[p] EXCEPT !.live = FALSE,
                       !.todo = [i \in DOMAIN @ |-> IF derisked' = derisked THEN @[i]
                                                    ELSE [@[i] EXCEPT !.current = FALSE]]]]
  /\ clear' = IF derisked' = derisked THEN clear ELSE 0
  /\ kept' = IF derisked' = derisked THEN kept
             ELSE {s \in Strategies : derisked' /\ ~Withdrawable(s)}
  /\ UNCHANGED <<market, memo, signals>>

\* The time bound of a transaction passes.
Expire(a) ==
  /\ a \in sent
  /\ sent' = sent \ {a}
  /\ UNCHANGED <<vars, market, memo, signals, proc, clear, kept>>

MarketMoves ==
  /\ util' \in Utils /\ div' \in Divs /\ liq' \in Liquidities
  /\ market' # market
  /\ UNCHANGED <<vars, memo, signals, proc, sent, clear, kept>>

\* A pool stops paying or taking tokens, or works again.
PoolMoves ==
  /\ \E s \in Fickle, m \in PoolModes : PoolChanges(s, m)
  /\ UNCHANGED keeperVars

\* The authority lets the mandate end, or renews it.
MandateStep ==
  /\ \E t \in {0, MaxNow + 1} : t # mandate_expiry /\ set_mandate(t)
  /\ UNCHANGED keeperVars

-----------------------------------------------------------------------------
\* A vault in operation: keeper, strategies and mandate are set, and what a
\* holder deposited was swept into the first strategy.
KeeperInit ==
  /\ now = DefaultCooldown
  /\ \E h \in Holders :
       shares = [x \in Holders \cup {Vault} |-> IF x = Vault THEN DeadShares
                                                ELSE IF x = h THEN InitialBalance - DeadShares ELSE 0]
  /\ supply = InitialBalance
  /\ wallet = [h \in Holders |-> IF shares[h] > 0 THEN 0 ELSE InitialBalance]
  /\ idle = 0
  /\ strategies = SetToSeq(Strategies)
  /\ principal = [s \in Strategies |-> IF s = strategies[1] THEN InitialBalance ELSE 0]
  /\ btok = principal /\ b_rate = [s \in Strategies |-> Scalar]
  /\ blnd = [s \in Strategies |-> 0]
  /\ pool = [s \in Strategies |-> "open"]
  /\ paused = FALSE /\ keeper \in Keepers
  /\ cooldown_s = DefaultCooldown /\ max_move_bps = DefaultMoveBps
  /\ compound_cooldown_s = DefaultCompoundCooldown
  /\ last_rebalance = 0 /\ last_compound = now
  /\ derisked = FALSE /\ mandate_authority \in Authorities
  /\ mandate_expiry = MaxNow + 1
  /\ pending = None /\ wasm = None /\ announced = None
  /\ yield = 0 /\ lost = 0
  /\ util \in Utils /\ div \in Divs /\ liq \in Liquidities
  /\ memo = [prevLiq |-> None, streak |-> 0]
  /\ signals = NoSignals
  /\ proc = [p \in Procs |-> Idle]
  /\ sent = {} /\ clear = 0 /\ kept = {}

KeeperNext ==
  \/ ReadUtilization \/ ReadLiquidity \/ ReadPrice
  \/ SkipTick \/ radarTick \/ RestartRadar
  \/ Scheduled
  \/ \E p \in Procs : GetAccount(p) \/ SendTransaction(p)
  \/ \E a \in sent : Land(a) \/ Expire(a)
  \/ MarketMoves \/ PoolMoves \/ MandateStep

KeeperSpec == KeeperInit /\ [][KeeperNext]_allVars

\* Ledgers close, so the radar evaluates again, its calls return, and what it
\* tries anew every ledger works at last: to read utilization and vault, to
\* send, and to have the transaction included.  It may restart at any point,
\* but not in every evaluation.
KeeperFairness ==
  /\ SF_allVars(ReadUtilization /\ signals'.util # None)
  /\ SF_allVars(ReadLiquidity /\ signals.util # None)
  /\ SF_allVars(ReadPrice /\ signals.util # None)
  /\ SF_allVars(radarTick /\ signals.util # None)
  /\ WF_allVars(ReadLiquidity \/ ReadPrice \/ SkipTick \/ radarTick \/ SendTransaction("radar"))
  /\ SF_allVars(GetAccount("radar"))
  /\ SF_allVars(SendTransaction("radar") /\ sent' # sent)
  /\ SF_allVars(\E a \in sent : Land(a) /\ derisked')

FairKeeperSpec == KeeperSpec /\ KeeperFairness

-----------------------------------------------------------------------------
(* Properties *)

\* No late transaction turns the lifeboat.  Calls that fail may still land,
\* each tick sends anew, and the worker uses the same account; yet the flag
\* changes only by a decision taken since it last changed, and a rescue ends
\* only after AllClear normal evaluations in a row within that rescue.
TimelyTurns ==
  [][derisked' # derisked =>
       \E a \in sent : Land(a) /\ a.current /\ (a.type = "resume" => a.earned)]_allVars

\* A utilization that stays at its engage threshold under a live mandate stops
\* the vault from supplying for good, and gets it out of every pool that paid
\* when the rescue landed, whatever the other pools do.  No more than that: a
\* pool that refused then keeps its tokens, since emergency_derisk drains as
\* far as it can and the radar does not ask again.
DangerRescued ==
  <>[](util = "high" /\ MandateLive)
    => <>[](derisked /\ \A s \in Strategies \ kept : pos[s] = 0)
=============================================================================
