------------------------- MODULE FundingRouterProofs ------------------------
(***************************************************************************)
(* Proofs about FundingRouter for every set of owners, tokens, agents and  *)
(* amounts.  IndInv is inductive: the budget and ceiling bounds need that  *)
(* an undeployed address has no history (UndeployedEmpty) and that the     *)
(* agents of a permission are all deployed (PermissionBacked),             *)
(* because deploy_v2's address check is what keeps permission ids fresh.   *)
(* Conservation also needs that records name the owner and token of the    *)
(* address they are found under (Identified).                              *)
(***************************************************************************)
EXTENDS FundingRouter, SumProofs

\* The period roll of enforce() keeps the record an AgentScope and touches
\* only the period's start and spend.
LEMMA RollPeriodType ==
  ASSUME NEW s \in AgentScope, NEW t \in Nat
  PROVE  /\ RollPeriod(s, t) \in AgentScope
         /\ RollPeriod(s, t).owner = s.owner
         /\ RollPeriod(s, t).token = s.token
         /\ RollPeriod(s, t).kind = s.kind
         /\ RollPeriod(s, t).revoked = s.revoked
         /\ RollPeriod(s, t).cap_per_period = s.cap_per_period
         /\ ScopeId(RollPeriod(s, t)) = ScopeId(s)
  BY DEF RollPeriod, AgentScope, ScopeId

\* The same for a counted spend.
LEMMA EnforceSpendType ==
  ASSUME NEW s \in AgentScope, NEW t \in Nat, NEW amount \in Nat
  PROVE  /\ EnforceSpend(s, t, amount) \in AgentScope
         /\ EnforceSpend(s, t, amount).owner = s.owner
         /\ EnforceSpend(s, t, amount).token = s.token
         /\ EnforceSpend(s, t, amount).kind = s.kind
         /\ EnforceSpend(s, t, amount).revoked = s.revoked
         /\ EnforceSpend(s, t, amount).cap_per_period = s.cap_per_period
         /\ ScopeId(EnforceSpend(s, t, amount)) = ScopeId(s)
  <1> DEFINE r == RollPeriod(s, t)
  <1>1. /\ r \in AgentScope /\ r.owner = s.owner /\ r.token = s.token
        /\ r.kind = s.kind /\ r.revoked = s.revoked
        /\ r.cap_per_period = s.cap_per_period /\ ScopeId(r) = ScopeId(s)
    BY RollPeriodType
  <1>2. EnforceSpend(s, t, amount)
          = [r EXCEPT !.spent_in_period = r.spent_in_period + amount]
    BY DEF EnforceSpend
  <1> HIDE DEF r
  <1> QED  BY <1>1, <1>2 DEF AgentScope, ScopeId

\* A grant builds a well-formed scope for its owner and token.
LEMMA NewScopeType ==
  ASSUME NEW owner \in Owners, NEW init \in Inits, NEW max \in Nat, now \in Nat
  PROVE  /\ NewScope(owner, init, max) \in AgentScope
         /\ NewScope(owner, init, max).owner = owner
         /\ NewScope(owner, init, max).token = init.token
         /\ NewScope(owner, init, max).cap_per_period = init.cap
         /\ ScopeId(NewScope(owner, init, max)) = ScopeId(init)
  BY InitsAssumption DEF NewScope, AgentScope, ScopeId

\* What the constructor approves is an allowance.
LEMMA ConstructorAllowanceType ==
  ASSUME NEW s \in AgentScope, NEW l \in Nat, NEW t \in Nat
  PROVE  ConstructorAllowance(s, l, t) \in Allowance
  <1>1. /\ s.expiry \in Nat /\ s.cap_per_period \in Nat
        /\ AllowanceTtl(s.expiry, t) \in Nat
    BY TtlAssumption DEF AllowanceTtl, AgentScope
  <1> QED  BY <1>1 DEF ConstructorAllowance, Allowance

\* An allowance is spendable up to its amount and never beyond.
LEMMA SpendableBound ==
  ASSUME NEW x \in Allowance, NEW l \in Nat
  PROVE  Spendable(x, l) <= x.amount
  BY DEF Spendable, Allowance

\* The even split of a ceiling over a non-empty set of agents.
LEMMA SplitType ==
  ASSUME NEW S \in SUBSET Salts, S # {}, NEW c \in Nat
  PROVE  c \div Cardinality(S) \in Nat
  <1>1. IsFiniteSet(S)
    BY SaltsAssumption, FS_Subset
  <1>2. Cardinality(S) \in Nat /\ Cardinality(S) # 0
    BY <1>1, FS_CardinalityType, FS_EmptySet
  <1> QED  BY <1>2

LEMMA InitInv == Init => IndInv
  <1> SUFFICES ASSUME Init PROVE IndInv
    OBVIOUS
  <1>1. TypeOK
    BY InitialBalanceAssumption DEF Init, TypeOK, NoAllowance, Allowance
  <1>2. /\ BudgetBound /\ CeilingBound /\ LinksConsistent
        /\ SweptStaysEmpty /\ UndeployedEmpty /\ PermissionBacked
    BY DEF Init, NoAllowance, BudgetBound, CeilingBound, LinksConsistent, SweptStaysEmpty, UndeployedEmpty, PermissionBacked
  <1> QED  BY <1>1, <1>2 DEF IndInv

\* The conjuncts of IndInv other than the type invariant.
Bounds ==
  /\ BudgetBound
  /\ CeilingBound
  /\ LinksConsistent
  /\ SweptStaysEmpty
  /\ UndeployedEmpty
  /\ PermissionBacked

\* What a deployment leaves behind.
DeployResult(owner, salts, init) ==
  /\ scope' \in [Agents -> AgentScope \cup {None}]
  /\ vaultAllow' \in [Agents -> Allowance]
  /\ born' \in [Agents -> Nat]
  /\ \A a \in Agents :
       IF a[1] = owner /\ a[2] \in salts
       THEN /\ scope'[a] \in AgentScope
            /\ scope'[a].owner = owner
            /\ scope'[a].token = init[a[2]].token
            /\ ScopeId(scope'[a]) = ScopeId(init[a[2]])
       ELSE scope'[a] = scope[a] /\ vaultAllow'[a] = vaultAllow[a]

\* A deployment keeps the agents' records typed, and every agent it does not
\* create as it was.
LEMMA DeployType ==
  ASSUME TypeOK, NEW owner \in Owners, NEW salts \in SUBSET Salts,
         NEW init \in [salts -> Inits], NEW max \in Nat,
         DeployAgents(owner, salts, init, max)
  PROVE  DeployResult(owner, salts, init)
  <1> DEFINE New(a) == NewScope(owner, init[a[2]], max)
  <1>1. seq \in Nat /\ now \in Nat
    BY DEF TypeOK
  <1>2. ASSUME NEW a \in Agents, a[1] = owner, a[2] \in salts
        PROVE  /\ New(a) \in AgentScope
               /\ New(a).owner = owner
               /\ New(a).token = init[a[2]].token
               /\ ScopeId(New(a)) = ScopeId(init[a[2]])
               /\ ConstructorAllowance(New(a), seq, now) \in Allowance
    <2>1. init[a[2]] \in Inits
      BY <1>2
    <2>2. /\ New(a) \in AgentScope
          /\ New(a).owner = owner
          /\ New(a).token = init[a[2]].token
          /\ ScopeId(New(a)) = ScopeId(init[a[2]])
      BY <1>1, <2>1, NewScopeType
    <2> QED  BY <1>1, <2>2, ConstructorAllowanceType
  <1>3. \A a \in Agents :
          IF a[1] = owner /\ a[2] \in salts
          THEN /\ scope'[a] = New(a)
               /\ vaultAllow'[a] = ConstructorAllowance(New(a), seq, now)
          ELSE scope'[a] = scope[a] /\ vaultAllow'[a] = vaultAllow[a]
    BY DEF DeployAgents
  <1>4. /\ DOMAIN scope' = Agents /\ DOMAIN vaultAllow' = Agents
        /\ scope' = [a \in Agents |-> scope'[a]]
        /\ vaultAllow' = [a \in Agents |-> vaultAllow'[a]]
        /\ born' \in [Agents -> Nat]
    BY <1>1 DEF DeployAgents, TypeOK
  <1> HIDE DEF New
  <1> QED  BY <1>2, <1>3, <1>4 DEF TypeOK, DeployResult

\* approve(owner, router) resets what BudgetBound counts.
LEMMA ApproveBudget ==
  ASSUME TypeOK, BudgetBound, NEW owner \in Owners,
         NEW T \in SUBSET Tokens, NEW budget \in [T -> Nat],
         NEW until \in Nat, ApproveRouter(owner, budget, until)
  PROVE  /\ allow' \in [OwnerTokens -> Allowance]
         /\ lastBudget' \in [OwnerTokens -> Nat]
         /\ pulledSince' \in [OwnerTokens -> Nat]
         /\ BudgetBound'
  <1>1. /\ allow' \in [OwnerTokens -> Allowance]
        /\ lastBudget' \in [OwnerTokens -> Nat]
        /\ pulledSince' \in [OwnerTokens -> Nat]
    BY DEF ApproveRouter, TypeOK, Allowance, OwnerTokens
  <1>2. BudgetBound'
    BY DEF ApproveRouter, BudgetBound, TypeOK, Allowance, OwnerTokens
  <1> QED  BY <1>1, <1>2

\* grant preserves the invariant.
LEMMA GrantInv ==
  ASSUME IndInv, NEW owner \in Owners, NEW expiry \in Expiries,
         NEW T \in SUBSET Tokens, NEW S \in SUBSET Salts,
         NEW budget \in [T -> Budgets], NEW init \in [S -> Inits],
         Grant(owner, budget, expiry, init)
  PROVE  IndInv'
  <1>1. TypeOK /\ Bounds /\ DOMAIN init = S /\ Unlimited \in Nat
        /\ budget \in [T -> Nat] /\ expiry \in Nat
    BY AmountsAssumption, ExpiriesAssumption, UnlimitedAssumption
    DEF IndInv, Bounds
  <1>2. DeployResult(owner, S, init)
    <2>1. DeployAgents(owner, S, init, Unlimited)
      BY <1>1 DEF Grant
    <2> QED  BY <1>1, <2>1, DeployType
  <1> USE DEF DeployResult
  <1>3. /\ allow' \in [OwnerTokens -> Allowance]
        /\ lastBudget' \in [OwnerTokens -> Nat]
        /\ pulledSince' \in [OwnerTokens -> Nat]
        /\ BudgetBound'
    BY <1>1, ApproveBudget DEF Grant, Bounds
  <1>4. /\ UNCHANGED <<seq, now, ahead, ownerBal, agentBal, shares,
                       exitSigner, linked, perm, used, sweeping, pulledUnder,
                       everPlaced, returned, swept>>
        /\ deployed' = [a \in Agents |->
                          IF a[1] = owner /\ a[2] \in S
                          THEN [owner |-> owner, token |-> init[a[2]].token]
                          ELSE deployed[a]]
        /\ \A s \in S : scope[<<owner, s>>] = None
    BY <1>1 DEF Grant, Fresh, clock, moneyHistory
  <1>5. \A a \in Agents : a[1] = owner /\ a[2] \in S => scope[a] = None
    BY <1>4 DEF Agents
  <1>6. TypeOK'
    <2>1. deployed' \in [Agents -> [owner: Owners, token: Tokens] \cup {None}]
      BY <1>1, <1>4, InitsAssumption DEF TypeOK
    <2> QED  BY <1>1, <1>2, <1>3, <1>4, <2>1 DEF TypeOK
  <1>7. CeilingBound' /\ PermissionBacked'
    <2>1. CeilingBound'
      BY <1>1, <1>4 DEF Bounds, CeilingBound
    <2>2. ASSUME NEW a \in Agents, scope[a] # None  PROVE scope'[a] # None
      BY <1>2, <1>5, <2>2
    <2>3. PermissionBacked'
      BY <1>1, <1>4, <2>2 DEF Bounds, PermissionBacked, PermIds, Agents
    <2> QED  BY <2>1, <2>3
  <1>9. LinksConsistent'
    <2> SUFFICES ASSUME NEW a \in Agents
                 PROVE  LinksConsistent!(a)'
      BY DEF LinksConsistent
    <2>1. CASE a[1] = owner /\ a[2] \in S
      BY <1>1, <1>2, <1>4, <1>5, <2>1, NoneAssumption
      DEF Bounds, UndeployedEmpty
    <2>2. CASE ~(a[1] = owner /\ a[2] \in S)
      <3>1. /\ scope'[a] = scope[a] /\ deployed'[a] = deployed[a]
            /\ linked'[a] = linked[a] /\ perm' = perm
        BY <1>2, <1>4, <2>2
      <3> QED  BY <1>1, <3>1 DEF Bounds, LinksConsistent, ScopeId
    <2> QED  BY <2>1, <2>2
  <1>10. SweptStaysEmpty' /\ UndeployedEmpty'
    BY <1>1, <1>2, <1>4, <1>5, NoneAssumption
    DEF Bounds, SweptStaysEmpty, UndeployedEmpty,  TypeOK
  <1> QED  BY <1>3, <1>6, <1>7, <1>9, <1>10 DEF IndInv

\* The record grant_v3 stores is a PermissionGrantV3.
LEMMA PermissionType ==
  ASSUME NEW sid \in Targets \X Tokens \X {0, 1} \X (Routes \cup {NoRoute}),
         NEW owner \in Owners, NEW token \in Tokens, NEW ceiling \in Nat,
         NEW perRun \in Nat, NEW until \in Nat
  PROVE  [scope_id |-> sid, owner |-> owner, token |-> token,
          mandate_ceiling |-> ceiling, confirmed_spent |-> 0,
          per_run_max |-> perRun, live_until_ledger |-> until,
          revoked |-> FALSE] \in PermissionGrantV3
  BY DEF PermissionGrantV3

\* grant_v3 preserves the invariant: its agents are fresh, so its permission
\* id is too, and no earlier record is overwritten.
LEMMA GrantV3Inv ==
  ASSUME IndInv, NEW owner \in Owners, NEW token \in Tokens,
         NEW ceiling \in Budgets, NEW perRun \in Budgets,
         NEW until \in Expiries, NEW S \in SUBSET Salts,
         NEW init \in [S -> Inits],
         GrantV3(owner, token, ceiling, perRun, until, init)
  PROVE  IndInv'
  <1> DEFINE id == <<owner, S>>
             first == CHOOSE s \in S : TRUE
             rec == [scope_id |-> ScopeId(init[first]), owner |-> owner,
                     token |-> token, mandate_ceiling |-> ceiling,
                     confirmed_spent |-> 0, per_run_max |-> perRun,
                     live_until_ledger |-> until, revoked |-> FALSE]
  <1>1. /\ TypeOK /\ Bounds /\ DOMAIN init = S /\ S # {}
        /\ ceiling \in Nat /\ perRun \in Nat /\ until \in Nat
        /\ [t \in {token} |-> ceiling] \in [{token} -> Nat]
    BY AmountsAssumption, ExpiriesAssumption DEF IndInv, Bounds, GrantV3
  <1>2. DeployResult(owner, S, init)
    <2>1. DeployAgents(owner, S, init, ceiling \div Cardinality(S))
      BY <1>1 DEF GrantV3
    <2>2. ceiling \div Cardinality(S) \in Nat
      BY <1>1, SplitType
    <2> QED  BY <1>1, <2>1, <2>2, DeployType
  <1>3. /\ allow' \in [OwnerTokens -> Allowance]
        /\ lastBudget' \in [OwnerTokens -> Nat]
        /\ pulledSince' \in [OwnerTokens -> Nat]
        /\ BudgetBound'
    <2>1. ApproveRouter(owner, [t \in {token} |-> ceiling], until)
      BY DEF GrantV3
    <2>2. {token} \in SUBSET Tokens
      OBVIOUS
    <2> QED  BY <1>1, <2>1, <2>2, ApproveBudget DEF Bounds
  <1>4. /\ UNCHANGED <<seq, now, ahead, ownerBal, agentBal, shares,
                       exitSigner, deployed, used, sweeping, pulledUnder,
                       everPlaced, returned, swept>>
        /\ linked' = [a \in Agents |->
                        IF a[1] = owner /\ a[2] \in S THEN id ELSE linked[a]]
        /\ perm' = [perm EXCEPT ![id] = rec]
        /\ \A s \in S : scope[<<owner, s>>] = None
        /\ \A s \in S : /\ init[s].token = token
                        /\ ScopeId(init[s]) = ScopeId(init[first])
    BY <1>1 DEF GrantV3, Fresh, DerivePermissionId, clock, moneyHistory
  <1>5. \A a \in Agents : a[1] = owner /\ a[2] \in S => scope[a] = None
    BY <1>4 DEF Agents
  <1>6. /\ id \in PermIds
        /\ perm[id] = None
        /\ pulledUnder[id] = 0
    <2>1. id \in PermIds
      BY <1>1 DEF PermIds
    <2>2. PICK s \in S : TRUE
      BY <1>1
    <2>3. perm[id] = None
      BY <1>1, <1>4, <2>1, <2>2 DEF Bounds, PermissionBacked
    <2> QED  BY <1>1, <2>1, <2>3 DEF Bounds, CeilingBound
  <1>7. /\ rec \in PermissionGrantV3 /\ rec # None
        /\ rec.owner = owner /\ rec.scope_id = ScopeId(init[first])
        /\ rec.confirmed_spent = 0 /\ rec.mandate_ceiling = ceiling
    <2>1. first \in S /\ init[first] \in Inits
      BY <1>1
    <2>2. ScopeId(init[first])
            \in Targets \X Tokens \X {0, 1} \X (Routes \cup {NoRoute})
      BY <2>1, InitsAssumption DEF ScopeId
    <2>3. rec \in PermissionGrantV3
      BY <1>1, <2>2, PermissionType
    <2>4. /\ rec.owner = owner /\ rec.scope_id = ScopeId(init[first])
          /\ rec.confirmed_spent = 0 /\ rec.mandate_ceiling = ceiling
      OBVIOUS
    <2> HIDE DEF rec
    <2> QED  BY <2>3, <2>4, NoneAssumption
  <1> HIDE DEF rec, first
  <1>8. /\ perm' \in [PermIds -> PermissionGrantV3 \cup {None}]
        /\ perm'[id] = rec
        /\ \A p \in PermIds : p # id => perm'[p] = perm[p]
    BY <1>1, <1>4, <1>6, <1>7 DEF TypeOK
  <1>9. TypeOK'
    <2>1. linked' \in [Agents -> PermIds \cup {None}]
      BY <1>1, <1>4, <1>6 DEF TypeOK
    <2> QED  BY <1>1, <1>2, <1>3, <1>4, <1>8, <2>1 DEF TypeOK, DeployResult
  <1>10. CeilingBound'
    BY <1>1, <1>4, <1>6, <1>7, <1>8 DEF Bounds, CeilingBound
  <1>11. PermissionBacked'
    <2>1. ASSUME NEW a \in Agents, scope[a] # None  PROVE scope'[a] # None
      BY <1>2, <1>5, <2>1 DEF DeployResult
    <2>2. ASSUME NEW s \in S  PROVE scope'[<<owner, s>>] # None
      <3>1. <<owner, s>> \in Agents
        BY DEF Agents
      <3> QED  BY <1>2, <3>1, NoneAssumption DEF DeployResult
    <2>3. ASSUME NEW p \in PermIds, p # id, perm'[p] # None, NEW s \in p[2]
          PROVE  scope'[<<p[1], s>>] # None
      BY <1>1, <1>8, <2>1, <2>3 DEF Bounds, PermissionBacked, PermIds, Agents
    <2> QED  BY <2>2, <2>3 DEF PermissionBacked
  <1>13. LinksConsistent'
    <2> SUFFICES ASSUME NEW a \in Agents
                 PROVE  LinksConsistent!(a)'
      BY DEF LinksConsistent
    <2>1. CASE a[1] = owner /\ a[2] \in S
      <3>1. deployed'[a] = None /\ linked'[a] = id
        BY <1>1, <1>4, <1>5, <2>1 DEF Bounds, UndeployedEmpty
      <3>2. /\ scope'[a] \in AgentScope /\ scope'[a].owner = owner
            /\ ScopeId(scope'[a]) = ScopeId(init[first])
        BY <1>2, <1>4, <2>1 DEF DeployResult
      <3> QED  BY <1>7, <1>8, <3>1, <3>2, NoneAssumption
    <2>2. CASE ~(a[1] = owner /\ a[2] \in S)
      <3>1. /\ scope'[a] = scope[a] /\ deployed'[a] = deployed[a]
            /\ linked'[a] = linked[a]
        BY <1>2, <1>4, <2>2 DEF DeployResult
      <3>2. LinksConsistent!(a)
        BY <1>1 DEF Bounds, LinksConsistent
      <3>3. linked[a] # None => /\ linked[a] \in PermIds
                                /\ linked[a] # id
                                /\ perm'[linked[a]] = perm[linked[a]]
        BY <1>1, <1>6, <1>8, <3>2 DEF TypeOK
      <3> QED  BY <3>1, <3>2, <3>3 DEF ScopeId
    <2> QED  BY <2>1, <2>2
  <1>14. SweptStaysEmpty' /\ UndeployedEmpty'
    BY <1>1, <1>2, <1>4, <1>5, NoneAssumption
    DEF Bounds, SweptStaysEmpty, UndeployedEmpty,  TypeOK,
        DeployResult
  <1> QED  BY <1>3, <1>9, <1>10, <1>11, <1>13, <1>14 DEF IndInv

\* One allowance of a table is given another amount.
LEMMA AllowanceAmount ==
  ASSUME NEW S, NEW f \in [S -> Allowance], NEW x \in S, NEW n \in Nat
  PROVE  LET g == [f EXCEPT ![x].amount = n]
         IN /\ g \in [S -> Allowance]
            /\ g[x].amount = n
            /\ \A y \in S : y # x => g[y] = f[y]
  <1> DEFINE r == [f[x] EXCEPT !.amount = n]
  <1>1. f[x] \in Allowance
    OBVIOUS
  <1>2. r \in Allowance /\ r.amount = n
    BY <1>1 DEF Allowance
  <1> HIDE DEF r
  <1> DEFINE g == [f EXCEPT ![x] = r]
  <1>3. /\ g \in [S -> Allowance] /\ g[x] = r
        /\ \A y \in S : y # x => g[y] = f[y]
    BY <1>2
  <1>4. g = [f EXCEPT ![x].amount = n]
    BY DEF r
  <1> QED  BY <1>2, <1>3, <1>4

\* transfer_from moves what it takes off the allowance.
LEMMA TransferBudget ==
  ASSUME TypeOK, BudgetBound, NEW x \in OwnerTokens, NEW agent \in Agents,
         NEW amount \in Nat, TransferFrom(x[1], x[2], agent, amount)
  PROVE  /\ allow' \in [OwnerTokens -> Allowance]
         /\ ownerBal' \in [OwnerTokens -> Nat]
         /\ agentBal' \in [Agents -> Nat]
         /\ pulledSince' \in [OwnerTokens -> Nat]
         /\ agentBal' = [agentBal EXCEPT ![agent] = @ + amount]
         /\ UNCHANGED lastBudget => BudgetBound'
  <1>1. x = <<x[1], x[2]>>
    BY DEF OwnerTokens
  <1>2. /\ allow[x] \in Allowance /\ ownerBal[x] \in Nat
        /\ pulledSince[x] \in Nat /\ agentBal[agent] \in Nat /\ seq \in Nat
    BY DEF TypeOK
  <1>3. /\ amount <= Spendable(allow[x], seq)
        /\ amount <= ownerBal[x]
        /\ allow' = [allow EXCEPT ![x].amount = @ - amount]
        /\ ownerBal' = [ownerBal EXCEPT ![x] = @ - amount]
        /\ pulledSince' = [pulledSince EXCEPT ![x] = @ + amount]
        /\ agentBal' = [agentBal EXCEPT ![agent] = @ + amount]
    <2>1. Spendable(allow[x], seq) \in Nat
      BY <1>2 DEF Spendable, Allowance
    <2> QED  BY <1>1, <1>2, <2>1 DEF TransferFrom
  <1>4. amount <= allow[x].amount
    BY <1>2, <1>3 DEF Spendable, Allowance
  <1>5. /\ allow' \in [OwnerTokens -> Allowance]
        /\ allow'[x].amount = allow[x].amount - amount
        /\ \A y \in OwnerTokens : y # x => allow'[y] = allow[y]
    <2>1. allow[x].amount \in Nat /\ allow[x].amount - amount \in Nat
      BY <1>2, <1>4 DEF Allowance
    <2>2. allow' = [allow EXCEPT ![x].amount = allow[x].amount - amount]
      BY <1>3
    <2>3. allow \in [OwnerTokens -> Allowance]
      BY DEF TypeOK
    <2> QED  BY <2>1, <2>2, <2>3, AllowanceAmount
  <1>6. /\ ownerBal' \in [OwnerTokens -> Nat] /\ agentBal' \in [Agents -> Nat]
        /\ pulledSince' \in [OwnerTokens -> Nat]
    BY <1>2, <1>3 DEF TypeOK
  <1>7. ASSUME UNCHANGED lastBudget  PROVE BudgetBound'
    BY <1>2, <1>3, <1>5, <1>7 DEF BudgetBound, TypeOK, Allowance
  <1> QED  BY <1>3, <1>5, <1>6, <1>7

\* A step that rewrites scopes only in their period accounting.
ScopesKept ==
  \A a \in Agents :
    /\ scope[a] # None => /\ scope'[a] # None
                          /\ scope'[a].owner = scope[a].owner
                          /\ scope'[a].token = scope[a].token
                          /\ scope'[a].kind = scope[a].kind
                          /\ scope'[a].revoked = scope[a].revoked
                          /\ scope'[a].cap_per_period
                               = scope[a].cap_per_period
                          /\ ScopeId(scope'[a]) = ScopeId(scope[a])
    /\ scope[a] = None => scope'[a] = None

\* A session-key router call leaves a live, unrevoked scope behind it.
LEMMA PullAuthScope ==
  ASSUME TypeOK, NEW agent \in Agents, SessionPullAuth(agent)
  PROVE  /\ scope' \in [Agents -> AgentScope \cup {None}]
         /\ scope[agent] # None /\ ~scope[agent].revoked
         /\ ScopesKept
  <1>1. /\ scope[agent] \in AgentScope /\ now \in Nat
        /\ ~scope[agent].revoked
        /\ scope' = [scope EXCEPT ![agent] = RollPeriod(scope[agent], now)]
    BY DEF SessionPullAuth, TypeOK, ScopeLive, EnforcePull
  <1> DEFINE r == RollPeriod(scope[agent], now)
  <1>2. /\ r \in AgentScope /\ r.owner = scope[agent].owner
        /\ r.token = scope[agent].token /\ r.kind = scope[agent].kind
        /\ r.revoked = scope[agent].revoked
        /\ r.cap_per_period = scope[agent].cap_per_period
        /\ ScopeId(r) = ScopeId(scope[agent])
    BY <1>1, RollPeriodType
  <1> HIDE DEF r
  <1>3. scope'[agent] = r /\ \A a \in Agents : a # agent => scope'[a] = scope[a]
    BY <1>1 DEF TypeOK, r
  <1>4. scope' \in [Agents -> AgentScope \cup {None}]
    BY <1>1, <1>2 DEF TypeOK, r
  <1> QED
    BY <1>1, <1>2, <1>3, <1>4, NoneAssumption DEF SessionPullAuth, ScopesKept

\* The parts of the invariant that read scopes survive such a step.
LEMMA KeptScopes ==
  ASSUME Bounds, ScopesKept,
         UNCHANGED <<deployed, linked, exitSigner, everPlaced, returned,
                     swept, born>>
  PROVE  UNCHANGED perm => LinksConsistent' /\ PermissionBacked'
  <1>1. ASSUME UNCHANGED perm  PROVE LinksConsistent'
    BY <1>1 DEF Bounds, ScopesKept, LinksConsistent
  <1>2. ASSUME UNCHANGED perm  PROVE PermissionBacked'
    BY <1>2 DEF Bounds, ScopesKept, PermissionBacked, PermIds, Agents
  <1> QED  BY <1>1, <1>2

\* A pull moves tokens into an agent that is deployed and not revoked, so into
\* none that was swept.
LEMMA PulledIsLive ==
  ASSUME TypeOK, Bounds, ScopesKept, NEW agent \in Agents, NEW amount \in Nat,
         scope[agent] # None, ~scope[agent].revoked,
         agentBal' = [agentBal EXCEPT ![agent] = @ + amount],
         UNCHANGED <<shares, vaultAllow, exitSigner, deployed, linked,
                     everPlaced, returned, swept, born>>
  PROVE  SweptStaysEmpty' /\ UndeployedEmpty'
  <1>1. \A a \in Agents : a # agent => agentBal'[a] = agentBal[a]
    BY DEF TypeOK
  <1>2. SweptStaysEmpty /\ UndeployedEmpty /\ swept \subseteq Agents
    BY DEF Bounds, TypeOK
  <1>3. ASSUME NEW a \in swept  PROVE SweptStaysEmpty!(a)'
    <2>1. SweptStaysEmpty!(a) /\ a \in Agents
      BY <1>2, <1>3 DEF SweptStaysEmpty
    <2>2. a # agent /\ scope[a] # None
      BY <1>2, <1>3, <2>1 DEF UndeployedEmpty
    <2>3. scope'[a].revoked = scope[a].revoked /\ scope'[a].kind = scope[a].kind
      BY <2>1, <2>2 DEF ScopesKept
    <2> QED  BY <1>1, <2>1, <2>2, <2>3
  <1>4. ASSUME NEW a \in Agents  PROVE UndeployedEmpty!(a)'
    <2>1. UndeployedEmpty!(a)
      BY <1>2 DEF UndeployedEmpty
    <2>2. scope'[a] = None => scope[a] = None
      BY DEF ScopesKept
    <2> QED  BY <1>1, <2>1, <2>2
  <1>5. SweptStaysEmpty'
    BY <1>3 DEF SweptStaysEmpty
  <1> QED  BY <1>4, <1>5 DEF UndeployedEmpty

\* pull preserves the invariant.
LEMMA PullInv ==
  ASSUME IndInv, NEW agent \in Agents, NEW amount \in Amounts,
         Pull(agent, amount)
  PROVE  IndInv'
  <1>1. TypeOK /\ Bounds /\ BudgetBound /\ amount \in Nat
    BY AmountsAssumption DEF IndInv, Bounds
  <1>2. /\ SessionPullAuth(agent)
        /\ deployed[agent] # None
        /\ UNCHANGED <<seq, now, ahead, shares, vaultAllow, exitSigner,
                       deployed, linked, perm, used, sweeping, lastBudget,
                       pulledUnder, everPlaced, returned, swept, born>>
    BY DEF Pull, routerVars, clock, moneyHistory
  <1> DEFINE x == <<deployed[agent].owner, deployed[agent].token>>
  <1>3. x \in OwnerTokens /\ TransferFrom(x[1], x[2], agent, amount)
    BY <1>1, <1>2 DEF Pull, TypeOK, OwnerTokens
  <1> HIDE DEF x
  <1>4. /\ allow' \in [OwnerTokens -> Allowance]
        /\ ownerBal' \in [OwnerTokens -> Nat]
        /\ agentBal' \in [Agents -> Nat]
        /\ pulledSince' \in [OwnerTokens -> Nat]
        /\ agentBal' = [agentBal EXCEPT ![agent] = @ + amount]
        /\ BudgetBound'
    BY <1>1, <1>2, <1>3, TransferBudget
  <1>5. /\ scope' \in [Agents -> AgentScope \cup {None}]
        /\ scope[agent] # None /\ ~scope[agent].revoked
        /\ ScopesKept
    BY <1>1, <1>2, PullAuthScope
  <1>6. TypeOK'
    BY <1>1, <1>2, <1>4, <1>5 DEF TypeOK
  <1>7. LinksConsistent' /\ PermissionBacked'
    BY <1>1, <1>2, <1>5, KeptScopes
  <1>8. CeilingBound'
    BY <1>1, <1>2 DEF Bounds, CeilingBound
  <1>9. SweptStaysEmpty' /\ UndeployedEmpty'
    BY <1>1, <1>2, <1>4, <1>5, PulledIsLive
  <1> QED  BY <1>4, <1>6, <1>7, <1>8, <1>9 DEF IndInv

\* pull_v3 preserves the invariant.
LEMMA PullV3Inv ==
  ASSUME IndInv, NEW id \in PermIds, NEW exec \in Execs, NEW agent \in Agents,
         NEW amount \in Amounts, PullV3(id, exec, agent, amount)
  PROVE  IndInv'
  <1>1. TypeOK /\ Bounds /\ BudgetBound /\ amount \in Nat
    BY AmountsAssumption DEF IndInv, Bounds
  <1>2. /\ SessionPullAuth(agent)
        /\ perm[id] \in PermissionGrantV3
        /\ WithinLimits(perm[id], amount)
        /\ used' = used \cup {<<id, exec>>}
        /\ perm' = [perm EXCEPT ![id].confirmed_spent = @ + amount]
        /\ pulledUnder' = [pulledUnder EXCEPT ![id] = @ + amount]
        /\ UNCHANGED <<seq, now, ahead, shares, vaultAllow, exitSigner,
                       deployed, linked, sweeping, lastBudget, everPlaced,
                       returned, swept, born>>
    BY <1>1 DEF PullV3, TypeOK, clock, moneyHistory
  <1> DEFINE x == <<perm[id].owner, perm[id].token>>
  <1>3. x \in OwnerTokens /\ TransferFrom(x[1], x[2], agent, amount)
    BY <1>1, <1>2 DEF PullV3, PermissionGrantV3, OwnerTokens
  <1> HIDE DEF x
  <1>4. /\ allow' \in [OwnerTokens -> Allowance]
        /\ ownerBal' \in [OwnerTokens -> Nat]
        /\ agentBal' \in [Agents -> Nat]
        /\ pulledSince' \in [OwnerTokens -> Nat]
        /\ agentBal' = [agentBal EXCEPT ![agent] = @ + amount]
        /\ BudgetBound'
    BY <1>1, <1>2, <1>3, TransferBudget
  <1>5. /\ scope' \in [Agents -> AgentScope \cup {None}]
        /\ scope[agent] # None /\ ~scope[agent].revoked
        /\ ScopesKept
    BY <1>1, <1>2, PullAuthScope
  <1>6. /\ perm' \in [PermIds -> PermissionGrantV3 \cup {None}]
        /\ perm'[id] \in PermissionGrantV3
        /\ perm'[id].owner = perm[id].owner
        /\ perm'[id].scope_id = perm[id].scope_id
        /\ perm'[id].mandate_ceiling = perm[id].mandate_ceiling
        /\ perm'[id].confirmed_spent = perm[id].confirmed_spent + amount
        /\ perm[id].confirmed_spent + amount <= perm[id].mandate_ceiling
        /\ \A p \in PermIds : p # id => perm'[p] = perm[p]
    BY <1>1, <1>2 DEF TypeOK, PermissionGrantV3, WithinLimits
  <1>7. TypeOK'
    <2>1. used' \in SUBSET (PermIds \X Execs)
      BY <1>1, <1>2 DEF TypeOK
    <2>2. pulledUnder' \in [PermIds -> Nat]
      BY <1>1, <1>2 DEF TypeOK
    <2> QED  BY <1>1, <1>2, <1>4, <1>5, <1>6, <2>1, <2>2 DEF TypeOK
  <1>8. CeilingBound'
    BY <1>1, <1>2, <1>6, NoneAssumption
    DEF Bounds, CeilingBound, TypeOK, PermissionGrantV3
  <1>9. \A p \in PermIds : /\ perm'[p] # None <=> perm[p] # None
                           /\ perm[p] # None =>
                                /\ perm'[p].owner = perm[p].owner
                                /\ perm'[p].scope_id = perm[p].scope_id
    BY <1>2, <1>6, NoneAssumption
  <1>10. LinksConsistent'
    BY <1>1, <1>2, <1>5, <1>9
    DEF Bounds, LinksConsistent, ScopesKept, TypeOK
  <1>11. PermissionBacked'
    BY <1>1, <1>5, <1>9
    DEF Bounds, PermissionBacked, ScopesKept, PermIds, Agents
  <1>13. SweptStaysEmpty' /\ UndeployedEmpty'
    BY <1>1, <1>2, <1>4, <1>5, PulledIsLive
  <1> QED
    BY <1>4, <1>7, <1>8, <1>10, <1>11, <1>13 DEF IndInv

\* revoke_v3 preserves the invariant.
LEMMA RevokeV3Inv ==
  ASSUME IndInv, NEW id \in PermIds, RevokeV3(id)
  PROVE  IndInv'
  <1>1. TypeOK /\ Bounds
    BY DEF IndInv, Bounds
  <1>2. /\ perm[id] \in PermissionGrantV3
        /\ perm' = [perm EXCEPT ![id].revoked = TRUE]
        /\ UNCHANGED <<seq, now, ahead, ownerBal, agentBal, shares, allow,
                       vaultAllow, scope, exitSigner, deployed, linked, used,
                       sweeping, lastBudget, pulledSince, pulledUnder,
                       everPlaced, returned, swept, born>>
    BY <1>1 DEF RevokeV3, TypeOK, clock, chainVars, agentVars, budgetHistory,
               moneyHistory
  <1>3. /\ perm' \in [PermIds -> PermissionGrantV3 \cup {None}]
        /\ perm'[id] \in PermissionGrantV3
        /\ perm'[id].owner = perm[id].owner
        /\ perm'[id].scope_id = perm[id].scope_id
        /\ perm'[id].mandate_ceiling = perm[id].mandate_ceiling
        /\ perm'[id].confirmed_spent = perm[id].confirmed_spent
        /\ \A p \in PermIds : p # id => perm'[p] = perm[p]
    BY <1>1, <1>2 DEF TypeOK, PermissionGrantV3
  <1>4. \A p \in PermIds :
          /\ perm'[p] # None <=> perm[p] # None
          /\ perm[p] # None =>
               /\ perm'[p].owner = perm[p].owner
               /\ perm'[p].scope_id = perm[p].scope_id
               /\ perm'[p].mandate_ceiling = perm[p].mandate_ceiling
               /\ perm'[p].confirmed_spent = perm[p].confirmed_spent
    BY <1>2, <1>3, NoneAssumption
  <1>5. TypeOK'
    BY <1>1, <1>2, <1>3 DEF TypeOK
  <1>6. CeilingBound'
    BY <1>1, <1>2, <1>4 DEF Bounds, CeilingBound
  <1>7. LinksConsistent' /\ PermissionBacked'
    BY <1>1, <1>2, <1>4 DEF Bounds, LinksConsistent, PermissionBacked, TypeOK
  <1>8. /\ BudgetBound' /\ SweptStaysEmpty'
        /\ UndeployedEmpty'
    BY <1>1, <1>2 DEF Bounds, BudgetBound, SweptStaysEmpty,
                      UndeployedEmpty
  <1> QED  BY <1>5, <1>6, <1>7, <1>8 DEF IndInv

\* A session-key spend preserves the invariant, whatever the vault mints.
LEMMA SpendInv ==
  ASSUME IndInv, NEW agent \in Agents, NEW amount \in Amounts, NEW route,
         NEW minted \in Quotes \cup {0}, Spend(agent, amount, route, minted)
  PROVE  IndInv'
  <1>1. TypeOK /\ Bounds /\ amount \in Nat /\ minted \in Nat
    BY AmountsAssumption, QuotesAssumption DEF IndInv, Bounds
  <1>2. /\ scope[agent] \in AgentScope /\ ~scope[agent].revoked
        /\ vaultAllow[agent] \in Allowance /\ agentBal[agent] \in Nat
        /\ shares[agent] \in Nat /\ everPlaced[agent] \in Nat /\ seq \in Nat
        /\ now \in Nat
    BY <1>1 DEF Spend, TypeOK, ScopeLive
  <1>3. /\ amount <= vaultAllow[agent].amount
        /\ amount <= agentBal[agent]
        /\ scope' = [scope EXCEPT
                       ![agent] = EnforceSpend(scope[agent], now, amount)]
        /\ vaultAllow' = [vaultAllow EXCEPT ![agent].amount = @ - amount]
        /\ agentBal' = [agentBal EXCEPT ![agent] = @ - amount]
        /\ shares' = [shares EXCEPT ![agent] = @ + minted]
        /\ everPlaced' = [everPlaced EXCEPT ![agent] = @ + amount]
    <2>1. Spendable(vaultAllow[agent], seq) >= amount
      BY DEF Spend
    <2>2. amount <= vaultAllow[agent].amount
      BY <1>1, <1>2, <2>1 DEF Spendable, Allowance
    <2> QED  BY <1>1, <1>2, <2>2 DEF Spend
  <1>4. UNCHANGED <<seq, now, ahead, ownerBal, allow, exitSigner, deployed,
                    linked, perm, used, sweeping, lastBudget, pulledSince,
                    pulledUnder, returned, swept, born>>
    BY DEF Spend, clock, routerVars, budgetHistory
  <1> DEFINE r == EnforceSpend(scope[agent], now, amount)
  <1>5. /\ r \in AgentScope /\ r.owner = scope[agent].owner
        /\ r.token = scope[agent].token /\ r.kind = scope[agent].kind
        /\ r.revoked = scope[agent].revoked
        /\ r.cap_per_period = scope[agent].cap_per_period
        /\ ScopeId(r) = ScopeId(scope[agent])
    <2>1. scope[agent] \in AgentScope /\ now \in Nat /\ amount \in Nat
      BY <1>1, <1>2
    <2> QED  BY ONLY <2>1, EnforceSpendType
  <1> HIDE DEF r
  <1>6. /\ scope'[agent] = r
        /\ \A a \in Agents : a # agent => scope'[a] = scope[a]
        /\ scope' \in [Agents -> AgentScope \cup {None}]
    BY <1>1, <1>3, <1>5 DEF TypeOK, r
  <1>7. ScopesKept
    BY <1>2, <1>5, <1>6, NoneAssumption DEF ScopesKept
  <1>8. /\ vaultAllow' \in [Agents -> Allowance]
        /\ vaultAllow'[agent].amount = vaultAllow[agent].amount - amount
        /\ \A a \in Agents : a # agent => vaultAllow'[a] = vaultAllow[a]
    <2>1. /\ vaultAllow[agent].amount \in Nat
          /\ vaultAllow[agent].amount - amount \in Nat
          /\ vaultAllow \in [Agents -> Allowance]
      BY <1>1, <1>2, <1>3 DEF TypeOK, Allowance
    <2>2. vaultAllow' =
            [vaultAllow EXCEPT ![agent].amount = vaultAllow[agent].amount - amount]
      BY <1>3
    <2> QED  BY <2>1, <2>2, AllowanceAmount
  <1>9. TypeOK'
    <2>1. /\ agentBal' \in [Agents -> Nat] /\ shares' \in [Agents -> Nat]
          /\ everPlaced' \in [Agents -> Nat]
      BY <1>1, <1>2, <1>3 DEF TypeOK
    <2> QED  BY <1>1, <1>4, <1>6, <1>8, <2>1 DEF TypeOK
  <1>11. LinksConsistent' /\ PermissionBacked'
    BY <1>1, <1>4, <1>7
    DEF Bounds, ScopesKept, LinksConsistent, PermissionBacked, PermIds, Agents
  <1>12. BudgetBound' /\ CeilingBound'
    BY <1>1, <1>4 DEF Bounds, BudgetBound, CeilingBound
  <1>13. SweptStaysEmpty' /\ UndeployedEmpty'
    BY <1>1, <1>2, <1>3, <1>4, <1>7, <1>8, NoneAssumption
    DEF Bounds, SweptStaysEmpty, UndeployedEmpty,  TypeOK,
        ScopesKept
  <1> QED
    BY <1>9, <1>11, <1>12, <1>13 DEF IndInv

\* Revocation flips one flag of a scope.
LEMMA RevokedScopeType ==
  ASSUME NEW s \in AgentScope
  PROVE  /\ [s EXCEPT !.revoked = TRUE] \in AgentScope
         /\ [s EXCEPT !.revoked = TRUE].owner = s.owner
         /\ [s EXCEPT !.revoked = TRUE].token = s.token
         /\ [s EXCEPT !.revoked = TRUE].kind = s.kind
         /\ [s EXCEPT !.revoked = TRUE].cap_per_period = s.cap_per_period
         /\ ScopeId([s EXCEPT !.revoked = TRUE]) = ScopeId(s)
         /\ [s EXCEPT !.revoked = TRUE].revoked
  BY DEF AgentScope, ScopeId

\* What revoke and owner_withdraw both do to the agent's own records.
LEMMA KilledScope ==
  ASSUME TypeOK, Bounds, NEW agent \in Agents, scope[agent] # None,
         scope' = [scope EXCEPT ![agent].revoked = TRUE],
         vaultAllow' = [vaultAllow EXCEPT ![agent] = NoAllowance],
         UNCHANGED <<deployed, linked, perm>>
  PROVE  /\ scope' \in [Agents -> AgentScope \cup {None}]
         /\ vaultAllow' \in [Agents -> Allowance]
         /\ scope'[agent] # None
         /\ scope'[agent].revoked
         /\ scope'[agent].kind = scope[agent].kind
         /\ vaultAllow'[agent].amount = 0
         /\ \A a \in Agents : a # agent => /\ scope'[a] = scope[a]
                                           /\ vaultAllow'[a] = vaultAllow[a]
         /\ LinksConsistent' /\ PermissionBacked'
  <1> DEFINE r == [scope[agent] EXCEPT !.revoked = TRUE]
  <1>1. /\ scope[agent] \in AgentScope
        /\ r \in AgentScope /\ r.owner = scope[agent].owner
        /\ r.token = scope[agent].token /\ r.kind = scope[agent].kind
        /\ r.cap_per_period = scope[agent].cap_per_period
        /\ ScopeId(r) = ScopeId(scope[agent]) /\ r.revoked
    <2>1. scope[agent] \in AgentScope
      BY DEF TypeOK
    <2> QED  BY ONLY <2>1, RevokedScopeType
  <1>2. scope' = [scope EXCEPT ![agent] = r]
    OBVIOUS
  <1> HIDE DEF r
  <1>3. /\ scope'[agent] = r
        /\ \A a \in Agents : a # agent => scope'[a] = scope[a]
        /\ scope' \in [Agents -> AgentScope \cup {None}]
    <2>1. scope \in [Agents -> AgentScope \cup {None}]
      BY DEF TypeOK
    <2> QED  BY ONLY <1>1, <1>2, <2>1, agent \in Agents
  <1>4. /\ vaultAllow' \in [Agents -> Allowance]
        /\ vaultAllow'[agent].amount = 0
        /\ \A a \in Agents : a # agent => vaultAllow'[a] = vaultAllow[a]
    <2>1. NoAllowance \in Allowance /\ NoAllowance.amount = 0
      BY DEF Allowance, NoAllowance
    <2>2. vaultAllow \in [Agents -> Allowance]
      BY DEF TypeOK
    <2> QED  BY <2>1, <2>2
  <1>6. LinksConsistent'
    <2> SUFFICES ASSUME NEW a \in Agents  PROVE LinksConsistent!(a)'
      BY DEF LinksConsistent
    <2>1. LinksConsistent!(a)
      BY DEF Bounds, LinksConsistent
    <2>2. CASE a = agent
      BY <1>1, <1>3, <2>1, <2>2, NoneAssumption
    <2>3. CASE a # agent
      BY <1>3, <2>1, <2>3 DEF ScopeId
    <2> QED  BY <2>2, <2>3
  <1>7. PermissionBacked'
    <2>1. \A a \in Agents : scope[a] # None => scope'[a] # None
      BY <1>1, <1>3, NoneAssumption
    <2> QED  BY <2>1 DEF Bounds, PermissionBacked, PermIds, Agents
  <1> QED  BY <1>1, <1>3, <1>4, <1>6, <1>7, NoneAssumption

\* revoke preserves the invariant.
LEMMA RevokeInv ==
  ASSUME IndInv, NEW agent \in Agents, Revoke(agent)
  PROVE  IndInv'
  <1>1. TypeOK /\ Bounds
    BY DEF IndInv, Bounds
  <1>2. /\ scope[agent] # None
        /\ scope' = [scope EXCEPT ![agent].revoked = TRUE]
        /\ vaultAllow' = [vaultAllow EXCEPT ![agent] = NoAllowance]
        /\ UNCHANGED <<seq, now, ahead, ownerBal, agentBal, shares, allow,
                       exitSigner, deployed, linked, perm, used, sweeping,
                       lastBudget, pulledSince, pulledUnder, everPlaced,
                       returned, swept, born>>
    BY DEF Revoke, clock, routerVars, budgetHistory, moneyHistory
  <1>3. /\ scope' \in [Agents -> AgentScope \cup {None}]
        /\ vaultAllow' \in [Agents -> Allowance]
        /\ scope'[agent] # None /\ scope'[agent].revoked
        /\ scope'[agent].kind = scope[agent].kind
        /\ vaultAllow'[agent].amount = 0
        /\ \A a \in Agents : a # agent => /\ scope'[a] = scope[a]
                                          /\ vaultAllow'[a] = vaultAllow[a]
        /\ LinksConsistent' /\ PermissionBacked'
    BY <1>1, <1>2, KilledScope
  <1>4. TypeOK'
    BY <1>1, <1>2, <1>3 DEF TypeOK
  <1>5. BudgetBound' /\ CeilingBound'
    BY <1>1, <1>2 DEF Bounds, BudgetBound, CeilingBound
  <1>6. SweptStaysEmpty' /\ UndeployedEmpty'
    BY <1>1, <1>2, <1>3
    DEF Bounds, SweptStaysEmpty, UndeployedEmpty,  TypeOK
  <1> QED  BY <1>3, <1>4, <1>5, <1>6 DEF IndInv

\* The exit signer's redeem and transfer preserve the invariant: both need a
\* live scope, so neither touches a swept agent.
LEMMA ExitInv ==
  ASSUME IndInv, NEW agent \in Agents, NEW n \in Quotes \cup Amounts,
         \/ \E payout \in Quotes : ExitRedeem(agent, n, payout)
         \/ \E to \in Owners : ExitTransfer(agent, to, n)
  PROVE  IndInv'
  <1>1. TypeOK /\ Bounds /\ n \in Nat /\ Quotes \subseteq Nat
    BY AmountsAssumption, QuotesAssumption DEF IndInv, Bounds
  <1>2. /\ agent \in exitSigner /\ ~scope[agent].revoked
        /\ UNCHANGED <<seq, now, ahead, allow, vaultAllow, scope, exitSigner,
                       deployed, linked, perm, used, sweeping, lastBudget,
                       pulledSince, pulledUnder, everPlaced, swept, born>>
    BY DEF ExitRedeem, ExitTransfer, ScopeLive, clock, agentVars, routerVars,
           budgetHistory, moneyHistory
  <1>3. /\ scope[agent] \in AgentScope /\ agent \notin swept
        /\ scope[agent] # None
    BY <1>1, <1>2 DEF Bounds, UndeployedEmpty, SweptStaysEmpty, TypeOK
  <1>4. /\ agentBal' \in [Agents -> Nat] /\ shares' \in [Agents -> Nat]
        /\ ownerBal' \in [OwnerTokens -> Nat]
        /\ returned' \in [Agents -> Nat]
        /\ \A a \in Agents : a # agent => /\ agentBal'[a] = agentBal[a]
                                          /\ shares'[a] = shares[a]
                                          /\ returned'[a] = returned[a]
    <2>1. CASE \E payout \in Quotes : ExitRedeem(agent, n, payout)
      <3>1. PICK payout \in Quotes : ExitRedeem(agent, n, payout)
        BY <2>1
      <3>2. payout \in Nat /\ n <= shares[agent]
        BY <1>1, <3>1 DEF ExitRedeem
      <3> QED  BY <1>1, <3>1, <3>2 DEF ExitRedeem, TypeOK
    <2>2. ASSUME NEW to \in Owners, ExitTransfer(agent, to, n)
          PROVE  /\ agentBal' \in [Agents -> Nat] /\ shares' \in [Agents -> Nat]
                 /\ ownerBal' \in [OwnerTokens -> Nat]
                 /\ returned' \in [Agents -> Nat]
                 /\ \A a \in Agents :
                      a # agent => /\ agentBal'[a] = agentBal[a]
                                   /\ shares'[a] = shares[a]
                                   /\ returned'[a] = returned[a]
      <3>1. <<to, scope[agent].token>> \in OwnerTokens
        BY <1>3 DEF OwnerTokens, AgentScope
      <3> QED  BY <1>1, <2>2, <3>1 DEF ExitTransfer, TypeOK, moneyHistory
    <2> QED  BY <2>1, <2>2
  <1>5. TypeOK'
    BY <1>1, <1>2, <1>4 DEF TypeOK
  <1>6. /\ BudgetBound' /\ CeilingBound'
        /\ LinksConsistent' /\ PermissionBacked'
    BY <1>1, <1>2 DEF Bounds, BudgetBound, CeilingBound, LinksConsistent, PermissionBacked
  <1>7. SweptStaysEmpty' /\ UndeployedEmpty'
    BY <1>1, <1>2, <1>3, <1>4
    DEF Bounds, SweptStaysEmpty, UndeployedEmpty,  TypeOK
  <1> QED  BY <1>5, <1>6, <1>7 DEF IndInv

\* owner_withdraw preserves the invariant, called directly or by a sweep.
LEMMA WithdrawInv ==
  ASSUME IndInv, NEW agent \in Agents, NEW caller \in Owners,
         NEW to \in Owners, NEW payout \in Quotes \cup {0},
         OwnerWithdraw(agent, caller, to, payout),
         sweeping' \in [owner: Owners, to: Owners, todo: SUBSET Agents]
                         \cup {None}
  PROVE  IndInv'
  <1>1. TypeOK /\ Bounds /\ payout \in Nat
    BY QuotesAssumption DEF IndInv, Bounds
  <1>2. /\ scope[agent] # None /\ scope[agent] \in AgentScope
        /\ scope' = [scope EXCEPT ![agent].revoked = TRUE]
        /\ vaultAllow' = [vaultAllow EXCEPT ![agent] = NoAllowance]
        /\ shares' = [shares EXCEPT ![agent] = 0]
        /\ agentBal' = [agentBal EXCEPT ![agent] = 0]
        /\ returned' = [returned EXCEPT ![agent] = @ + payout]
        /\ swept' = swept \cup {agent}
        /\ UNCHANGED <<seq, now, ahead, allow, exitSigner, deployed, linked,
                       perm, used, lastBudget, pulledSince, pulledUnder,
                       everPlaced, born>>
    BY <1>1 DEF OwnerWithdraw, ExitScope, clock, routerVars, budgetHistory,
                TypeOK
  <1>3. /\ scope' \in [Agents -> AgentScope \cup {None}]
        /\ vaultAllow' \in [Agents -> Allowance]
        /\ scope'[agent] # None /\ scope'[agent].revoked
        /\ scope'[agent].kind = scope[agent].kind
        /\ vaultAllow'[agent].amount = 0
        /\ \A a \in Agents : a # agent => /\ scope'[a] = scope[a]
                                          /\ vaultAllow'[a] = vaultAllow[a]
        /\ LinksConsistent' /\ PermissionBacked'
    BY <1>1, <1>2, KilledScope
  <1>4. returned[agent] \in Nat /\ agentBal[agent] \in Nat
    BY <1>1 DEF TypeOK
  <1>5. ownerBal' \in [OwnerTokens -> Nat]
    <2>1. <<to, scope[agent].token>> \in OwnerTokens
      BY <1>2 DEF OwnerTokens, AgentScope
    <2> QED  BY <1>1, <1>4, <2>1 DEF OwnerWithdraw, TypeOK
  <1>6. /\ shares' \in [Agents -> Nat] /\ agentBal' \in [Agents -> Nat]
        /\ agentBal'[agent] = 0
        /\ shares'[agent] = 0
        /\ returned' \in [Agents -> Nat]
        /\ \A a \in Agents : a # agent => /\ agentBal'[a] = agentBal[a]
                                          /\ shares'[a] = shares[a]
                                          /\ returned'[a] = returned[a]
    BY <1>1, <1>2, <1>4 DEF TypeOK
  <1>7. TypeOK'
    BY <1>1, <1>2, <1>3, <1>5, <1>6 DEF TypeOK
  <1>8. BudgetBound' /\ CeilingBound'
    BY <1>1, <1>2 DEF Bounds, BudgetBound, CeilingBound
  <1>9. UndeployedEmpty'
    BY <1>1, <1>2, <1>3, <1>6 DEF Bounds, UndeployedEmpty
  <1>10. SweptStaysEmpty'
    BY <1>1, <1>2, <1>3, <1>6 DEF Bounds, SweptStaysEmpty, TypeOK
  <1> QED  BY <1>3, <1>7, <1>8, <1>9, <1>10 DEF IndInv

\* The invariant does not read the clock or the sweep in progress.
LEMMA IdleInv ==
  ASSUME IndInv, seq' \in Nat, now' \in Nat, ahead' \in Nat,
         sweeping' \in [owner: Owners, to: Owners, todo: SUBSET Agents]
                         \cup {None},
         exitSigner' \in SUBSET Agents,
         \A a \in Agents : scope[a] = None => a \notin exitSigner',
         UNCHANGED <<chainVars, scope, routerVars, budgetHistory, everPlaced,
                     returned, swept, born>>
  PROVE  IndInv'
  <1>1. TypeOK /\ Bounds
    BY DEF IndInv, Bounds
  <1>2. UNCHANGED <<ownerBal, agentBal, shares, allow, vaultAllow, scope,
                    deployed, linked, perm, used, lastBudget, pulledSince,
                    pulledUnder, everPlaced, returned, swept, born>>
    BY DEF chainVars, routerVars, budgetHistory
  <1>3. TypeOK'
    BY <1>1, <1>2 DEF TypeOK
  <1>4. /\ BudgetBound' /\ CeilingBound'
        /\ LinksConsistent' /\ PermissionBacked'
    BY <1>1, <1>2 DEF Bounds, BudgetBound, CeilingBound, LinksConsistent, PermissionBacked
  <1>5. SweptStaysEmpty' /\ UndeployedEmpty'
    BY <1>1, <1>2 DEF Bounds, SweptStaysEmpty, UndeployedEmpty
  <1> QED  BY <1>3, <1>4, <1>5 DEF IndInv

\* Every step of the system preserves the invariant.
LEMMA NextInv == IndInv /\ [Next]_vars => IndInv'
  <1> SUFFICES ASSUME IndInv, [Next]_vars PROVE IndInv'
    OBVIOUS
  <1>0. /\ TypeOK /\ Bounds /\ seq \in Nat /\ now \in Nat /\ ahead \in Nat
        /\ exitSigner \in SUBSET Agents
        /\ \A a \in Agents : scope[a] = None => a \notin exitSigner
        /\ sweeping \in [owner: Owners, to: Owners, todo: SUBSET Agents]
                          \cup {None}
    BY DEF IndInv, TypeOK, Bounds, UndeployedEmpty
  <1>1. CASE \E owner \in Owners, expiry \in Expiries,
                T \in SUBSET Tokens, S \in SUBSET Salts :
               \E budget \in [T -> Budgets], init \in [S -> Inits] :
                 Grant(owner, budget, expiry, init)
    BY <1>1, GrantInv
  <1>2. CASE \E a \in Agents, n \in Amounts : Pull(a, n)
    BY <1>2, PullInv
  <1>3. CASE \E owner \in Owners, token \in Tokens, ceiling \in Budgets,
                perRun \in Budgets, until \in Expiries, S \in SUBSET Salts :
               \E init \in [S -> Inits] :
                 GrantV3(owner, token, ceiling, perRun, until, init)
    BY <1>3, GrantV3Inv
  <1>4. CASE \E p \in PermIds, e \in Execs, a \in Agents, n \in Amounts :
               PullV3(p, e, a, n)
    BY <1>4, PullV3Inv
  <1>5. CASE \E p \in PermIds : RevokeV3(p)
    BY <1>5, RevokeV3Inv
  <1>6. CASE \E a \in Agents, n \in Amounts, r \in Routes \cup {NoRoute},
                minted \in Quotes \cup {0} : Spend(a, n, r, minted)
    BY <1>6, SpendInv
  <1>7. CASE \E a \in Agents : Revoke(a)
    BY <1>7, RevokeInv
  <1>8. CASE \E a \in Agents : SetExitSigner(a)
    <2>1. PICK a \in Agents : SetExitSigner(a)
      BY <1>8
    <2>2. /\ exitSigner' = exitSigner \cup {a} /\ scope[a] # None
          /\ UNCHANGED <<seq, now, ahead, sweeping, chainVars, scope,
                         routerVars, budgetHistory, everPlaced, returned,
                         swept, born>>
      BY <2>1 DEF SetExitSigner, clock, moneyHistory
    <2> QED  BY <1>0, <2>2, IdleInv
  <1>9. CASE \/ \E a \in Agents, n \in Quotes, payout \in Quotes :
                  ExitRedeem(a, n, payout)
             \/ \E a \in Agents, to \in Owners, n \in Amounts :
                  ExitTransfer(a, to, n)
    BY <1>9, ExitInv
  <1>10. CASE \E a \in Agents, caller \in Owners, to \in Owners,
                 payout \in Quotes \cup {0} :
                DirectWithdraw(a, caller, to, payout)
    <2>1. PICK a \in Agents, caller \in Owners, to \in Owners,
               payout \in Quotes \cup {0} :
            DirectWithdraw(a, caller, to, payout)
      BY <1>10
    <2>2. OwnerWithdraw(a, caller, to, payout) /\ sweeping' = sweeping
      BY <2>1 DEF DirectWithdraw
    <2> QED  BY <1>0, <2>2, WithdrawInv
  <1>11. CASE \E owner \in Owners, to \in Owners, S \in SUBSET Agents :
                SweepStart(owner, to, S)
    <2>1. PICK owner \in Owners, to \in Owners, S \in SUBSET Agents :
            SweepStart(owner, to, S)
      BY <1>11
    <2>2. /\ sweeping' = [owner |-> owner, to |-> to, todo |-> S]
          /\ UNCHANGED <<seq, now, ahead, exitSigner, chainVars, scope,
                         routerVars, budgetHistory, everPlaced, returned,
                         swept, born>>
      BY <2>1 DEF SweepStart, agentVars, clock, moneyHistory
    <2> QED  BY <1>0, <2>2, IdleInv
  <1>12. ASSUME NEW a \in Agents,
                (\E payout \in Quotes \cup {0} : SweepAgent(a, payout))
                  \/ SweepSkip(a)
         PROVE  /\ sweeping.owner \in Owners /\ sweeping.to \in Owners
                /\ sweeping' \in [owner: Owners, to: Owners,
                                  todo: SUBSET Agents] \cup {None}
    <2>1. /\ sweeping \in [owner: Owners, to: Owners, todo: SUBSET Agents]
          /\ sweeping' = [sweeping EXCEPT !.todo = @ \ {a}]
      BY <1>0, <1>12 DEF SweepAgent, SweepSkip
    <2> QED  BY <2>1
  <1>13. CASE \E a \in Agents, payout \in Quotes \cup {0} : SweepAgent(a, payout)
    <2>1. PICK a \in Agents, payout \in Quotes \cup {0} : SweepAgent(a, payout)
      BY <1>13
    <2>2. OwnerWithdraw(a, sweeping.owner, sweeping.to, payout)
      BY <2>1 DEF SweepAgent
    <2> QED  BY <1>12, <2>1, <2>2, WithdrawInv
  <1>14. CASE \E a \in Agents : SweepSkip(a)
    <2>1. PICK a \in Agents : SweepSkip(a)
      BY <1>14
    <2>2. UNCHANGED <<seq, now, ahead, exitSigner, chainVars, scope,
                      routerVars, budgetHistory, everPlaced, returned, swept,
                      born>>
      BY <2>1 DEF SweepSkip, agentVars, clock, moneyHistory
    <2> QED  BY <1>0, <1>12, <2>1, <2>2, IdleInv
  <1>15. CASE SweepEnd
    <2>1. /\ sweeping' = None
          /\ UNCHANGED <<seq, now, ahead, exitSigner, chainVars, scope,
                         routerVars, budgetHistory, everPlaced, returned,
                         swept, born>>
      BY <1>15 DEF SweepEnd, agentVars, clock, moneyHistory
    <2> QED  BY <1>0, <2>1, IdleInv
  <1>16. CASE \E secs \in CloseTimes : CloseLedger(secs)
    <2>1. /\ seq' \in Nat /\ now' \in Nat /\ ahead' \in Nat
          /\ UNCHANGED <<sweeping, exitSigner, chainVars, scope, routerVars,
                         budgetHistory, everPlaced, returned, swept, born>>
      BY <1>0, <1>16, PaceAssumption, TtlAssumption
      DEF CloseLedger, AheadAfter, agentVars, moneyHistory
    <2> QED  BY <1>0, <2>1, IdleInv
  <1>17. CASE UNCHANGED vars
    <2>1. UNCHANGED <<seq, now, ahead, sweeping, exitSigner, chainVars, scope,
                      routerVars, budgetHistory, everPlaced, returned, swept,
                      born>>
      BY <1>17 DEF vars, clock, agentVars, moneyHistory
    <2> QED  BY <1>0, <2>1, IdleInv
  <1> QED
    BY <1>1, <1>2, <1>3, <1>4, <1>5, <1>6, <1>7, <1>8, <1>9, <1>10, <1>11,
       <1>13, <1>14, <1>15, <1>16, <1>17
    DEF Next

\* IndInv holds in every reachable state, for every value of the constants.
THEOREM Invariance == Spec => []IndInv
  BY InitInv, NextInv, PTL DEF Spec

\* Type correctness of the whole funding and exit system.
THEOREM TypeCorrect == Spec => []TypeOK
  <1>1. IndInv => TypeOK
    BY DEF IndInv
  <1> QED  BY <1>1, Invariance, PTL

\* However grants and pulls of both generations interleave, agents never draw
\* more on an owner's token than the last grant approved.
THEOREM BudgetNeverExceeded == Spec => []BudgetBound
  <1>1. IndInv => BudgetBound
    BY DEF IndInv
  <1> QED  BY <1>1, Invariance, PTL

\* No permission ever moves more than its mandate_ceiling, and its
\* confirmed_spent is exactly what it moved.
THEOREM CeilingNeverExceeded == Spec => []CeilingBound
  <1>1. IndInv => CeilingBound
    BY DEF IndInv
  <1> QED  BY <1>1, Invariance, PTL

\* A swept agent stays revoked, empty and without allowance for ever.
THEOREM ExitIsTerminal == Spec => []SweptStaysEmpty
  <1>1. IndInv => SweptStaysEmpty
    BY DEF IndInv
  <1> QED  BY <1>1, Invariance, PTL

\* Agents of the two generations never mix, and a link always names a
\* permission of the agent's own owner and scope.
THEOREM LinksAlwaysConsistent == Spec => []LinksConsistent
  <1>1. IndInv => LinksConsistent
    BY DEF IndInv
  <1> QED  BY <1>1, Invariance, PTL
-----------------------------------------------------------------------------
(* What single steps may never do, from the invariant: change the terms of *)
(* a permission, bring a revoked agent back to life, or let the            *)
(* constructor's allowance end before the scope it serves.                 *)

\* While an agent may spend, its target's allowance has the network's longest
\* life, or lives as long as its scope at LedgerSecs a ledger, with the buffer
\* less what the network is ahead of that pace (and less the ledger that the
\* conversion's rounding takes).
Covered(a) ==
  (scope[a] # None /\ ~scope[a].revoked) =>
    \/ vaultAllow[a].until >= born[a] + MaxTtl
    \/ LedgerSecs * vaultAllow[a].until + ahead + now
         >= LedgerSecs * seq + scope[a].expiry
              + TtlBuffer * LedgerSecs - LedgerSecs + 1

\* A step never slows the network below the pace it is measured against.
PaceKept ==
  /\ ahead' <= MaxAhead
  /\ ahead' + now' + LedgerSecs * seq >= ahead + now + LedgerSecs * seq'

\* A deployed agent keeps its scope, its expiry and its revocation; its
\* allowance is replaced only when it is revoked; once it was revoked nothing
\* flows into it or is placed through it.
Kept(a) ==
  /\ scope'[a] # None
  /\ scope'[a].expiry = scope[a].expiry
  /\ born'[a] = born[a]
  /\ scope[a].revoked => /\ scope'[a].revoked
                         /\ agentBal'[a] <= agentBal[a]
                         /\ everPlaced'[a] = everPlaced[a]
  /\ scope'[a].revoked \/ vaultAllow'[a].until = vaultAllow[a].until

\* Every agent is kept, or was not deployed and is covered afterwards.
AgentsMove ==
  \A a \in Agents : IF scope[a] = None THEN Covered(a)' ELSE Kept(a)

\* A permission's terms stay, its spend grows only while it is not revoked.
PermKept(p) ==
  perm[p] # None =>
    /\ perm'[p] # None
    /\ perm'[p].confirmed_spent >= perm[p].confirmed_spent
    /\ perm[p].revoked =>
         /\ perm'[p].revoked
         /\ perm'[p].confirmed_spent = perm[p].confirmed_spent
    /\ perm'[p] = [perm[p] EXCEPT
                     !.confirmed_spent = perm'[p].confirmed_spent,
                     !.revoked = perm'[p].revoked]

\* Whole ledgers of a span of seconds lose less than one ledger of it.
LEMMA WholeLedgers ==
  ASSUME NEW r \in Nat, NEW q, q = r \div LedgerSecs
  PROVE  q \in Nat /\ LedgerSecs * q >= r - LedgerSecs + 1
  BY TtlAssumption

\* The TTL the constructor asks for is the network's longest, or reaches the
\* scope's expiry with the buffer.
LEMMA TtlReachesExpiry ==
  ASSUME NEW expiry \in Nat, NEW t \in Nat
  PROVE  /\ AllowanceTtl(expiry, t) \in Nat
         /\ \/ AllowanceTtl(expiry, t) = MaxTtl
            \/ LedgerSecs * AllowanceTtl(expiry, t) + t
                 >= expiry + TtlBuffer * LedgerSecs - LedgerSecs + 1
  <1> DEFINE r == IF expiry > t THEN expiry - t ELSE 0
  <1>1. r \in Nat /\ r + t >= expiry
    OBVIOUS
  <1>2. PICK q \in Nat : q = r \div LedgerSecs /\ LedgerSecs * q >= r - LedgerSecs + 1
    BY <1>1, WholeLedgers
  <1>3. PICK f \in Nat :
          f = IF q + TtlBuffer > ApproveTtl THEN q + TtlBuffer ELSE ApproveTtl
    BY <1>2, TtlAssumption
  <1>4. AllowanceTtl(expiry, t) = IF f < MaxTtl THEN f ELSE MaxTtl
    BY <1>1, <1>2, <1>3 DEF AllowanceTtl
  <1> HIDE DEF r
  <1>5. f >= q + TtlBuffer
    BY <1>2, <1>3, TtlAssumption
  <1>6. LedgerSecs * f >= LedgerSecs * (q + TtlBuffer)
    BY <1>2, <1>3, <1>5, TtlAssumption
  <1>7. LedgerSecs * (q + TtlBuffer) = LedgerSecs * q + TtlBuffer * LedgerSecs
    BY <1>2, TtlAssumption
  <1>8. LedgerSecs * f + t >= expiry + TtlBuffer * LedgerSecs - LedgerSecs + 1
    BY <1>1, <1>2, <1>3, <1>6, <1>7, TtlAssumption
  <1> QED  BY <1>3, <1>4, <1>8, TtlAssumption

\* A deployment covers the agents it creates.
LEMMA DeployCovers ==
  ASSUME TypeOK, NEW owner \in Owners, NEW salts \in SUBSET Salts,
         NEW init \in [salts -> Inits], NEW max \in Nat,
         Fresh(owner, salts), DeployAgents(owner, salts, init, max),
         UNCHANGED <<seq, now, ahead, agentBal, everPlaced>>
  PROVE  AgentsMove
  <1> SUFFICES ASSUME NEW a \in Agents
               PROVE  IF scope[a] = None THEN Covered(a)' ELSE Kept(a)
    BY DEF AgentsMove
  <1>1. /\ seq \in Nat /\ now \in Nat /\ ahead \in Nat
        /\ agentBal[a] \in Nat
    BY DEF TypeOK
  <1>2. CASE a[1] = owner /\ a[2] \in salts
    <2>1. scope[a] = None
      <3>1. a = <<owner, a[2]>>
        BY <1>2 DEF Agents
      <3> QED  BY <1>2, <3>1 DEF Fresh
    <2>2. PICK i \in Inits : i = init[a[2]]
      BY <1>2
    <2>3. /\ scope'[a] = NewScope(owner, i, max)
          /\ vaultAllow'[a]
               = ConstructorAllowance(NewScope(owner, i, max), seq, now)
          /\ born'[a] = seq
      BY <1>2, <2>2 DEF DeployAgents
    <2>4. NewScope(owner, i, max).expiry = i.expiry
      BY DEF NewScope
    <2>5. PICK ttl : ttl = AllowanceTtl(i.expiry, now)
      OBVIOUS
    <2>6. vaultAllow'[a].until = seq + ttl
      BY <2>3, <2>4, <2>5 DEF ConstructorAllowance
    <2>7. i.expiry \in Nat
      BY InitsAssumption
    <2>8. /\ ttl \in Nat
          /\ \/ ttl = MaxTtl
             \/ LedgerSecs * ttl + now
                  >= i.expiry + TtlBuffer * LedgerSecs - LedgerSecs + 1
      BY <1>1, <2>5, <2>7, TtlReachesExpiry
    <2>9. LedgerSecs * (seq + ttl) = LedgerSecs * seq + LedgerSecs * ttl
      BY <1>1, <2>8, TtlAssumption
    <2>10. CASE ttl = MaxTtl
      BY <1>1, <2>1, <2>3, <2>6, <2>10, TtlAssumption DEF Covered
    <2>11. CASE LedgerSecs * ttl + now
                  >= i.expiry + TtlBuffer * LedgerSecs - LedgerSecs + 1
      <3>1. LedgerSecs * (seq + ttl) + ahead + now
              >= LedgerSecs * seq + i.expiry + TtlBuffer * LedgerSecs
                   - LedgerSecs + 1
        BY <1>1, <2>7, <2>8, <2>9, <2>11, TtlAssumption
      <3> QED  BY <2>1, <2>3, <2>4, <2>6, <3>1 DEF Covered
    <2> QED  BY <2>8, <2>10, <2>11
  <1>3. CASE ~(a[1] = owner /\ a[2] \in salts)
    <2>1. /\ scope'[a] = scope[a] /\ vaultAllow'[a] = vaultAllow[a]
          /\ born'[a] = born[a]
      BY <1>3 DEF DeployAgents
    <2> QED  BY <1>1, <2>1 DEF Covered, Kept
  <1> QED  BY <1>2, <1>3

\* A step that rolls the period of a live agent, and changes its balance.
LEMMA LiveMoves ==
  ASSUME TypeOK, NEW agent \in Agents, NEW r,
         scope[agent] # None, ~scope[agent].revoked,
         r # None, r.expiry = scope[agent].expiry,
         scope' = [scope EXCEPT ![agent] = r],
         \A a \in Agents : a # agent => /\ agentBal'[a] = agentBal[a]
                                        /\ everPlaced'[a] = everPlaced[a],
         \A a \in Agents : vaultAllow'[a].until = vaultAllow[a].until,
         UNCHANGED born
  PROVE  AgentsMove
  <1> SUFFICES ASSUME NEW a \in Agents
               PROVE  IF scope[a] = None THEN Covered(a)' ELSE Kept(a)
    BY DEF AgentsMove
  <1>1. agentBal[a] \in Nat
    BY DEF TypeOK
  <1>2. scope'[agent] = r /\ (a # agent => scope'[a] = scope[a])
    BY DEF TypeOK
  <1>3. CASE a = agent
    BY <1>2, <1>3 DEF Kept
  <1>4. CASE a # agent
    BY <1>1, <1>2, <1>4 DEF Kept, Covered
  <1> QED  BY <1>3, <1>4

\* The period roll keeps a scope and its expiry.
LEMMA RollKeepsExpiry ==
  ASSUME NEW s \in AgentScope, NEW t \in Nat
  PROVE  /\ RollPeriod(s, t) # None
         /\ RollPeriod(s, t).expiry = s.expiry
  <1>1. RollPeriod(s, t) \in AgentScope
    BY RollPeriodType
  <1>2. RollPeriod(s, t).expiry = s.expiry
    BY DEF RollPeriod, AgentScope
  <1> QED  BY <1>1, <1>2, NoneAssumption

\* Both pulls, for the agents.
LEMMA PullMoves ==
  ASSUME TypeOK, NEW agent \in Agents, NEW amount \in Nat,
         SessionPullAuth(agent),
         agentBal' = [agentBal EXCEPT ![agent] = @ + amount],
         UNCHANGED <<vaultAllow, everPlaced, born>>
  PROVE  AgentsMove
  <1>1. scope[agent] \in AgentScope /\ now \in Nat /\ ~scope[agent].revoked
    BY DEF TypeOK, SessionPullAuth, ScopeLive
  <1>2. PICK r : r = RollPeriod(scope[agent], now)
    OBVIOUS
  <1>3. r # None /\ r.expiry = scope[agent].expiry
    BY <1>1, <1>2, RollKeepsExpiry
  <1>4. scope[agent] # None /\ scope' = [scope EXCEPT ![agent] = r]
    BY <1>2 DEF SessionPullAuth, EnforcePull
  <1>5. \A a \in Agents : a # agent => agentBal'[a] = agentBal[a]
    BY DEF TypeOK
  <1> QED  BY <1>1, <1>3, <1>4, <1>5, LiveMoves

\* A spend, for the agents.
LEMMA SpendMoves ==
  ASSUME TypeOK, NEW agent \in Agents, NEW amount \in Amounts, NEW route,
         NEW minted, Spend(agent, amount, route, minted)
  PROVE  AgentsMove
  <1>1. /\ scope[agent] \in AgentScope /\ now \in Nat
        /\ scope[agent] # None /\ ~scope[agent].revoked
        /\ amount \in Nat
    BY AmountsAssumption DEF TypeOK, Spend, ScopeLive
  <1>2. PICK q : q = RollPeriod(scope[agent], now)
    OBVIOUS
  <1>3. q \in AgentScope /\ q.expiry = scope[agent].expiry
    BY <1>1, <1>2, RollPeriodType, RollKeepsExpiry
  <1>4. PICK r : r = [q EXCEPT !.spent_in_period = q.spent_in_period + amount]
    OBVIOUS
  <1>5. r \in AgentScope /\ r.expiry = q.expiry
    BY <1>1, <1>3, <1>4 DEF AgentScope
  <1>6. scope' = [scope EXCEPT ![agent] = r]
    BY <1>2, <1>4 DEF Spend, EnforceSpend
  <1>7. \A a \in Agents : a # agent => /\ agentBal'[a] = agentBal[a]
                                       /\ everPlaced'[a] = everPlaced[a]
    BY DEF TypeOK, Spend
  <1>8. \A a \in Agents : vaultAllow'[a].until = vaultAllow[a].until
    BY <1>1 DEF TypeOK, Allowance, Spend
  <1>9. UNCHANGED born
    BY DEF Spend
  <1>10. r # None /\ r.expiry = scope[agent].expiry
    BY <1>3, <1>5, NoneAssumption
  <1> QED  BY <1>1, <1>6, <1>7, <1>8, <1>9, <1>10, LiveMoves

\* A step that revokes an agent and at most empties it.
LEMMA KillMoves ==
  ASSUME TypeOK, NEW agent \in Agents, scope[agent] # None,
         scope' = [scope EXCEPT ![agent] = ExitScope(@)],
         \A a \in Agents : agentBal'[a] <= agentBal[a],
         \A a \in Agents : a # agent => vaultAllow'[a] = vaultAllow[a],
         UNCHANGED <<everPlaced, born>>
  PROVE  AgentsMove
  <1>1. scope[agent] \in AgentScope
    BY DEF TypeOK
  <1>2. PICK r : r = ExitScope(scope[agent])
    OBVIOUS
  <1>3. r \in AgentScope /\ r.revoked /\ r.expiry = scope[agent].expiry
    BY <1>1, <1>2 DEF ExitScope, AgentScope
  <1> SUFFICES ASSUME NEW a \in Agents
               PROVE  IF scope[a] = None THEN Covered(a)' ELSE Kept(a)
    BY DEF AgentsMove
  <1>4. scope'[agent] = r /\ (a # agent => scope'[a] = scope[a])
    BY <1>2 DEF TypeOK
  <1>5. CASE a = agent
    BY <1>3, <1>4, <1>5, NoneAssumption DEF Kept
  <1>6. CASE a # agent
    BY <1>4, <1>6 DEF Kept, Covered
  <1> QED  BY <1>5, <1>6

\* A step that leaves the scopes and the agents' allowances alone, and brings
\* tokens only to agents that are not revoked.
LEMMA IdleMoves ==
  ASSUME TypeOK, UNCHANGED <<scope, vaultAllow, everPlaced, born>>,
         \A a \in Agents : (scope[a] # None /\ scope[a].revoked)
                              => agentBal'[a] <= agentBal[a]
  PROVE  AgentsMove
  BY DEF AgentsMove, Kept, Covered

\* The owner's terminal exit, for the agents.
LEMMA WithdrawMoves ==
  ASSUME TypeOK, NEW agent \in Agents, NEW caller, NEW to, NEW payout,
         OwnerWithdraw(agent, caller, to, payout)
  PROVE  AgentsMove
  <1>1. /\ scope[agent] # None
        /\ scope' = [scope EXCEPT ![agent] = ExitScope(@)]
        /\ UNCHANGED <<everPlaced, born>>
    BY DEF OwnerWithdraw
  <1>2. \A a \in Agents : agentBal'[a] <= agentBal[a]
    BY DEF TypeOK, OwnerWithdraw
  <1>3. \A a \in Agents : a # agent => vaultAllow'[a] = vaultAllow[a]
    BY DEF TypeOK, OwnerWithdraw
  <1> QED  BY <1>1, <1>2, <1>3, KillMoves

\* A permission no call touches is kept.
LEMMA PermUnchanged ==
  ASSUME TypeOK, NEW p \in PermIds, perm'[p] = perm[p]
  PROVE  PermKept(p)
  <1> SUFFICES ASSUME perm[p] # None PROVE PermKept(p)
    BY DEF PermKept
  <1>1. perm[p] \in PermissionGrantV3
    BY DEF TypeOK
  <1>2. perm[p].confirmed_spent \in Nat
    BY <1>1 DEF PermissionGrantV3
  <1>3. perm[p] = [perm[p] EXCEPT !.confirmed_spent = perm[p].confirmed_spent,
                                  !.revoked = perm[p].revoked]
    BY <1>1 DEF PermissionGrantV3
  <1> QED  BY <1>2, <1>3 DEF PermKept

\* A live permission may grow in spend or be revoked.
LEMMA PermWritten ==
  ASSUME TypeOK, NEW p \in PermIds, NEW spent \in Nat, NEW flag \in BOOLEAN,
         perm[p] # None, ~perm[p].revoked, spent >= perm[p].confirmed_spent,
         perm'[p] = [perm[p] EXCEPT !.confirmed_spent = spent,
                                    !.revoked = flag]
  PROVE  PermKept(p)
  <1>1. PICK g \in PermissionGrantV3 : g = perm[p]
    BY DEF TypeOK
  <1>2. PICK h : h = [g EXCEPT !.confirmed_spent = spent, !.revoked = flag]
    OBVIOUS
  <1>3. /\ h \in PermissionGrantV3
        /\ h.confirmed_spent = spent /\ h.revoked = flag
    BY <1>2 DEF PermissionGrantV3
  <1>4. perm'[p] = h /\ h # None
    BY <1>1, <1>2, <1>3, NoneAssumption
  <1>5. /\ perm'[p].confirmed_spent = spent /\ perm'[p].revoked = flag
        /\ perm'[p] = [perm[p] EXCEPT !.confirmed_spent = spent,
                                      !.revoked = flag]
    BY <1>3, <1>4
  <1> QED  BY <1>4, <1>5 DEF PermKept

\* A pull under a live permission changes its spend alone.
LEMMA PermPulled ==
  ASSUME TypeOK, NEW id \in PermIds, NEW exec, NEW agent, NEW amount \in Nat,
         PullV3(id, exec, agent, amount), NEW p \in PermIds
  PROVE  PermKept(p)
  <1>1. /\ perm[id] \in PermissionGrantV3 /\ ~perm[id].revoked
        /\ perm[id] # None
        /\ perm' = [perm EXCEPT ![id].confirmed_spent = @ + amount]
    BY DEF TypeOK, PullV3
  <1>2. CASE p = id
    <2>1. PICK g \in PermissionGrantV3 : g = perm[id]
      BY <1>1
    <2>2. perm'[p] = [g EXCEPT !.confirmed_spent = g.confirmed_spent + amount]
      BY <1>1, <1>2, <2>1 DEF TypeOK
    <2>3. PICK spent \in Nat : /\ spent = g.confirmed_spent + amount
                               /\ spent >= g.confirmed_spent
      BY DEF PermissionGrantV3
    <2>4. /\ g.revoked \in BOOLEAN
          /\ [g EXCEPT !.confirmed_spent = spent]
               = [g EXCEPT !.confirmed_spent = spent, !.revoked = g.revoked]
      BY DEF PermissionGrantV3
    <2> QED  BY <1>1, <1>2, <2>1, <2>2, <2>3, <2>4, PermWritten
  <1>3. CASE p # id
    BY <1>1, <1>3, PermUnchanged DEF TypeOK
  <1> QED  BY <1>2, <1>3

\* revoke_v3 changes the flag alone.
LEMMA PermRevoked ==
  ASSUME TypeOK, NEW id \in PermIds, RevokeV3(id), NEW p \in PermIds
  PROVE  PermKept(p)
  <1>1. /\ perm[id] \in PermissionGrantV3 /\ ~perm[id].revoked
        /\ perm[id] # None
        /\ perm' = [perm EXCEPT ![id].revoked = TRUE]
    BY DEF TypeOK, RevokeV3
  <1>2. CASE p = id
    <2>1. PICK g \in PermissionGrantV3 : g = perm[id]
      BY <1>1
    <2>2. perm'[p] = [g EXCEPT !.revoked = TRUE]
      BY <1>1, <1>2, <2>1 DEF TypeOK
    <2>3. g.confirmed_spent \in Nat /\ g.confirmed_spent >= g.confirmed_spent
      BY DEF PermissionGrantV3
    <2>4. [g EXCEPT !.revoked = TRUE]
            = [g EXCEPT !.confirmed_spent = g.confirmed_spent,
                        !.revoked = TRUE]
      BY DEF PermissionGrantV3
    <2> QED  BY <1>1, <1>2, <2>1, <2>2, <2>3, <2>4, PermWritten
  <1>3. CASE p # id
    BY <1>1, <1>3, PermUnchanged DEF TypeOK
  <1> QED  BY <1>2, <1>3

\* grant_v3 writes an id that was never granted: its agents would exist.
LEMMA PermGranted ==
  ASSUME TypeOK, PermissionBacked, NEW owner \in Owners, NEW token,
         NEW ceiling, NEW perRun, NEW until, NEW S \in SUBSET Salts,
         NEW init \in [S -> Inits],
         GrantV3(owner, token, ceiling, perRun, until, init),
         NEW p \in PermIds
  PROVE  PermKept(p)
  <1>1. PICK id : id = <<owner, S>>
    OBVIOUS
  <1>2. /\ S # {} /\ Fresh(owner, S)
        /\ \E g : perm' = [perm EXCEPT ![id] = g]
    BY <1>1 DEF GrantV3, DerivePermissionId
  <1>3. id \in PermIds /\ id[1] = owner /\ id[2] = S
    BY <1>1, <1>2 DEF PermIds
  <1>4. perm[id] = None
    BY <1>2, <1>3 DEF PermissionBacked, Fresh
  <1>5. CASE p = id
    BY <1>4, <1>5 DEF PermKept
  <1>6. CASE p # id
    <2>1. perm'[p] = perm[p]
      BY <1>2, <1>6 DEF TypeOK
    <2> QED  BY <2>1, PermUnchanged
  <1> QED  BY <1>5, <1>6

\* Every step of the system moves agents and permissions as stated above.
LEMMA StepMoves ==
  ASSUME IndInv, [Next]_vars
  PROVE  AgentsMove /\ \A p \in PermIds : PermKept(p)
  <1>0. TypeOK /\ PermissionBacked /\ UndeployedEmpty
    BY DEF IndInv
  <1>1. CASE \E owner \in Owners, expiry \in Expiries,
                T \in SUBSET Tokens, S \in SUBSET Salts :
               \E budget \in [T -> Budgets], init \in [S -> Inits] :
                 Grant(owner, budget, expiry, init)
    <2>1. PICK owner \in Owners, expiry \in Expiries,
               T \in SUBSET Tokens, S \in SUBSET Salts :
            \E budget \in [T -> Budgets], init \in [S -> Inits] :
              Grant(owner, budget, expiry, init)
      BY <1>1
    <2>2. PICK budget \in [T -> Budgets], init \in [S -> Inits] :
            Grant(owner, budget, expiry, init)
      BY <2>1
    <2>3. /\ Fresh(owner, S) /\ DeployAgents(owner, S, init, Unlimited)
          /\ UNCHANGED <<seq, now, ahead, agentBal, everPlaced, perm>>
      BY <2>2 DEF Grant, clock, moneyHistory
    <2>4. Unlimited \in Nat
      BY UnlimitedAssumption
    <2> QED  BY <1>0, <2>3, <2>4, DeployCovers, PermUnchanged
  <1>2. CASE \E a \in Agents, n \in Amounts : Pull(a, n)
    <2>1. PICK a \in Agents, n \in Amounts : Pull(a, n)
      BY <1>2
    <2>2. /\ n \in Nat /\ SessionPullAuth(a)
          /\ agentBal' = [agentBal EXCEPT ![a] = @ + n]
          /\ UNCHANGED <<vaultAllow, everPlaced, perm, born>>
      BY <2>1, AmountsAssumption
      DEF Pull, TransferFrom, routerVars, moneyHistory
    <2> QED  BY <1>0, <2>2, PullMoves, PermUnchanged
  <1>3. CASE \E owner \in Owners, token \in Tokens, ceiling \in Budgets,
                perRun \in Budgets, until \in Expiries, S \in SUBSET Salts :
               \E init \in [S -> Inits] :
                 GrantV3(owner, token, ceiling, perRun, until, init)
    <2>1. PICK owner \in Owners, token \in Tokens, ceiling \in Budgets,
               perRun \in Budgets, until \in Expiries, S \in SUBSET Salts :
            \E init \in [S -> Inits] :
              GrantV3(owner, token, ceiling, perRun, until, init)
      BY <1>3
    <2>2. PICK init \in [S -> Inits] :
            GrantV3(owner, token, ceiling, perRun, until, init)
      BY <2>1
    <2>3. /\ S # {} /\ Fresh(owner, S)
          /\ DeployAgents(owner, S, init, ceiling \div Cardinality(S))
          /\ UNCHANGED <<seq, now, ahead, agentBal, everPlaced>>
      BY <2>2 DEF GrantV3, clock, moneyHistory
    <2>4. ceiling \div Cardinality(S) \in Nat
      BY <2>3, SplitType, AmountsAssumption
    <2>5. AgentsMove
      BY <1>0, <2>3, <2>4, DeployCovers
    <2> QED  BY <1>0, <2>2, <2>5, PermGranted
  <1>4. CASE \E p \in PermIds, e \in Execs, a \in Agents, n \in Amounts :
               PullV3(p, e, a, n)
    <2>1. PICK p \in PermIds, e \in Execs, a \in Agents, n \in Amounts :
            PullV3(p, e, a, n)
      BY <1>4
    <2>2. /\ n \in Nat /\ SessionPullAuth(a)
          /\ agentBal' = [agentBal EXCEPT ![a] = @ + n]
          /\ UNCHANGED <<vaultAllow, everPlaced, born>>
      BY <2>1, AmountsAssumption DEF PullV3, TransferFrom, moneyHistory
    <2> QED  BY <1>0, <2>1, <2>2, PullMoves, PermPulled
  <1>5. CASE \E p \in PermIds : RevokeV3(p)
    <2>1. PICK p \in PermIds : RevokeV3(p)
      BY <1>5
    <2>2. UNCHANGED <<scope, vaultAllow, everPlaced, agentBal, born>>
      BY <2>1 DEF RevokeV3, chainVars, agentVars, moneyHistory
    <2>3. \A a \in Agents : agentBal'[a] <= agentBal[a]
      BY <1>0, <2>2 DEF TypeOK
    <2> QED  BY <1>0, <2>1, <2>2, <2>3, IdleMoves, PermRevoked
  <1>6. CASE \E a \in Agents, n \in Amounts, r \in Routes \cup {NoRoute},
                minted \in Quotes \cup {0} : Spend(a, n, r, minted)
    <2>1. PICK a \in Agents, n \in Amounts, r \in Routes \cup {NoRoute},
               minted \in Quotes \cup {0} : Spend(a, n, r, minted)
      BY <1>6
    <2>2. UNCHANGED perm
      BY <2>1 DEF Spend, routerVars
    <2> QED  BY <1>0, <2>1, <2>2, SpendMoves, PermUnchanged
  <1>7. CASE \E a \in Agents : Revoke(a)
    <2>1. PICK a \in Agents : Revoke(a)
      BY <1>7
    <2>2. /\ scope[a] # None
          /\ scope' = [scope EXCEPT ![a] = ExitScope(@)]
          /\ UNCHANGED <<everPlaced, perm, born>>
      BY <2>1 DEF Revoke, ExitScope, routerVars, moneyHistory
    <2>3. \A b \in Agents : agentBal'[b] <= agentBal[b]
      BY <1>0, <2>1 DEF TypeOK, Revoke
    <2>4. \A b \in Agents : b # a => vaultAllow'[b] = vaultAllow[b]
      BY <1>0, <2>1 DEF TypeOK, Revoke
    <2> QED  BY <1>0, <2>2, <2>3, <2>4, KillMoves, PermUnchanged
  <1>8. CASE \E a \in Agents, n \in Quotes, payout \in Quotes :
               ExitRedeem(a, n, payout)
    <2>1. PICK a \in Agents, n \in Quotes, payout \in Quotes :
            ExitRedeem(a, n, payout)
      BY <1>8
    <2>2. /\ ~scope[a].revoked
          /\ UNCHANGED <<scope, vaultAllow, everPlaced, perm, born>>
      BY <2>1 DEF ExitRedeem, ScopeLive, agentVars, routerVars
    <2>3. \A b \in Agents : (scope[b] # None /\ scope[b].revoked)
                               => agentBal'[b] <= agentBal[b]
      BY <1>0, <2>1, <2>2 DEF TypeOK, ExitRedeem
    <2> QED  BY <1>0, <2>2, <2>3, IdleMoves, PermUnchanged
  <1>9. CASE \E a \in Agents, to \in Owners, n \in Amounts :
               ExitTransfer(a, to, n)
    <2>1. PICK a \in Agents, to \in Owners, n \in Amounts :
            ExitTransfer(a, to, n)
      BY <1>9
    <2>2. /\ ~scope[a].revoked
          /\ UNCHANGED <<scope, vaultAllow, everPlaced, perm, born>>
      BY <2>1 DEF ExitTransfer, ScopeLive, agentVars, routerVars, moneyHistory
    <2>3. \A b \in Agents : (scope[b] # None /\ scope[b].revoked)
                               => agentBal'[b] <= agentBal[b]
      BY <1>0, <2>1, <2>2 DEF TypeOK, ExitTransfer
    <2> QED  BY <1>0, <2>2, <2>3, IdleMoves, PermUnchanged
  <1>10. CASE \/ \E a \in Agents, caller \in Owners, to \in Owners,
                    payout \in Quotes \cup {0} :
                   DirectWithdraw(a, caller, to, payout)
              \/ \E a \in Agents, payout \in Quotes \cup {0} :
                   SweepAgent(a, payout)
    <2>1. PICK a \in Agents :
            \E caller, to, payout : OwnerWithdraw(a, caller, to, payout)
      BY <1>10 DEF DirectWithdraw, SweepAgent
    <2>2. PICK caller, to, payout : OwnerWithdraw(a, caller, to, payout)
      BY <2>1
    <2>3. UNCHANGED perm
      BY <2>2 DEF OwnerWithdraw, routerVars
    <2> QED  BY <1>0, <2>2, <2>3, WithdrawMoves, PermUnchanged
  <1>11. CASE \/ \E a \in Agents : SetExitSigner(a)
              \/ \E owner \in Owners, to \in Owners, S \in SUBSET Agents :
                   SweepStart(owner, to, S)
              \/ \E a \in Agents : SweepSkip(a)
              \/ SweepEnd
              \/ \E secs \in CloseTimes : CloseLedger(secs)
              \/ UNCHANGED vars
    <2>1. UNCHANGED <<scope, vaultAllow, everPlaced, agentBal, perm, born>>
      BY <1>11 DEF SetExitSigner, SweepStart, SweepSkip, SweepEnd, CloseLedger,
                   vars, chainVars, agentVars, routerVars, moneyHistory
    <2>2. \A a \in Agents : agentBal'[a] <= agentBal[a]
      BY <1>0, <2>1 DEF TypeOK
    <2> QED  BY <1>0, <2>1, <2>2, IdleMoves, PermUnchanged
  <1> QED
    BY <1>1, <1>2, <1>3, <1>4, <1>5, <1>6, <1>7, <1>8, <1>9, <1>10, <1>11
    DEF Next

\* A permission's terms are those of its grant_v3 for ever: no later grant of
\* the owner resets its spend, revives it or changes its limits.
THEOREM TermsAreFixed == Spec => PermissionMonotone
  <1>1. IndInv /\ [Next]_vars =>
          [\A p \in PermIds :
             perm[p] # None =>
               /\ perm'[p] # None
               /\ perm'[p].confirmed_spent >= perm[p].confirmed_spent
               /\ perm[p].revoked =>
                    /\ perm'[p].revoked
                    /\ perm'[p].confirmed_spent = perm[p].confirmed_spent
               /\ perm'[p] = [perm[p] EXCEPT
                                !.confirmed_spent = perm'[p].confirmed_spent,
                                !.revoked = perm'[p].revoked]]_vars
    <2>1. IndInv /\ [Next]_vars => \A p \in PermIds : PermKept(p)
      BY StepMoves
    <2> QED  BY <2>1 DEF PermKept
  <1> QED  BY <1>1, Invariance, PTL DEF Spec, PermissionMonotone

\* Once an owner revoked an agent, nothing flows into it, nothing is placed
\* through it, and it never comes back.
THEOREM RevocationIsFinal == Spec => RevokedAgentInert
  <1>1. IndInv /\ [Next]_vars =>
          [\A a \in Agents :
             (scope[a] # None /\ scope[a].revoked)
               => /\ agentBal'[a] <= agentBal[a]
                  /\ everPlaced'[a] = everPlaced[a]
                  /\ scope'[a] # None /\ scope'[a].revoked]_vars
    <2>1. IndInv /\ [Next]_vars => AgentsMove
      BY StepMoves
    <2> QED  BY <2>1 DEF AgentsMove, Kept
  <1> QED  BY <1>1, Invariance, PTL DEF Spec, RevokedAgentInert

\* Only the close of a ledger moves the clocks, and it keeps the pace.
LEMMA ClockMoves ==
  ASSUME TypeOK, ahead <= MaxAhead, [Next]_vars
  PROVE  PaceKept
  <1>1. /\ seq \in Nat /\ now \in Nat /\ ahead \in Nat /\ MaxAhead \in Nat
        /\ LedgerSecs \in Nat
    BY PaceAssumption, TtlAssumption DEF TypeOK
  <1>2. ASSUME UNCHANGED clock  PROVE PaceKept
    <2>1. LedgerSecs * seq \in Nat
      BY <1>1
    <2> QED  BY <1>1, <1>2, <2>1 DEF clock, PaceKept
  <1>3. ASSUME NEW secs \in CloseTimes, CloseLedger(secs)  PROVE PaceKept
    <2>1. /\ seq' = seq + 1 /\ now' = now + secs /\ ahead' = AheadAfter(secs)
          /\ AheadAfter(secs) <= MaxAhead /\ secs \in Nat
      BY <1>3, PaceAssumption DEF CloseLedger
    <2>2. AheadAfter(secs) \in Nat /\ AheadAfter(secs) + secs >= ahead + LedgerSecs
      BY <1>1, <2>1 DEF AheadAfter
    <2>3. LedgerSecs * seq' = LedgerSecs * seq + LedgerSecs
      BY <1>1, <2>1
    <2>4. LedgerSecs * seq \in Nat
      BY <1>1
    <2> QED  BY <1>1, <2>1, <2>2, <2>3, <2>4 DEF PaceKept
  <1>4. (\A secs \in CloseTimes : ~CloseLedger(secs)) => UNCHANGED clock
    <2>1. ASSUME NEW owner, NEW expiry, NEW budget, NEW init,
                 Grant(owner, budget, expiry, init)
          PROVE  UNCHANGED clock
      BY <2>1 DEF Grant
    <2>2. ASSUME NEW owner, NEW token, NEW ceiling, NEW perRun, NEW until,
                 NEW init, GrantV3(owner, token, ceiling, perRun, until, init)
          PROVE  UNCHANGED clock
      BY <2>2 DEF GrantV3
    <2>3. ASSUME NEW p, NEW e, NEW a, NEW n, NEW r, NEW to, NEW m,
                 \/ Pull(a, n) \/ PullV3(p, e, a, n) \/ RevokeV3(p)
                 \/ Spend(a, n, r, m) \/ Revoke(a) \/ SetExitSigner(a)
                 \/ ExitRedeem(a, n, m) \/ ExitTransfer(a, to, n)
          PROVE  UNCHANGED clock
      BY <2>3 DEF Pull, PullV3, RevokeV3, Spend, Revoke, SetExitSigner,
                  ExitRedeem, ExitTransfer
    <2>4. ASSUME NEW a, NEW caller, NEW to, NEW m, NEW S,
                 \/ DirectWithdraw(a, caller, to, m) \/ SweepAgent(a, m)
                 \/ SweepStart(caller, to, S) \/ SweepSkip(a) \/ SweepEnd
          PROVE  UNCHANGED clock
      BY <2>4 DEF DirectWithdraw, SweepAgent, OwnerWithdraw, SweepStart,
                  SweepSkip, SweepEnd
    <2>5. UNCHANGED vars => UNCHANGED clock
      BY DEF vars
    <2> QED  BY <2>1, <2>2, <2>3, <2>4, <2>5 DEF Next
  <1> QED  BY <1>2, <1>3, <1>4

\* What the pace keeps, in numbers.
LEMMA PaceCarries ==
  ASSUME NEW h \in Nat, NEW n \in Nat, NEW g \in Nat, NEW m \in Nat,
         NEW u \in Nat, NEW s \in Nat, NEW t \in Nat, NEW x \in Nat,
         NEW b \in Nat, NEW l \in Nat,
         u + h + n >= s + x + b - l + 1, g + m + s >= h + n + t
  PROVE  u + g + m >= t + x + b - l + 1
  OBVIOUS

\* A scope that may still spend never meets an allowance that has ended,
\* unless the network's maximum TTL has passed since the agent was deployed:
\* the conversion from seconds to ledgers, its rounding and its buffer keep
\* the allowance ahead of the scope for every pace within the buffer.
THEOREM AllowanceServesScope == Spec => []AllowanceOutlastsScope
  <1> DEFINE AllCovered == ahead <= MaxAhead /\ \A a \in Agents : Covered(a)
  <1>1. Init => AllCovered
    BY PaceAssumption DEF Init, Covered
  <1>2. IndInv /\ AllCovered /\ [Next]_vars => AllCovered'
    <2> SUFFICES ASSUME IndInv, AllCovered, [Next]_vars
                 PROVE  AllCovered'
      OBVIOUS
    <2>0. TypeOK /\ TypeOK' /\ PaceKept
      BY NextInv, ClockMoves DEF IndInv
    <2>1. ASSUME NEW a \in Agents  PROVE Covered(a)'
      <3>1. IF scope[a] = None THEN Covered(a)' ELSE Kept(a)
        BY StepMoves DEF AgentsMove
      <3>2. CASE scope[a] # None /\ Kept(a)
        <4> SUFFICES ASSUME scope'[a] # None, ~scope'[a].revoked
                     PROVE  Covered(a)'
          BY DEF Covered
        <4>1. /\ vaultAllow'[a].until = vaultAllow[a].until
              /\ scope'[a].expiry = scope[a].expiry /\ born'[a] = born[a]
              /\ ~scope[a].revoked
          BY <3>2 DEF Kept
        <4>2. PICK u \in Nat, x \in Nat, b \in Nat :
                u = vaultAllow[a].until /\ x = scope[a].expiry /\ b = born[a]
          BY <2>0, <3>2 DEF TypeOK, Allowance, AgentScope
        <4>3. \/ u >= b + MaxTtl
              \/ LedgerSecs * u + ahead + now
                   >= LedgerSecs * seq + x + TtlBuffer * LedgerSecs
                        - LedgerSecs + 1
          BY <3>2, <4>1, <4>2 DEF Covered
        <4>4. /\ seq \in Nat /\ now \in Nat /\ ahead \in Nat
              /\ seq' \in Nat /\ now' \in Nat /\ ahead' \in Nat
          BY <2>0 DEF TypeOK
        <4>5. PICK lu \in Nat, ls \in Nat, lt \in Nat, lb \in Nat :
                /\ lu = LedgerSecs * u /\ ls = LedgerSecs * seq
                /\ lt = LedgerSecs * seq' /\ lb = TtlBuffer * LedgerSecs
          BY <4>2, <4>4, TtlAssumption
        <4>6. ahead' + now' + ls >= ahead + now + lt
          BY <2>0, <4>5 DEF PaceKept
        <4>7. \/ u >= b + MaxTtl
              \/ lu + ahead' + now' >= lt + x + lb - LedgerSecs + 1
          <5>1. CASE LedgerSecs * u + ahead + now
                       >= LedgerSecs * seq + x + TtlBuffer * LedgerSecs
                            - LedgerSecs + 1
            <6>1. lu + ahead + now >= ls + x + lb - LedgerSecs + 1
              BY <4>5, <5>1
            <6>2. LedgerSecs \in Nat
              BY TtlAssumption
            <6>3. lu + ahead' + now' >= lt + x + lb - LedgerSecs + 1
              <7>1. PICK g \in Nat, m \in Nat : g = ahead' /\ m = now'
                BY <4>4
              <7>2. g + m + ls >= ahead + now + lt
                BY <4>6, <7>1
              <7>3. lu + g + m >= lt + x + lb - LedgerSecs + 1
                BY <4>4, <6>1, <6>2, <7>2, PaceCarries
              <7> QED  BY <7>1, <7>3
            <6> QED  BY <6>3
          <5> QED  BY <4>3, <5>1
        <4> QED  BY <4>1, <4>2, <4>5, <4>7 DEF Covered
      <3> QED  BY <3>1, <3>2
    <2> QED  BY <2>0, <2>1 DEF PaceKept
  <1>3. IndInv /\ AllCovered => AllowanceOutlastsScope
    <2> SUFFICES ASSUME IndInv, AllCovered, NEW a \in Agents, scope[a] # None,
                        ScopeLive(scope[a], now)
                 PROVE  seq <= vaultAllow[a].until \/ seq > born[a] + MaxTtl
      BY DEF AllowanceOutlastsScope
    <2>1. PICK u \in Nat, x \in Nat, b \in Nat :
            u = vaultAllow[a].until /\ x = scope[a].expiry /\ b = born[a]
      BY DEF IndInv, TypeOK, AgentScope, Allowance
    <2>2. /\ seq \in Nat /\ now \in Nat /\ ahead \in Nat /\ now < x
          /\ ahead <= MaxAhead
      BY <2>1 DEF IndInv, TypeOK, ScopeLive
    <2>3. \/ u >= b + MaxTtl
          \/ LedgerSecs * u + ahead + now
               >= LedgerSecs * seq + x + TtlBuffer * LedgerSecs - LedgerSecs + 1
      BY <2>1 DEF Covered, ScopeLive
    <2>4. CASE u >= b + MaxTtl
      BY <2>1, <2>2, <2>4, TtlAssumption
    <2>5. CASE LedgerSecs * u + ahead + now
                 >= LedgerSecs * seq + x + TtlBuffer * LedgerSecs
                      - LedgerSecs + 1
      <3>1. PICK lu \in Nat, ls \in Nat, lb \in Nat :
              /\ lu = LedgerSecs * u /\ ls = LedgerSecs * seq
              /\ lb = TtlBuffer * LedgerSecs
        BY <2>1, <2>2, TtlAssumption
      <3>2. lu + LedgerSecs > ls
        BY <2>1, <2>2, <2>5, <3>1, PaceAssumption, TtlAssumption
      <3>3. lu + LedgerSecs = LedgerSecs * (u + 1)
        BY <2>1, <3>1, TtlAssumption
      <3>4. ~(u + 1 <= seq)
        <4> SUFFICES ASSUME u + 1 <= seq PROVE FALSE
          OBVIOUS
        <4>1. LedgerSecs * (u + 1) <= LedgerSecs * seq
          BY <2>1, <2>2, TtlAssumption
        <4> QED  BY <2>1, <3>1, <3>2, <3>3, <4>1, TtlAssumption
      <3> QED  BY <2>1, <2>2, <3>4
    <2> QED  BY <2>3, <2>4, <2>5
  <1> QED  BY <1>1, <1>2, <1>3, Invariance, PTL DEF Spec
-----------------------------------------------------------------------------
(* The replay guard: what a permission moved is paid for by execution ids. *)

\* Execution ids a permission has accepted.
Runs(p) == {e \in Execs : <<p, e>> \in used}

\* RunsBoundSpend, with the finiteness its cardinality needs.
RunInv ==
  \A p \in PermIds :
    /\ IsFiniteSet(Runs(p))
    /\ perm[p] # None =>
         pulledUnder[p] <= perm[p].per_run_max * Cardinality(Runs(p))

\* Only pull_v3 writes the replay guard and what a permission moved.
LEMMA OthersKeepRuns ==
  ASSUME Next, ~(\E p \in PermIds, e \in Execs, a \in Agents, n \in Amounts :
                   PullV3(p, e, a, n))
  PROVE  UNCHANGED <<used, pulledUnder>>
  <1> USE DEF routerVars, budgetHistory
  <1>1. ASSUME NEW owner, NEW expiry, NEW budget, NEW init,
               Grant(owner, budget, expiry, init)
        PROVE  UNCHANGED <<used, pulledUnder>>
    BY <1>1 DEF Grant
  <1>2. ASSUME NEW owner, NEW token, NEW ceiling, NEW perRun, NEW until,
               NEW init, GrantV3(owner, token, ceiling, perRun, until, init)
        PROVE  UNCHANGED <<used, pulledUnder>>
    BY <1>2 DEF GrantV3
  <1>3. ASSUME NEW a, NEW n, NEW r, NEW to, NEW m,
               \/ Pull(a, n) \/ Spend(a, n, r, m) \/ Revoke(a)
               \/ SetExitSigner(a) \/ ExitRedeem(a, n, m)
               \/ ExitTransfer(a, to, n) \/ SweepSkip(a)
        PROVE  UNCHANGED <<used, pulledUnder>>
    BY <1>3 DEF Pull, Spend, Revoke, SetExitSigner, ExitRedeem, ExitTransfer,
                SweepSkip
  <1>4. ASSUME NEW a, NEW caller, NEW to, NEW m,
               DirectWithdraw(a, caller, to, m) \/ SweepAgent(a, m)
        PROVE  UNCHANGED <<used, pulledUnder>>
    BY <1>4 DEF DirectWithdraw, SweepAgent, OwnerWithdraw
  <1>5. ASSUME NEW p, NEW owner, NEW to, NEW S, NEW secs,
               RevokeV3(p) \/ SweepStart(owner, to, S) \/ SweepEnd
                 \/ CloseLedger(secs)
        PROVE  UNCHANGED <<used, pulledUnder>>
    BY <1>5 DEF RevokeV3, SweepStart, SweepEnd, CloseLedger
  <1> QED
    BY <1>1, <1>2, <1>3, <1>4, <1>5, Zenon DEF Next

\* A permission's per_run_max is that of its grant.
LEMMA RunMaxKept ==
  ASSUME TypeOK, NEW p \in PermIds, PermKept(p), perm[p] # None
  PROVE  perm'[p].per_run_max = perm[p].per_run_max
  <1>1. perm[p] \in PermissionGrantV3
    BY DEF TypeOK
  <1>2. PICK x, y : perm'[p] = [perm[p] EXCEPT !.confirmed_spent = x,
                                               !.revoked = y]
    BY DEF PermKept
  <1>3. [perm[p] EXCEPT !.confirmed_spent = x, !.revoked = y].per_run_max
          = perm[p].per_run_max
    BY <1>1 DEF PermissionGrantV3
  <1> QED  BY <1>2, <1>3

\* A step that leaves the runs alone: a permission that is new has moved
\* nothing, any other keeps its per_run_max.
LEMMA RunsUntouched ==
  ASSUME IndInv, IndInv', RunInv, UNCHANGED <<used, pulledUnder>>,
         \A p \in PermIds : PermKept(p)
  PROVE  RunInv'
  <1> SUFFICES ASSUME NEW p \in PermIds
               PROVE  /\ IsFiniteSet(Runs(p)')
                      /\ perm'[p] # None =>
                           pulledUnder'[p] <= perm'[p].per_run_max
                                                * Cardinality(Runs(p)')
    BY DEF RunInv
  <1>1. Runs(p)' = Runs(p) /\ IsFiniteSet(Runs(p)) /\ TypeOK
    BY DEF Runs, RunInv, IndInv
  <1>2. Cardinality(Runs(p)) \in Nat
    BY <1>1, FS_CardinalityType
  <1>3. ASSUME perm'[p] # None, perm[p] = None
        PROVE  pulledUnder'[p] <= perm'[p].per_run_max * Cardinality(Runs(p))
    <2>1. pulledUnder'[p] = 0
      BY <1>3 DEF IndInv, CeilingBound
    <2>2. perm'[p].per_run_max \in Nat
      BY <1>3 DEF IndInv, TypeOK, PermissionGrantV3
    <2>3. \A x, y \in Nat : 0 <= x * y
      OBVIOUS
    <2> QED  BY <1>2, <2>1, <2>2, <2>3
  <1>4. ASSUME perm[p] # None
        PROVE  pulledUnder'[p] <= perm'[p].per_run_max * Cardinality(Runs(p))
    <2>1. perm'[p].per_run_max = perm[p].per_run_max
      BY <1>1, <1>4, RunMaxKept
    <2>2. pulledUnder[p] <= perm[p].per_run_max * Cardinality(Runs(p))
      BY <1>4 DEF RunInv
    <2> QED  BY <2>1, <2>2
  <1> QED  BY <1>1, <1>3, <1>4

\* A pull_v3 adds at most per_run_max and one execution id.
LEMMA PulledRun ==
  ASSUME TypeOK, RunInv, NEW id \in PermIds, NEW exec \in Execs,
         NEW agent \in Agents, NEW amount \in Amounts,
         PullV3(id, exec, agent, amount), \A p \in PermIds : PermKept(p)
  PROVE  RunInv'
  <1>1. /\ perm[id] # None /\ <<id, exec>> \notin used
        /\ amount <= perm[id].per_run_max
        /\ used' = used \cup {<<id, exec>>}
        /\ pulledUnder' = [pulledUnder EXCEPT ![id] = @ + amount]
        /\ perm' = [perm EXCEPT ![id].confirmed_spent = @ + amount]
    BY DEF PullV3, ExecutionUnused, WithinLimits
  <1> SUFFICES ASSUME NEW p \in PermIds
               PROVE  /\ IsFiniteSet(Runs(p)')
                      /\ perm'[p] # None =>
                           pulledUnder'[p] <= perm'[p].per_run_max
                                                * Cardinality(Runs(p)')
    BY DEF RunInv
  <1>2. IsFiniteSet(Runs(p)) /\ Cardinality(Runs(p)) \in Nat
    BY FS_CardinalityType DEF RunInv
  <1>3. CASE p = id
    <2>1. Runs(p)' = Runs(p) \cup {exec} /\ exec \notin Runs(p)
      BY <1>1, <1>3 DEF Runs
    <2>2. /\ IsFiniteSet(Runs(p)')
          /\ Cardinality(Runs(p)') = Cardinality(Runs(p)) + 1
      BY <1>2, <2>1, FS_AddElement
    <2>3. PICK m \in Nat : m = perm[p].per_run_max
      BY <1>1, <1>3 DEF TypeOK, PermissionGrantV3
    <2>4. perm'[p].per_run_max = m
      BY <1>1, <1>3, <2>3, RunMaxKept
    <2>5. PICK c \in Nat : c = Cardinality(Runs(p))
      BY <1>2
    <2>6. /\ pulledUnder[p] <= m * c /\ pulledUnder[p] \in Nat
          /\ amount <= m /\ amount \in Nat
          /\ pulledUnder'[p] = pulledUnder[p] + amount
      BY <1>1, <1>3, <2>3, <2>5, AmountsAssumption DEF RunInv, TypeOK
    <2>7. m * (c + 1) = m * c + m /\ m * c \in Nat
      OBVIOUS
    <2>8. pulledUnder'[p] <= m * (c + 1)
      BY <2>6, <2>7
    <2> QED  BY <2>2, <2>4, <2>5, <2>8
  <1>4. CASE p # id
    <2>1. Runs(p)' = Runs(p)
      BY <1>1, <1>4 DEF Runs
    <2>2. perm'[p] = perm[p] /\ pulledUnder'[p] = pulledUnder[p]
      BY <1>1, <1>4 DEF TypeOK
    <2> QED  BY <1>2, <2>1, <2>2 DEF RunInv
  <1> QED  BY <1>3, <1>4

\* A permission moves at most per_run_max for each execution id it accepted,
\* so a replayed id moves nothing, whichever agent presents it.
THEOREM ReplaysMoveNothing == Spec => []RunsBoundSpend
  <1>1. Init => RunInv
    <2> SUFFICES ASSUME Init, NEW p \in PermIds
                 PROVE  IsFiniteSet(Runs(p)) /\ perm[p] = None
      BY DEF RunInv
    <2>1. Runs(p) = {} /\ perm[p] = None
      BY DEF Init, Runs
    <2> QED  BY <2>1, FS_EmptySet
  <1>2. IndInv /\ RunInv /\ [Next]_vars => RunInv'
    <2> SUFFICES ASSUME IndInv, RunInv, [Next]_vars PROVE RunInv'
      OBVIOUS
    <2>1. TypeOK /\ IndInv' /\ \A p \in PermIds : PermKept(p)
      BY NextInv, StepMoves DEF IndInv
    <2>2. CASE \E p \in PermIds, e \in Execs, a \in Agents, n \in Amounts :
                 PullV3(p, e, a, n)
      BY <2>1, <2>2, PulledRun
    <2>3. CASE UNCHANGED <<used, pulledUnder>>
      BY <2>1, <2>3, RunsUntouched
    <2>4. UNCHANGED vars => UNCHANGED <<used, pulledUnder>>
      BY DEF vars, routerVars, budgetHistory
    <2> QED  BY <2>2, <2>3, <2>4, OthersKeepRuns
  <1>3. RunInv => RunsBoundSpend
    BY DEF RunInv, Runs, RunsBoundSpend
  <1> QED  BY <1>1, <1>2, <1>3, Invariance, PTL DEF Spec
-----------------------------------------------------------------------------
(* Conservation: an owner's tokens stay with the owner and its agents. *)

\* An agent's scope names the owner its address was derived from, and a
\* permission's token is the one its scope fingerprint names.  Both pulls
\* move tokens by the record, and conservation counts them by the address.
Identified ==
  /\ \A a \in Agents : scope[a] # None => scope[a].owner = a[1]
  /\ \A p \in PermIds : perm[p] # None => perm[p].token = perm[p].scope_id[2]

HomeInv == Identified /\ OwnerConservation

\* What a step may do to the scopes.
ScopesStay ==
  \A a \in Agents :
    IF scope[a] = None
    THEN scope'[a] # None => scope'[a].owner = a[1]
    ELSE /\ scope'[a] # None /\ scope'[a].owner = scope[a].owner
         /\ scope'[a].token = scope[a].token

\* What a step may do to the permissions.
TokensStay ==
  \A p \in PermIds :
    perm'[p] # None =>
      \/ /\ perm[p] # None /\ perm'[p].token = perm[p].token
         /\ perm'[p].scope_id = perm[p].scope_id
      \/ perm'[p].token = perm'[p].scope_id[2]

LEMMA IdentifiedKept ==
  ASSUME Identified, ScopesStay, TokensStay
  PROVE  Identified'
BY DEF Identified, ScopesStay, TokensStay

\* The agents OwnerConservation counts for an owner and a token.
Mine(x) == {a \in Agents : /\ scope[a] # None
                           /\ a[1] = x[1]
                           /\ scope[a].token = x[2]}

\* What an agent placed and did not get back.
Outlay == [a \in Agents |-> everPlaced[a] - returned[a]]

Holding == [a \in Agents |-> agentBal[a] + everPlaced[a] - returned[a]]

LEMMA ConservationSum ==
  /\ OwnerConservation <=>
       \A x \in OwnerTokens :
         ownerBal[x] + SumOf(Holding, Mine(x)) = InitialBalance
  /\ OwnerConservation' <=>
       \A x \in OwnerTokens :
         ownerBal'[x] + SumOf(Holding', Mine(x)') = InitialBalance
BY DEF OwnerConservation, Holding, Mine

\* An owner has as many agents as there are salts at most.
LEMMA OwnAgentsFinite ==
  ASSUME NEW o \in Owners
  PROVE  IsFiniteSet({a \in Agents : a[1] = o})
<1>1. IsFiniteSet({o} \X Salts)
  BY SaltsAssumption, FS_Singleton, FS_Product
<1>2. {a \in Agents : a[1] = o} \subseteq {o} \X Salts
  BY DEF Agents
<1> QED BY <1>1, <1>2, FS_Subset

LEMMA MineFinite ==
  ASSUME NEW x \in OwnerTokens
  PROVE  /\ Mine(x) \in SUBSET Agents /\ IsFiniteSet(Mine(x))
         /\ Mine(x)' \in SUBSET Agents /\ IsFiniteSet(Mine(x)')
<1>1. x[1] \in Owners
  BY DEF OwnerTokens
<1>2. IsFiniteSet({a \in Agents : a[1] = x[1]})
  BY <1>1, OwnAgentsFinite
<1>3. /\ Mine(x) \subseteq {a \in Agents : a[1] = x[1]}
      /\ Mine(x)' \subseteq {a \in Agents : a[1] = x[1]}
  BY DEF Mine
<1>4. IsFiniteSet(Mine(x)) /\ IsFiniteSet(Mine(x)')
  BY <1>2, <1>3, FS_Subset
<1> QED BY <1>3, <1>4

LEMMA OutlayInt ==
  ASSUME TypeOK, TypeOK'
  PROVE  /\ \A a \in Agents : /\ Outlay[a] = everPlaced[a] - returned[a]
                              /\ everPlaced[a] \in Nat /\ returned[a] \in Nat
                              /\ Outlay[a] \in Int
         /\ \A a \in Agents : /\ Outlay'[a] = everPlaced'[a] - returned'[a]
                              /\ everPlaced'[a] \in Nat /\ returned'[a] \in Nat
                              /\ Outlay'[a] \in Int
BY DEF TypeOK, Outlay

LEMMA HoldingInt ==
  ASSUME TypeOK, TypeOK'
  PROVE  /\ \A a \in Agents : /\ Holding[a] \in Int
                              /\ Holding[a] = agentBal[a] + Outlay[a]
         /\ \A a \in Agents : /\ Holding'[a] \in Int
                              /\ Holding'[a] = agentBal'[a] + Outlay'[a]
<1>1. \A a \in Agents : agentBal[a] \in Nat /\ agentBal'[a] \in Nat
  BY DEF TypeOK
<1> QED BY <1>1, OutlayInt DEF Holding

\* A step that moves no tokens but may deploy agents, which start empty.
LEMMA NothingMoved ==
  ASSUME TypeOK, TypeOK', OwnerConservation, UndeployedEmpty, ScopesStay,
         UNCHANGED <<ownerBal, agentBal, everPlaced, returned>>
  PROVE  OwnerConservation'
<1>1. SUFFICES ASSUME NEW x \in OwnerTokens
               PROVE  ownerBal'[x] + SumOf(Holding', Mine(x)') = InitialBalance
  BY ConservationSum
<1>2. ownerBal[x] + SumOf(Holding, Mine(x)) = InitialBalance
  BY ConservationSum
<1>3. PICK M \in SUBSET Agents, N \in SUBSET Agents : M = Mine(x) /\ N = Mine(x)'
  BY MineFinite
<1>4. IsFiniteSet(N) /\ M \subseteq N
  <2>1. Mine(x) \subseteq Mine(x)'
    BY DEF Mine, ScopesStay
  <2> QED BY <1>3, <2>1, MineFinite
<1>5. \A a \in N \ M : Holding[a] = 0
  <2>1. ASSUME NEW a \in N, a \notin M PROVE scope[a] = None
    BY <1>3, <2>1 DEF Mine, ScopesStay
  <2>2. \A a \in Agents : scope[a] = None => agentBal[a] = 0 /\ Outlay[a] = 0
    BY OutlayInt DEF UndeployedEmpty
  <2> QED BY <2>1, <2>2, HoldingInt
<1>6. \A a \in M : Holding[a] \in Int
  BY HoldingInt
<1>7. SumOf(Holding, N) = SumOf(Holding, M)
  BY <1>4, <1>5, <1>6, SumSupport
<1>8. Holding' = Holding /\ ownerBal' = ownerBal
  BY DEF Holding
<1> QED BY <1>2, <1>3, <1>7, <1>8

\* Tokens move between an agent and its own owner, or inside the agent.
LEMMA MovedAtHome ==
  ASSUME TypeOK, TypeOK', OwnerConservation, ScopesStay,
         \A a \in Agents : scope[a] = None => scope'[a] = None,
         NEW agent \in Agents, scope[agent] # None,
         NEW home \in OwnerTokens, home = <<agent[1], scope[agent].token>>,
         \A y \in OwnerTokens : y # home => ownerBal'[y] = ownerBal[y],
         \A a \in Agents : a # agent => /\ agentBal'[a] = agentBal[a]
                                        /\ Outlay'[a] = Outlay[a],
         ownerBal'[home] + (agentBal'[agent] + Outlay'[agent])
           = ownerBal[home] + (agentBal[agent] + Outlay[agent])
  PROVE  OwnerConservation'
<1>1. SUFFICES ASSUME NEW x \in OwnerTokens
               PROVE  ownerBal'[x] + SumOf(Holding', Mine(x)') = InitialBalance
  BY ConservationSum
<1>2. ownerBal[x] + SumOf(Holding, Mine(x)) = InitialBalance
  BY ConservationSum
<1>3. PICK M \in SUBSET Agents : M = Mine(x)
  BY MineFinite
<1>4. IsFiniteSet(M) /\ Mine(x)' = M
  <2>1. Mine(x)' = Mine(x)
    BY DEF Mine, ScopesStay
  <2> QED BY <1>3, <2>1, MineFinite
<1>5. PICK f, g : f = Holding /\ g = Holding'
  OBVIOUS
<1>6. /\ \A a \in M : f[a] \in Int /\ g[a] \in Int
      /\ \A a \in M : a # agent => f[a] = g[a]
  BY <1>5, HoldingInt
<1>7. CASE x = home
  <2>1. agent \in M
    BY <1>3, <1>7 DEF Mine
  <2>2. SumOf(g, M) = SumOf(f, M) + (g[agent] - f[agent])
    BY <1>4, <1>6, <2>1, SumChange
  <2>3. PICK a \in Int, b \in Int, c \in Int, d \in Int :
             /\ a = SumOf(f, M) /\ b = SumOf(g, M)
             /\ c = f[agent] /\ d = g[agent]
    <3>1. SumOf(f, M) \in Int /\ SumOf(g, M) \in Int
      BY <1>4, <1>6, SumInt
    <3>2. f[agent] \in Int /\ g[agent] \in Int
      BY <1>5, HoldingInt
    <3> QED BY <3>1, <3>2
  <2>4. PICK v \in Nat, w \in Nat : v = ownerBal[x] /\ w = ownerBal'[x]
    BY DEF TypeOK
  <2>5. w + d = v + c
    BY <1>5, <1>7, <2>3, <2>4, HoldingInt
  <2>6. v + a = InitialBalance /\ b = a + (d - c)
    BY <1>2, <1>3, <1>5, <2>2, <2>3, <2>4
  <2>7. w + b = InitialBalance
    BY <2>5, <2>6
  <2> QED BY <1>4, <1>5, <2>3, <2>4, <2>7
<1>8. CASE x # home
  <2>1. agent \notin M
    <3>1. x = <<x[1], x[2]>>
      BY DEF OwnerTokens
    <3> QED BY <1>3, <1>8, <3>1 DEF Mine
  <2>2. \A a \in M : f[a] \in Int /\ f[a] = g[a]
    BY <1>6, <2>1
  <2>3. SumOf(f, M) = SumOf(g, M)
    BY <1>4, <2>2, SumSame
  <2> QED BY <1>2, <1>3, <1>4, <1>5, <1>8, <2>3
<1> QED BY <1>7, <1>8

\* One scope rewritten with its owner and token kept.
LEMMA ScopeRewritten ==
  ASSUME TypeOK, NEW agent \in Agents, scope[agent] # None, NEW r \in AgentScope,
         r.owner = scope[agent].owner, r.token = scope[agent].token,
         scope' = [scope EXCEPT ![agent] = r]
  PROVE  /\ ScopesStay
         /\ \A a \in Agents : scope[a] = None => scope'[a] = None
<1>1. /\ scope'[agent] = r /\ r # None
      /\ \A a \in Agents : a # agent => scope'[a] = scope[a]
  BY NoneAssumption DEF TypeOK
<1> QED BY <1>1 DEF ScopesStay

\* A permission rewritten with its token and scope kept.
LEMMA PermRewritten ==
  ASSUME TypeOK,
         \/ UNCHANGED perm
         \/ \E id \in PermIds, n \in Nat :
              perm[id] # None /\ perm' = [perm EXCEPT ![id].confirmed_spent = n]
         \/ \E id \in PermIds :
              perm[id] # None /\ perm' = [perm EXCEPT ![id].revoked = TRUE]
  PROVE  TokensStay
<1>1. ASSUME NEW id \in PermIds, perm[id] # None, NEW g,
             perm' = [perm EXCEPT ![id] = g],
             g.token = perm[id].token, g.scope_id = perm[id].scope_id
      PROVE  TokensStay
  <2>1. perm'[id] = g /\ \A p \in PermIds : p # id => perm'[p] = perm[p]
    BY <1>1 DEF TypeOK
  <2> QED BY <1>1, <2>1 DEF TokensStay
<1>2. CASE UNCHANGED perm
  BY <1>2 DEF TokensStay
<1>3. ASSUME NEW id \in PermIds, NEW n \in Nat, perm[id] # None,
             perm' = [perm EXCEPT ![id].confirmed_spent = n]
      PROVE  TokensStay
  <2>1. perm[id] \in PermissionGrantV3
    BY <1>3 DEF TypeOK
  <2>2. PICK g : g = [perm[id] EXCEPT !.confirmed_spent = n]
    OBVIOUS
  <2>3. g.token = perm[id].token /\ g.scope_id = perm[id].scope_id
    BY <2>1, <2>2 DEF PermissionGrantV3
  <2>4. perm' = [perm EXCEPT ![id] = g]
    BY <1>3, <2>2
  <2> QED BY <1>1, <1>3, <2>3, <2>4
<1>4. ASSUME NEW id \in PermIds, perm[id] # None,
             perm' = [perm EXCEPT ![id].revoked = TRUE]
      PROVE  TokensStay
  <2>1. perm[id] \in PermissionGrantV3
    BY <1>4 DEF TypeOK
  <2>2. PICK g : g = [perm[id] EXCEPT !.revoked = TRUE]
    OBVIOUS
  <2>3. g.token = perm[id].token /\ g.scope_id = perm[id].scope_id
    BY <2>1, <2>2 DEF PermissionGrantV3
  <2>4. perm' = [perm EXCEPT ![id] = g]
    BY <1>4, <2>2
  <2> QED BY <1>1, <1>4, <2>3, <2>4
<1> QED BY <1>2, <1>3, <1>4

\* A transfer_from between an agent and its own owner.
LEMMA PulledHome ==
  ASSUME TypeOK, TypeOK', OwnerConservation, NEW agent \in Agents,
         NEW amount \in Nat, SessionPullAuth(agent),
         UNCHANGED <<everPlaced, returned>>,
         NEW home \in OwnerTokens, home = <<agent[1], scope[agent].token>>,
         TransferFrom(home[1], home[2], agent, amount)
  PROVE  OwnerConservation' /\ ScopesStay
<1>1. /\ scope[agent] # None /\ ScopesKept
  BY PullAuthScope
<1>2. ScopesStay /\ \A a \in Agents : scope[a] = None => scope'[a] = None
  BY <1>1 DEF ScopesKept, ScopesStay
<1>3. home = <<home[1], home[2]>>
  BY DEF OwnerTokens
<1>4. /\ amount <= ownerBal[home]
      /\ ownerBal' = [ownerBal EXCEPT ![home] = @ - amount]
      /\ agentBal' = [agentBal EXCEPT ![agent] = @ + amount]
  <2>1. ownerBal[home] \in Nat
    BY DEF TypeOK
  <2> QED BY <1>3, <2>1 DEF TransferFrom
<1>5. /\ ownerBal'[home] = ownerBal[home] - amount
      /\ \A y \in OwnerTokens : y # home => ownerBal'[y] = ownerBal[y]
      /\ agentBal'[agent] = agentBal[agent] + amount
      /\ \A a \in Agents : a # agent => agentBal'[a] = agentBal[a]
      /\ ownerBal[home] \in Nat /\ agentBal[agent] \in Nat
      /\ Outlay[agent] \in Int /\ Outlay' = Outlay
  BY <1>4, OutlayInt DEF TypeOK, Outlay
<1>6. ownerBal'[home] + (agentBal'[agent] + Outlay'[agent])
        = ownerBal[home] + (agentBal[agent] + Outlay[agent])
  BY <1>5
<1>7. OwnerConservation'
  BY <1>1, <1>2, <1>5, <1>6, MovedAtHome
<1> QED BY <1>2, <1>7

LEMMA PullHome ==
  ASSUME IndInv, IndInv', HomeInv, NEW agent \in Agents, NEW amount \in Amounts,
         Pull(agent, amount)
  PROVE  HomeInv'
<1>1. TypeOK /\ TypeOK' /\ amount \in Nat /\ OwnerConservation /\ Identified
  BY AmountsAssumption DEF IndInv, HomeInv
<1>2. /\ SessionPullAuth(agent) /\ deployed[agent] # None
      /\ UNCHANGED <<everPlaced, returned, perm>>
      /\ TransferFrom(deployed[agent].owner, deployed[agent].token, agent,
                      amount)
  BY DEF Pull, routerVars, moneyHistory
<1>3. /\ scope[agent] # None /\ scope[agent] \in AgentScope
      /\ deployed[agent].owner = agent[1]
      /\ deployed[agent].token = scope[agent].token
  BY <1>1, <1>2 DEF IndInv, LinksConsistent, Identified, TypeOK
<1>4. PICK home : home = <<agent[1], scope[agent].token>>
  OBVIOUS
<1>5. home \in OwnerTokens /\ home[1] = agent[1] /\ home[2] = scope[agent].token
  BY <1>3, <1>4 DEF OwnerTokens, AgentScope, Agents
<1>6. TransferFrom(home[1], home[2], agent, amount)
  BY <1>2, <1>3, <1>5
<1>7. OwnerConservation' /\ ScopesStay
  BY <1>1, <1>2, <1>4, <1>5, <1>6, PulledHome
<1>8. TokensStay
  BY <1>1, <1>2, PermRewritten
<1> QED BY <1>1, <1>7, <1>8, IdentifiedKept DEF HomeInv

LEMMA PullV3Home ==
  ASSUME IndInv, IndInv', HomeInv, NEW id \in PermIds, NEW exec \in Execs,
         NEW agent \in Agents, NEW amount \in Amounts,
         PullV3(id, exec, agent, amount)
  PROVE  HomeInv'
<1>1. TypeOK /\ TypeOK' /\ amount \in Nat /\ OwnerConservation /\ Identified
  BY AmountsAssumption DEF IndInv, HomeInv
<1>2. /\ SessionPullAuth(agent) /\ perm[id] # None /\ linked[agent] = id
      /\ UNCHANGED <<everPlaced, returned>>
      /\ perm' = [perm EXCEPT ![id].confirmed_spent = @ + amount]
      /\ TransferFrom(perm[id].owner, perm[id].token, agent, amount)
  BY DEF PullV3, moneyHistory
<1>3. scope[agent] # None /\ scope[agent] \in AgentScope /\ id # None
  BY <1>1, <1>2, NoneAssumption DEF SessionPullAuth, TypeOK
<1>4. perm[id].owner = agent[1] /\ perm[id].token = scope[agent].token
  <2>1. /\ perm[id].owner = scope[agent].owner
        /\ perm[id].scope_id = ScopeId(scope[agent])
    BY <1>2, <1>3 DEF IndInv, LinksConsistent
  <2>2. scope[agent].owner = agent[1] /\ perm[id].token = perm[id].scope_id[2]
    BY <1>1, <1>2, <1>3 DEF Identified
  <2>3. ScopeId(scope[agent])[2] = scope[agent].token
    BY DEF ScopeId
  <2> QED BY <2>1, <2>2, <2>3
<1>5. PICK home : home = <<agent[1], scope[agent].token>>
  OBVIOUS
<1>6. home \in OwnerTokens /\ home[1] = agent[1] /\ home[2] = scope[agent].token
  BY <1>3, <1>5 DEF OwnerTokens, AgentScope, Agents
<1>7. TransferFrom(home[1], home[2], agent, amount)
  BY <1>2, <1>4, <1>6
<1>8. OwnerConservation' /\ ScopesStay
  BY <1>1, <1>2, <1>5, <1>6, <1>7, PulledHome
<1>9. TokensStay
  <2>1. PICK n \in Nat : n = perm[id].confirmed_spent + amount
    BY <1>1, <1>2 DEF TypeOK, PermissionGrantV3
  <2>2. perm' = [perm EXCEPT ![id].confirmed_spent = n]
    BY <1>2, <2>1
  <2> QED BY <1>1, <1>2, <2>2, PermRewritten
<1> QED BY <1>1, <1>8, <1>9, IdentifiedKept DEF HomeInv

\* A step of one agent whose permission records stay.
LEMMA AgentHome ==
  ASSUME TypeOK, TypeOK', HomeInv, NEW agent \in Agents, scope[agent] # None,
         NEW r \in AgentScope, r.owner = scope[agent].owner,
         r.token = scope[agent].token, scope' = [scope EXCEPT ![agent] = r],
         UNCHANGED perm, NEW home \in OwnerTokens,
         home = <<agent[1], scope[agent].token>>,
         \A y \in OwnerTokens : y # home => ownerBal'[y] = ownerBal[y],
         \A a \in Agents : a # agent => /\ agentBal'[a] = agentBal[a]
                                        /\ Outlay'[a] = Outlay[a],
         ownerBal'[home] + (agentBal'[agent] + Outlay'[agent])
           = ownerBal[home] + (agentBal[agent] + Outlay[agent])
  PROVE  HomeInv'
<1>1. ScopesStay /\ \A a \in Agents : scope[a] = None => scope'[a] = None
  BY ScopeRewritten
<1>2. OwnerConservation'
  BY <1>1, MovedAtHome DEF HomeInv
<1>3. TokensStay
  BY PermRewritten
<1> QED BY <1>1, <1>2, <1>3, IdentifiedKept DEF HomeInv

\* The account of an agent's owner in the agent's token.
LEMMA HomeOf ==
  ASSUME TypeOK, NEW agent \in Agents, scope[agent] # None
  PROVE  /\ scope[agent] \in AgentScope
         /\ <<agent[1], scope[agent].token>> \in OwnerTokens
         /\ scope = [scope EXCEPT ![agent] = scope[agent]]
<1>1. scope[agent] \in AgentScope /\ scope \in [Agents -> AgentScope \cup {None}]
  BY DEF TypeOK
<1>2. <<agent[1], scope[agent].token>> \in OwnerTokens
  BY <1>1 DEF OwnerTokens, AgentScope, Agents
<1>3. scope = [scope EXCEPT ![agent] = scope[agent]]
  BY <1>1
<1> QED BY <1>1, <1>2, <1>3

\* A spend turns what an agent has into what it placed.
LEMMA SpendHome ==
  ASSUME TypeOK, TypeOK', HomeInv, NEW agent \in Agents, NEW amount \in Amounts,
         NEW route, NEW minted, Spend(agent, amount, route, minted)
  PROVE  HomeInv'
<1>1. PICK home \in OwnerTokens : home = <<agent[1], scope[agent].token>>
  BY HomeOf DEF Spend
<1>2. scope[agent] # None /\ scope[agent] \in AgentScope /\ now \in Nat
      /\ amount \in Nat
  BY HomeOf, AmountsAssumption DEF Spend, TypeOK
<1>3. PICK r : r = EnforceSpend(scope[agent], now, amount)
  OBVIOUS
<1>4. r \in AgentScope /\ r.owner = scope[agent].owner
      /\ r.token = scope[agent].token
  BY <1>2, <1>3, EnforceSpendType
<1>5. /\ scope' = [scope EXCEPT ![agent] = r] /\ UNCHANGED perm
      /\ ownerBal' = ownerBal /\ amount <= agentBal[agent]
      /\ agentBal' = [agentBal EXCEPT ![agent] = @ - amount]
      /\ everPlaced' = [everPlaced EXCEPT ![agent] = @ + amount]
      /\ returned' = returned
  <2>1. agentBal[agent] \in Nat
    BY DEF TypeOK
  <2> QED BY <1>2, <1>3, <2>1 DEF Spend, routerVars
<1>6. /\ agentBal'[agent] = agentBal[agent] - amount
      /\ Outlay'[agent] = Outlay[agent] + amount
      /\ \A a \in Agents : a # agent => /\ agentBal'[a] = agentBal[a]
                                        /\ Outlay'[a] = Outlay[a]
      /\ agentBal[agent] \in Nat /\ Outlay[agent] \in Int
      /\ ownerBal[home] \in Nat
  <2>1. /\ agentBal'[agent] = agentBal[agent] - amount
        /\ everPlaced'[agent] = everPlaced[agent] + amount
        /\ \A a \in Agents : a # agent => /\ agentBal'[a] = agentBal[a]
                                          /\ everPlaced'[a] = everPlaced[a]
        /\ agentBal[agent] \in Nat /\ ownerBal[home] \in Nat
    BY <1>5 DEF TypeOK
  <2> QED BY <1>2, <1>5, <2>1, OutlayInt
<1>7. ownerBal'[home] + (agentBal'[agent] + Outlay'[agent])
        = ownerBal[home] + (agentBal[agent] + Outlay[agent])
  BY <1>2, <1>5, <1>6
<1> QED BY <1>1, <1>2, <1>4, <1>5, <1>6, <1>7, AgentHome

LEMMA ExitHome ==
  ASSUME TypeOK, TypeOK', HomeInv, UndeployedEmpty, NEW agent \in Agents,
         NEW n \in Quotes \cup Amounts,
         \/ \E payout \in Quotes : ExitRedeem(agent, n, payout)
         \/ \E to \in Owners : ExitTransfer(agent, to, n)
  PROVE  HomeInv'
<1>1. agent \in exitSigner /\ scope' = scope /\ perm' = perm /\ n \in Nat
  BY AmountsAssumption, QuotesAssumption
  DEF ExitRedeem, ExitTransfer, agentVars, routerVars
<1>2. scope[agent] # None
  BY <1>1 DEF UndeployedEmpty
<1>3. PICK home \in OwnerTokens : home = <<agent[1], scope[agent].token>>
  BY <1>2, HomeOf
<1>4. scope[agent] \in AgentScope /\ scope' = [scope EXCEPT ![agent] = scope[agent]]
  BY <1>1, <1>2, HomeOf
<1>5. /\ agentBal[agent] \in Nat /\ Outlay[agent] \in Int
      /\ ownerBal[home] \in Nat
  BY OutlayInt DEF TypeOK
<1>6. ASSUME NEW payout \in Quotes, ExitRedeem(agent, n, payout) PROVE HomeInv'
  <2>0. /\ agentBal'[agent] = agentBal[agent] + payout
        /\ returned'[agent] = returned[agent] + payout /\ payout \in Nat
        /\ \A a \in Agents : a # agent => /\ agentBal'[a] = agentBal[a]
                                          /\ returned'[a] = returned[a]
        /\ ownerBal' = ownerBal /\ everPlaced' = everPlaced
    BY <1>6, QuotesAssumption DEF TypeOK, ExitRedeem
  <2>1. /\ agentBal'[agent] = agentBal[agent] + payout
        /\ Outlay'[agent] = Outlay[agent] - payout
        /\ \A a \in Agents : a # agent => /\ agentBal'[a] = agentBal[a]
                                          /\ Outlay'[a] = Outlay[a]
        /\ ownerBal' = ownerBal
    BY <2>0, OutlayInt
  <2>2. ownerBal'[home] + (agentBal'[agent] + Outlay'[agent])
          = ownerBal[home] + (agentBal[agent] + Outlay[agent])
    BY <1>1, <1>5, <2>0, <2>1
  <2> QED BY <1>1, <1>2, <1>3, <1>4, <2>1, <2>2, AgentHome
<1>7. ASSUME NEW to \in Owners, ExitTransfer(agent, to, n) PROVE HomeInv'
  <2>1. home = <<to, scope[agent].token>>
    BY <1>2, <1>3, <1>7 DEF ExitTransfer, HomeInv, Identified
  <2>2. /\ agentBal' = [agentBal EXCEPT ![agent] = @ - n]
        /\ ownerBal' = [ownerBal EXCEPT ![home] = @ + n]
        /\ Outlay' = Outlay
    BY <1>7, <2>1 DEF ExitTransfer, Outlay, moneyHistory
  <2>3. /\ agentBal'[agent] = agentBal[agent] - n
        /\ \A a \in Agents : a # agent => /\ agentBal'[a] = agentBal[a]
                                          /\ Outlay'[a] = Outlay[a]
        /\ ownerBal'[home] = ownerBal[home] + n
        /\ \A y \in OwnerTokens : y # home => ownerBal'[y] = ownerBal[y]
    BY <2>2 DEF TypeOK
  <2>4. ownerBal'[home] + (agentBal'[agent] + Outlay'[agent])
          = ownerBal[home] + (agentBal[agent] + Outlay[agent])
    BY <1>1, <1>5, <2>2, <2>3
  <2> QED BY <1>1, <1>2, <1>3, <1>4, <2>3, <2>4, AgentHome
<1> QED BY <1>6, <1>7

LEMMA WithdrawHome ==
  ASSUME TypeOK, TypeOK', HomeInv, NEW agent \in Agents, NEW caller, NEW to,
         NEW v \in Nat, OwnerWithdraw(agent, caller, to, v)
  PROVE  HomeInv'
<1>1. scope[agent] # None /\ to = scope[agent].owner /\ perm' = perm
  BY DEF OwnerWithdraw, ExitDestination, routerVars
<1>2. PICK home \in OwnerTokens : home = <<agent[1], scope[agent].token>>
  BY <1>1, HomeOf
<1>3. home = <<to, scope[agent].token>>
  BY <1>1, <1>2 DEF HomeInv, Identified
<1>4. scope[agent] \in AgentScope
  BY <1>1, HomeOf
<1>5. PICK r : r = [scope[agent] EXCEPT !.revoked = TRUE]
  OBVIOUS
<1>6. r \in AgentScope /\ r.owner = scope[agent].owner
      /\ r.token = scope[agent].token
  BY <1>4, <1>5, RevokedScopeType
<1>7. scope' = [scope EXCEPT ![agent] = r]
  BY <1>5 DEF OwnerWithdraw, ExitScope
<1>8. /\ returned' = [returned EXCEPT ![agent] = @ + v]
      /\ everPlaced' = everPlaced
      /\ agentBal' = [agentBal EXCEPT ![agent] = 0]
      /\ ownerBal' = [ownerBal EXCEPT ![home] = @ + (agentBal[agent] + v)]
  BY <1>3 DEF OwnerWithdraw
<1>9. /\ agentBal'[agent] = 0 /\ returned'[agent] = returned[agent] + v
      /\ \A a \in Agents : a # agent => /\ agentBal'[a] = agentBal[a]
                                        /\ returned'[a] = returned[a]
      /\ ownerBal'[home] = ownerBal[home] + (agentBal[agent] + v)
      /\ \A y \in OwnerTokens : y # home => ownerBal'[y] = ownerBal[y]
      /\ agentBal[agent] \in Nat /\ ownerBal[home] \in Nat
  BY <1>8 DEF TypeOK
<1>10. /\ Outlay'[agent] = Outlay[agent] - v /\ Outlay[agent] \in Int
       /\ \A a \in Agents : a # agent => /\ agentBal'[a] = agentBal[a]
                                         /\ Outlay'[a] = Outlay[a]
  BY <1>8, <1>9, OutlayInt
<1>11. ownerBal'[home] + (agentBal'[agent] + Outlay'[agent])
         = ownerBal[home] + (agentBal[agent] + Outlay[agent])
  BY <1>9, <1>10
<1> QED BY <1>1, <1>2, <1>6, <1>7, <1>9, <1>10, <1>11, AgentHome

\* A step that moves no tokens: a grant, a revocation, the clock.
LEMMA StillHome ==
  ASSUME IndInv, IndInv', HomeInv, ScopesStay, TokensStay,
         UNCHANGED <<ownerBal, agentBal, everPlaced, returned>>
  PROVE  HomeInv'
<1>1. OwnerConservation'
  BY NothingMoved DEF IndInv, HomeInv
<1> QED BY <1>1, IdentifiedKept DEF HomeInv

LEMMA DeployStays ==
  ASSUME NEW owner, NEW salts, NEW init, DeployResult(owner, salts, init),
         Fresh(owner, salts)
  PROVE  ScopesStay
<1>1. ASSUME NEW a \in Agents, scope[a] # None
      PROVE  ~(a[1] = owner /\ a[2] \in salts)
  BY <1>1 DEF Fresh, Agents
<1> QED BY <1>1 DEF DeployResult, ScopesStay

LEMMA GrantHome ==
  ASSUME IndInv, IndInv', HomeInv, NEW owner \in Owners, NEW expiry \in Expiries,
         NEW T \in SUBSET Tokens, NEW S \in SUBSET Salts,
         NEW budget \in [T -> Budgets], NEW init \in [S -> Inits],
         Grant(owner, budget, expiry, init)
  PROVE  HomeInv'
<1>1. TypeOK /\ DOMAIN init = S /\ Unlimited \in Nat
  BY UnlimitedAssumption DEF IndInv
<1>2. /\ DeployAgents(owner, S, init, Unlimited) /\ Fresh(owner, S)
      /\ UNCHANGED <<ownerBal, agentBal, everPlaced, returned>> /\ UNCHANGED perm
  BY <1>1 DEF Grant, moneyHistory
<1>3. DeployResult(owner, S, init)
  BY <1>1, <1>2, DeployType
<1>4. ScopesStay
  BY <1>2, <1>3, DeployStays
<1>5. TokensStay
  BY <1>1, <1>2, PermRewritten
<1> QED BY <1>2, <1>4, <1>5, StillHome

LEMMA GrantV3Home ==
  ASSUME IndInv, IndInv', HomeInv, NEW owner \in Owners, NEW token \in Tokens,
         NEW ceiling \in Budgets, NEW perRun \in Budgets,
         NEW until \in Expiries, NEW S \in SUBSET Salts,
         NEW init \in [S -> Inits],
         GrantV3(owner, token, ceiling, perRun, until, init)
  PROVE  HomeInv'
<1>1. TypeOK /\ DOMAIN init = S /\ S # {} /\ ceiling \in Nat
  BY AmountsAssumption DEF IndInv, GrantV3
<1>2. ceiling \div Cardinality(S) \in Nat
  BY <1>1, SplitType
<1>3. /\ DeployAgents(owner, S, init, ceiling \div Cardinality(S))
      /\ Fresh(owner, S)
      /\ UNCHANGED <<ownerBal, agentBal, everPlaced, returned>>
  BY <1>1 DEF GrantV3, moneyHistory
<1>4. DeployResult(owner, S, init)
  BY <1>1, <1>2, <1>3, DeployType
<1>5. ScopesStay
  BY <1>3, <1>4, DeployStays
<1>6. PICK first : first = CHOOSE s \in S : TRUE
  OBVIOUS
<1>7. PICK g : g = [scope_id |-> ScopeId(init[first]), owner |-> owner,
                    token |-> token, mandate_ceiling |-> ceiling,
                    confirmed_spent |-> 0, per_run_max |-> perRun,
                    live_until_ledger |-> until, revoked |-> FALSE]
  OBVIOUS
<1>8. perm' = [perm EXCEPT ![<<owner, S>>] = g]
  BY <1>1, <1>6, <1>7 DEF GrantV3, DerivePermissionId
<1>9. g.token = g.scope_id[2]
  <2>1. first \in S
    BY <1>1, <1>6
  <2>2. init[first].token = token
    BY <1>1, <2>1 DEF GrantV3
  <2>3. g.token = token /\ g.scope_id = ScopeId(init[first])
    BY <1>7
  <2>4. ScopeId(init[first])[2] = init[first].token
    BY DEF ScopeId
  <2> QED BY <2>2, <2>3, <2>4
<1>10. TokensStay
  <2>1. \A p \in PermIds : perm'[p] = g \/ perm'[p] = perm[p]
    BY <1>1, <1>8 DEF TypeOK
  <2> QED BY <1>9, <2>1 DEF TokensStay
<1> QED BY <1>3, <1>5, <1>10, StillHome

LEMMA HomeStep ==
  ASSUME IndInv, HomeInv, [Next]_vars
  PROVE  HomeInv'
<1>0. TypeOK /\ UndeployedEmpty /\ IndInv' /\ TypeOK'
  BY NextInv DEF IndInv
<1>1. CASE \E owner \in Owners, expiry \in Expiries,
              T \in SUBSET Tokens, S \in SUBSET Salts :
             \E budget \in [T -> Budgets], init \in [S -> Inits] :
               Grant(owner, budget, expiry, init)
  BY <1>0, <1>1, GrantHome
<1>2. CASE \E a \in Agents, n \in Amounts : Pull(a, n)
  BY <1>0, <1>2, PullHome
<1>3. CASE \E owner \in Owners, token \in Tokens, ceiling \in Budgets,
              perRun \in Budgets, until \in Expiries, S \in SUBSET Salts :
             \E init \in [S -> Inits] :
               GrantV3(owner, token, ceiling, perRun, until, init)
  BY <1>0, <1>3, GrantV3Home
<1>4. CASE \E p \in PermIds, e \in Execs, a \in Agents, n \in Amounts :
             PullV3(p, e, a, n)
  BY <1>0, <1>4, PullV3Home
<1>5. CASE \E p \in PermIds : RevokeV3(p)
  <2>1. PICK p \in PermIds : RevokeV3(p)
    BY <1>5
  <2>2. /\ UNCHANGED <<ownerBal, agentBal, everPlaced, returned>> /\ scope' = scope
        /\ perm[p] # None /\ perm' = [perm EXCEPT ![p].revoked = TRUE]
    BY <2>1 DEF RevokeV3, chainVars, agentVars, moneyHistory
  <2>3. ScopesStay
    BY <2>2 DEF ScopesStay
  <2>4. TokensStay
    BY <1>0, <2>2, PermRewritten
  <2> QED BY <1>0, <2>2, <2>3, <2>4, StillHome
<1>6. CASE \E a \in Agents, n \in Amounts, r \in Routes \cup {NoRoute},
              minted \in Quotes \cup {0} : Spend(a, n, r, minted)
  BY <1>0, <1>6, SpendHome
<1>7. CASE \E a \in Agents : Revoke(a)
  <2>1. PICK a \in Agents : Revoke(a)
    BY <1>7
  <2>2. scope[a] # None
    BY <2>1 DEF Revoke
  <2>3. PICK r : r = [scope[a] EXCEPT !.revoked = TRUE]
    OBVIOUS
  <2>4. r \in AgentScope /\ r.owner = scope[a].owner /\ r.token = scope[a].token
    BY <1>0, <2>2, <2>3, HomeOf, RevokedScopeType
  <2>5. /\ UNCHANGED <<ownerBal, agentBal, everPlaced, returned>> /\ UNCHANGED perm
        /\ scope' = [scope EXCEPT ![a] = r]
    BY <2>1, <2>3 DEF Revoke, routerVars, moneyHistory
  <2>6. ScopesStay /\ TokensStay
    BY <1>0, <2>2, <2>4, <2>5, ScopeRewritten, PermRewritten
  <2> QED BY <1>0, <2>5, <2>6, StillHome
<1>8. CASE \/ \E a \in Agents, n \in Quotes, payout \in Quotes :
                ExitRedeem(a, n, payout)
           \/ \E a \in Agents, to \in Owners, n \in Amounts :
                ExitTransfer(a, to, n)
  BY <1>0, <1>8, ExitHome
<1>9. CASE \/ \E a \in Agents, caller \in Owners, to \in Owners,
                 payout \in Quotes \cup {0} :
                DirectWithdraw(a, caller, to, payout)
           \/ \E a \in Agents, payout \in Quotes \cup {0} :
                SweepAgent(a, payout)
  <2>1. PICK a \in Agents, payout \in Nat :
          \E caller, to : OwnerWithdraw(a, caller, to, payout)
    BY <1>9, QuotesAssumption DEF DirectWithdraw, SweepAgent
  <2> QED BY <1>0, <2>1, WithdrawHome
<1>10. CASE \/ \E a \in Agents : SetExitSigner(a)
            \/ \E owner \in Owners, to \in Owners, S \in SUBSET Agents :
                 SweepStart(owner, to, S)
            \/ \E a \in Agents : SweepSkip(a)
            \/ SweepEnd
            \/ \E secs \in CloseTimes : CloseLedger(secs)
            \/ UNCHANGED vars
  <2>1. UNCHANGED <<ownerBal, agentBal, everPlaced, returned>> /\ UNCHANGED perm
        /\ scope' = scope
    BY <1>10 DEF SetExitSigner, SweepStart, SweepSkip, SweepEnd, CloseLedger,
                 vars, chainVars, agentVars, routerVars, moneyHistory
  <2>2. ScopesStay
    BY <2>1 DEF ScopesStay
  <2>3. TokensStay
    BY <1>0, <2>1, PermRewritten
  <2> QED BY <1>0, <2>1, <2>2, <2>3, StillHome
<1> QED
  BY <1>1, <1>2, <1>3, <1>4, <1>5, <1>6, <1>7, <1>8, <1>9, <1>10 DEF Next

\* What an owner and its agents hold is what the owner started with, less what
\* the agents placed, plus what the vault paid them, at any price: no grant,
\* pull, spend, exit or sweep, in whatever order, moves a token elsewhere.
THEOREM OwnersKeepTheirTokens == Spec => []OwnerConservation
<1>1. Init => HomeInv
  <2> SUFFICES ASSUME Init PROVE HomeInv
    OBVIOUS
  <2>1. Identified
    BY DEF Init, Identified
  <2>2. ASSUME NEW x \in OwnerTokens
        PROVE  ownerBal[x] + SumOf(Holding, Mine(x)) = InitialBalance
    <3>1. Mine(x) = {} /\ ownerBal[x] = InitialBalance
      BY DEF Init, Mine
    <3>2. SumOf(Holding, Mine(x)) = 0
      BY <3>1, SumEmpty
    <3> QED BY <3>1, <3>2, InitialBalanceAssumption
  <2>3. OwnerConservation
    BY <2>2, ConservationSum
  <2> QED BY <2>1, <2>3 DEF HomeInv
<1>2. IndInv /\ HomeInv /\ [Next]_vars => HomeInv'
  BY HomeStep
<1>3. HomeInv => OwnerConservation
  BY DEF HomeInv
<1> QED BY <1>1, <1>2, <1>3, Invariance, PTL DEF Spec
=============================================================================
