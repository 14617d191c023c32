------------------------ MODULE AutofarmVaultProofs -------------------------
(***************************************************************************)
(* The money and the upgrade timelock of AutofarmVault, for every number   *)
(* of holders, strategies and hashes, every amount and every delay.        *)
(* UpgradeInv stands alone.  MoneyInv joins the types, the share ledger    *)
(* and the conservation of tokens: a balance stays a natural number only   *)
(* because shares bound what is redeemed and slices what is supplied.      *)
(* The pools convert with rounding, so a call is first shown to conserve   *)
(* the positions an exact conversion would leave (Rounds), and those to be *)
(* at most two conversions' dust above the real ones.                      *)
(***************************************************************************)
EXTENDS AutofarmVault, SumProofs

UpgradeTypes ==
  /\ now \in Nat
  /\ pending \in PendingUpgrade \cup {None}
  /\ announced \in [wasm_hash: Hashes, at: Nat] \cup {None}

\* The inductive invariant of the upgrade slot.
UpgradeInv == UpgradeTypes /\ PendingMatchesAnnouncement

\* A step that leaves the slot alone and does not turn the clock into
\* something else keeps the invariant.
LEMMA SlotUntouched ==
  ASSUME UpgradeInv, now' \in Nat, UNCHANGED <<pending, announced>>
  PROVE  UpgradeInv'
BY DEF UpgradeInv, UpgradeTypes, PendingMatchesAnnouncement

\* Only UpgradeStep writes the slot or the code; every other step keeps both,
\* and the clock stays a natural number.
SlotFrame == now' \in Nat /\ UNCHANGED upgradeVars

LEMMA OthersKeepSlot ==
  ASSUME UpgradeInv, [Next]_vars, ~UpgradeStep
  PROVE  SlotFrame
<1>0. now \in Nat
  BY DEF UpgradeInv, UpgradeTypes
<1>1. CASE HolderStep
  <2>1. PICK h \in Holders, n \in Amounts :
               deposit(h, n) \/ redeem(h, n) \/ Donate(h, n)
    BY <1>1 DEF HolderStep
  <2>2. CASE deposit(h, n)
    BY <2>2, <1>0 DEF deposit, SlotFrame, upgradeVars
  <2>3. CASE redeem(h, n)
    BY <2>3, <1>0 DEF redeem, SlotFrame, upgradeVars
  <2>4. CASE Donate(h, n)
    BY <2>4, <1>0 DEF Donate, SlotFrame, upgradeVars
  <2> QED BY <2>1, <2>2, <2>3, <2>4
<1>2. CASE CompoundStep
  BY <1>2, <1>0 DEF CompoundStep, compound, SlotFrame, upgradeVars
<1>3. CASE RebalanceStep
  BY <1>3, <1>0 DEF RebalanceStep, rebalance, SlotFrame, upgradeVars
<1>4. CASE LifeboatStep
  BY <1>4, <1>0 DEF LifeboatStep, emergency_derisk, resume,
     set_mandate_authority, set_mandate, SlotFrame, upgradeVars
<1>5. CASE RegistryStep
  BY <1>5, <1>0 DEF RegistryStep, add_strategy, remove_strategy,
     quarantine_strategy, emergency_withdraw, adminFrame, SlotFrame,
     upgradeVars
<1>6. CASE SettingsStep
  BY <1>6, <1>0 DEF SettingsStep, set_keeper, set_limits,
     set_compound_cooldown, pause, unpause, adminFrame, SlotFrame, upgradeVars
<1>7. CASE PoolStep
  BY <1>7, <1>0 DEF PoolStep, PoolAccrues, PoolLoses, PoolChanges, envFrame,
     SlotFrame, upgradeVars
<1>8. CASE Tick
  BY <1>8, <1>0 DEF Tick, envFrame, SlotFrame, upgradeVars
<1>9. CASE UNCHANGED vars
  BY <1>9, <1>0 DEF vars, SlotFrame, upgradeVars
<1> QED BY <1>1, <1>2, <1>3, <1>4, <1>5, <1>6, <1>7, <1>8, <1>9 DEF Next

\* Scheduling, executing and cancelling keep the slot and its announcement in
\* step.
LEMMA UpgradeKeepsInv ==
  ASSUME UpgradeInv, UpgradeStep
  PROVE  UpgradeInv'
<1> USE LimitsAssumption, NamesAssumption
<1>1. now \in Nat /\ now' = now
  BY DEF UpgradeInv, UpgradeTypes, UpgradeStep, schedule_upgrade,
     execute_upgrade, cancel_upgrade, adminFrame
<1>2. CASE \E x \in Hashes : schedule_upgrade(x)
  <2>1. PICK x \in Hashes : schedule_upgrade(x)
    BY <1>2
  <2>2. /\ pending' = [wasm_hash |-> x, eta |-> now + TimelockDelay]
        /\ announced' = [wasm_hash |-> x, at |-> now]
    BY <2>1 DEF schedule_upgrade
  <2>3. /\ pending' \in PendingUpgrade
        /\ announced' \in [wasm_hash: Hashes, at: Nat]
    BY <2>2, <1>1 DEF PendingUpgrade
  <2>4. pending' # None /\ announced' # None
    BY <2>3 DEF PendingUpgrade
  <2>5. /\ pending'.wasm_hash = announced'.wasm_hash
        /\ pending'.eta = announced'.at + TimelockDelay
    BY <2>2, <1>1
  <2> QED
    BY <2>3, <2>4, <2>5, <1>1
    DEF UpgradeInv, UpgradeTypes, PendingMatchesAnnouncement
<1>3. CASE execute_upgrade \/ cancel_upgrade
  BY <1>1, <1>3 DEF execute_upgrade, cancel_upgrade, UpgradeInv,
     UpgradeTypes, PendingMatchesAnnouncement
<1> QED BY <1>2, <1>3 DEF UpgradeStep

\* The upgrade slot always holds what was announced, with an eta a full delay
\* after the announcement (schedule_upgrade, cancel_upgrade).
THEOREM PendingAlwaysAnnounced == Spec => []PendingMatchesAnnouncement
<1>1. Init => UpgradeInv
  BY LimitsAssumption DEF Init, UpgradeInv, UpgradeTypes,
     PendingMatchesAnnouncement
<1>2. UpgradeInv /\ [Next]_vars => UpgradeInv'
  BY OthersKeepSlot, SlotUntouched, UpgradeKeepsInv DEF SlotFrame, upgradeVars
<1>3. UpgradeInv => PendingMatchesAnnouncement
  BY DEF UpgradeInv
<1> QED BY <1>1, <1>2, <1>3, PTL DEF Spec

\* What a step may do to the code, from the invariant.
LEMMA CodeStep ==
  ASSUME UpgradeInv, [Next]_vars, wasm' # wasm
  PROVE  /\ announced # None
         /\ wasm' = announced.wasm_hash
         /\ now >= announced.at + TimelockDelay
<1>1. UpgradeStep
  BY OthersKeepSlot DEF SlotFrame, upgradeVars
<1>2. execute_upgrade
  BY <1>1 DEF UpgradeStep, schedule_upgrade, cancel_upgrade
<1> QED
  BY <1>2 DEF execute_upgrade, UpgradeInv, PendingMatchesAnnouncement

\* No sequence of calls installs code that was not announced a full delay
\* earlier, or whose announcement was cancelled or replaced (execute_upgrade).
THEOREM UpgradesAlwaysAnnounced == Spec => UpgradeAnnounced
<1>1. Init => UpgradeInv
  BY LimitsAssumption DEF Init, UpgradeInv, UpgradeTypes,
     PendingMatchesAnnouncement
<1>2. UpgradeInv /\ [Next]_vars => UpgradeInv'
  BY OthersKeepSlot, SlotUntouched, UpgradeKeepsInv DEF SlotFrame, upgradeVars
<1>3. UpgradeInv /\ [Next]_vars =>
        [wasm' # wasm => /\ announced # None
                         /\ wasm' = announced.wasm_hash
                         /\ now >= announced.at + TimelockDelay]_vars
  BY CodeStep
<1> QED BY <1>1, <1>2, <1>3, PTL DEF Spec, UpgradeAnnounced
-----------------------------------------------------------------------------
(* Arithmetic of prices, slices and bToken conversions *)

LEMMA MulMono ==
  ASSUME NEW a \in Nat, NEW b \in Nat, NEW c \in Nat, a <= b
  PROVE  c * a <= c * b
<1>1. PICK d \in Nat : b = a + d
  <2>1. b - a \in Nat /\ b = a + (b - a)
    OBVIOUS
  <2> QED BY <2>1
<1>2. c * b = c * a + c * d
  BY <1>1
<1>3. c * a \in Nat /\ c * d \in Nat
  OBVIOUS
<1> QED BY <1>2, <1>3

LEMMA MulCancel ==
  ASSUME NEW a \in Nat, NEW b \in Nat, NEW c \in Nat, c > 0, c * a <= c * b
  PROVE  a <= b
<1> SUFFICES ASSUME a >= b + 1 PROVE FALSE
  OBVIOUS
<1>1. c * (b + 1) <= c * a
  BY MulMono
<1>2. c * (b + 1) = c * b + c
  OBVIOUS
<1>3. c * a \in Nat /\ c * b \in Nat
  OBVIOUS
<1> QED BY <1>1, <1>2, <1>3

\* Division rounds down, by less than the divisor.
LEMMA DivBounds ==
  ASSUME NEW a \in Nat, NEW b \in Nat, b > 0
  PROVE  /\ a \div b \in Nat
         /\ b * (a \div b) <= a /\ a < b * (a \div b) + b
OBVIOUS

\* Multiples of c less than c apart are in order.
LEMMA MulClose ==
  ASSUME NEW a \in Nat, NEW b \in Nat, NEW c \in Nat, c > 0, c * a < c * b + c
  PROVE  a <= b
<1>1. c * (b + 1) = c * b + c
  OBVIOUS
<1> SUFFICES ASSUME a >= b + 1 PROVE FALSE
  OBVIOUS
<1>2. c * (b + 1) <= c * a
  BY MulMono
<1>3. c * a \in Nat /\ c * b \in Nat
  OBVIOUS
<1> QED BY <1>1, <1>2, <1>3

\* A position worth x in units of 1/Scalar that gains n tokens but for less
\* than a bToken is worth its old value plus n, up to a bToken rounded up.
LEMMA GainRounds ==
  ASSUME NEW x \in Nat, NEW y \in Nat, NEW n \in Nat, NEW r \in Nat,
         NEW d \in Nat, r <= Scalar * d,
         y <= x + Scalar * n, x + Scalar * n <= y + r
  PROVE  /\ y \div Scalar <= x \div Scalar + n
         /\ x \div Scalar + n <= y \div Scalar + d
<1>1. Scalar \in Nat /\ Scalar > 0
  BY RateAssumption
<1>2. PICK v \in Nat, w \in Nat : v = x \div Scalar /\ w = y \div Scalar
  BY <1>1, DivBounds
<1>3. /\ Scalar * v <= x /\ x < Scalar * v + Scalar
      /\ Scalar * w <= y /\ y < Scalar * w + Scalar
  BY <1>1, <1>2, DivBounds
<1>4. /\ Scalar * (v + n) = Scalar * v + Scalar * n
      /\ Scalar * (w + d) = Scalar * w + Scalar * d
  BY <1>1
<1>5. /\ Scalar * v \in Nat /\ Scalar * n \in Nat /\ Scalar * w \in Nat
      /\ Scalar * d \in Nat
  BY <1>1
<1>6. w <= v + n
  <2>1. Scalar * w < Scalar * (v + n) + Scalar
    BY <1>1, <1>3, <1>4, <1>5
  <2> QED BY <1>1, <2>1, MulClose
<1>7. v + n <= w + d
  <2>1. Scalar * (v + n) < Scalar * (w + d) + Scalar
    BY <1>1, <1>3, <1>4, <1>5
  <2> QED BY <1>1, <2>1, MulClose
<1> QED BY <1>2, <1>6, <1>7

\* What is lost to one conversion at rate r covers a bToken.
DustAt(r) == (r + Scalar - 1) \div Scalar

LEMMA DustCovers ==
  ASSUME NEW r \in Nat
  PROVE  DustAt(r) \in Nat /\ r <= Scalar * DustAt(r)
<1>1. Scalar \in Nat /\ Scalar > 0
  BY RateAssumption
<1>2. PICK a \in Nat : a = r + Scalar - 1
  BY <1>1
<1>3. PICK d \in Nat : d = a \div Scalar
  BY <1>1, DivBounds
<1>4. a < Scalar * d + Scalar /\ Scalar * d \in Nat
  BY <1>1, <1>3, DivBounds
<1>5. r <= Scalar * d
  BY <1>1, <1>2, <1>4
<1> QED BY <1>2, <1>3, <1>5 DEF DustAt

\* A position's value is a natural number, and follows the pool's rate.
LEMMA UnderlyingNat ==
  ASSUME NEW b \in Nat, NEW r \in Nat
  PROVE  Underlying(b, r) \in Nat
<1>1. b * r \in Nat
  OBVIOUS
<1> QED BY <1>1, DivBounds, RateAssumption DEF Underlying

LEMMA UnderlyingMono ==
  ASSUME NEW b \in Nat, NEW r \in Nat, NEW q \in Nat, r <= q
  PROVE  Underlying(b, r) <= Underlying(b, q)
<1>1. Scalar \in Nat /\ Scalar > 0
  BY RateAssumption
<1>2. PICK x \in Nat, y \in Nat : x = b * r /\ y = b * q
  OBVIOUS
<1>3. x <= y
  BY <1>2, MulMono
<1>4. PICK v \in Nat, w \in Nat : v = x \div Scalar /\ w = y \div Scalar
  BY <1>1, DivBounds
<1>5. Scalar * v <= x /\ y < Scalar * w + Scalar
  BY <1>1, <1>4, DivBounds
<1>6. Scalar * v < Scalar * w + Scalar
  <2>1. Scalar * v \in Nat /\ Scalar * w \in Nat
    BY <1>1
  <2> QED BY <1>1, <1>3, <1>5, <2>1
<1> QED BY <1>1, <1>2, <1>4, <1>6, MulClose DEF Underlying

LEMMA MintRounds ==
  ASSUME NEW b \in Nat, NEW r \in Nat, NEW n \in Nat, r > 0
  PROVE  /\ (n * Scalar) \div r \in Nat
         /\ Underlying(b + (n * Scalar) \div r, r) <= Underlying(b, r) + n
         /\ Underlying(b, r) + n
              <= Underlying(b + (n * Scalar) \div r, r) + DustAt(r)
<1>1. Scalar \in Nat /\ Scalar > 0
  BY RateAssumption
<1>2. PICK a \in Nat : a = n * Scalar /\ a = Scalar * n
  BY <1>1
<1>3. PICK k \in Nat : k = a \div r
  BY DivBounds
<1>4. r * k <= a /\ a < r * k + r
  BY <1>3, DivBounds
<1>5. PICK x \in Nat, y \in Nat, z \in Nat :
           x = b * r /\ y = (b + k) * r /\ z = r * k
  OBVIOUS
<1>6. y = x + z
  BY <1>5
<1>7. y <= x + Scalar * n /\ x + Scalar * n <= y + r
  BY <1>2, <1>4, <1>5, <1>6
<1>8. PICK d \in Nat : d = DustAt(r) /\ r <= Scalar * d
  BY DustCovers
<1>9. /\ y \div Scalar <= x \div Scalar + n
      /\ x \div Scalar + n <= y \div Scalar + d
  BY <1>7, <1>8, GainRounds
<1> QED BY <1>2, <1>3, <1>5, <1>8, <1>9 DEF Underlying

LEMMA BurnRounds ==
  ASSUME NEW b \in Nat, NEW r \in Nat, NEW n \in Nat, n > 0,
         n <= Underlying(b, r), NEW k, k = (n * Scalar + r - 1) \div r
  PROVE  /\ k \in Nat /\ k <= b
         /\ Underlying(b - k, r) + n <= Underlying(b, r)
         /\ Underlying(b, r) <= Underlying(b - k, r) + n + DustAt(r)
<1>1. Scalar \in Nat /\ Scalar > 0
  BY RateAssumption
<1>2. PICK a \in Nat : a = n * Scalar /\ a = Scalar * n /\ a > 0
  BY <1>1
<1>3. PICK x \in Nat : x = b * r /\ x = r * b
  OBVIOUS
<1>4. a <= x
  <2>1. PICK v \in Nat : v = x \div Scalar /\ Scalar * v <= x
    BY <1>1, DivBounds
  <2>2. Scalar * n <= Scalar * v
    BY <1>1, <1>3, <2>1, MulMono DEF Underlying
  <2>3. Scalar * v \in Nat
    BY <1>1
  <2> QED BY <1>2, <2>1, <2>2, <2>3
<1>5. r > 0
  BY <1>2, <1>3, <1>4
<1>6. PICK c \in Nat : c = a + r - 1
  BY <1>2
<1>7. k \in Nat /\ r * k <= c /\ c < r * k + r
  BY <1>2, <1>5, <1>6, DivBounds
<1>8. PICK z \in Nat : z = r * k /\ a <= z /\ z < a + r
  BY <1>6, <1>7
<1>9. k <= b
  <2>1. r * k < r * b + r
    BY <1>3, <1>4, <1>8
  <2> QED BY <1>5, <1>7, <2>1, MulClose
<1>10. PICK m \in Nat : m = b - k
  BY <1>7, <1>9
<1>11. PICK y \in Nat : y = m * r
  OBVIOUS
<1>12. x = y + z
  <2>1. b = m + k
    BY <1>7, <1>10
  <2>2. (m + k) * r = m * r + k * r
    BY <1>7
  <2> QED BY <1>3, <1>7, <1>8, <1>11, <2>1, <2>2
<1>13. PICK d \in Nat : d = DustAt(r) /\ r <= Scalar * d
  BY DustCovers
<1>14. PICK v \in Nat, w \in Nat : v = x \div Scalar /\ w = y \div Scalar
  BY <1>1, DivBounds
<1>15. /\ Scalar * v <= x /\ x < Scalar * v + Scalar
       /\ Scalar * w <= y /\ y < Scalar * w + Scalar
  BY <1>1, <1>14, DivBounds
<1>16. /\ Scalar * (w + n) = Scalar * w + Scalar * n
       /\ Scalar * (w + n + d) = Scalar * w + Scalar * n + Scalar * d
       /\ Scalar * v \in Nat /\ Scalar * w \in Nat /\ Scalar * d \in Nat
  BY <1>1
<1>17. w + n <= v
  <2>1. Scalar * (w + n) < Scalar * v + Scalar
    BY <1>1, <1>2, <1>8, <1>12, <1>15, <1>16
  <2> QED BY <1>1, <2>1, MulClose
<1>18. v <= w + n + d
  <2>1. Scalar * v < Scalar * (w + n + d) + Scalar
    BY <1>1, <1>2, <1>8, <1>12, <1>13, <1>15, <1>16
  <2> QED BY <1>1, <2>1, MulClose
<1> QED BY <1>3, <1>7, <1>9, <1>10, <1>11, <1>13, <1>14, <1>17, <1>18 DEF Underlying
-----------------------------------------------------------------------------
(* The vault's money: what its operators return *)

\* Each position is a natural number, and so is what a conversion may cost.
LEMMA PosNat ==
  ASSUME TypeOK
  PROVE  /\ pos \in [Strategies -> Nat] /\ Dust \in [Strategies -> Nat]
         /\ \A s \in Strategies : /\ btok[s] \in Nat /\ b_rate[s] \in Nat
                                 /\ pos[s] = Underlying(btok[s], b_rate[s])
                                 /\ Dust[s] = DustAt(b_rate[s])
<1>1. \A s \in Strategies : btok[s] \in Nat /\ b_rate[s] \in Nat
  BY DEF TypeOK
<1>2. ASSUME NEW s \in Strategies
      PROVE  /\ Underlying(btok[s], b_rate[s]) \in Nat
             /\ DustAt(b_rate[s]) \in Nat
  BY <1>1, UnderlyingNat, DustCovers
<1>3. /\ pos = [s \in Strategies |-> Underlying(btok[s], b_rate[s])]
      /\ Dust = [s \in Strategies |-> DustAt(b_rate[s])]
  BY DEF pos, Dust, DustAt
<1> QED BY <1>1, <1>2, <1>3

\* A supply of n tokens adds n to a position, but for its dust.
LEMMA SupplyRounds ==
  ASSUME TypeOK, NEW s \in Strategies, NEW b \in Nat, NEW n \in Nat,
         n > 0 => b_rate[s] > 0
  PROVE  /\ Minted(s, n) \in Nat
         /\ Underlying(b + Minted(s, n), b_rate[s])
              <= Underlying(b, b_rate[s]) + n
         /\ Underlying(b, b_rate[s]) + n
              <= Underlying(b + Minted(s, n), b_rate[s]) + Dust[s]
<1>1. PICK r \in Nat, d \in Nat : r = b_rate[s] /\ d = Dust[s] /\ d = DustAt(r)
  BY PosNat
<1>2. CASE n > 0
  <2>1. PICK k : k = (n * Scalar) \div r
    OBVIOUS
  <2>2. Minted(s, n) = k
    BY <1>1, <1>2, <2>1 DEF Minted
  <2>3. /\ k \in Nat
        /\ Underlying(b + k, r) <= Underlying(b, r) + n
        /\ Underlying(b, r) + n <= Underlying(b + k, r) + DustAt(r)
    BY <1>1, <1>2, <2>1, MintRounds
  <2> QED BY <1>1, <2>2, <2>3
<1>3. CASE n = 0
  <2>1. Minted(s, n) = 0 /\ b + 0 = b
    BY <1>3 DEF Minted
  <2>2. Underlying(b, r) \in Nat
    BY UnderlyingNat
  <2> QED BY <1>1, <1>3, <2>1, <2>2
<1> QED BY <1>2, <1>3

\* A withdrawal of n tokens takes n from a position, and its dust.
LEMMA WithdrawRounds ==
  ASSUME TypeOK, NEW s \in Strategies, NEW n \in Nat, n <= pos[s]
  PROVE  /\ btok[s] - Burnt(s, n) \in Nat
         /\ Underlying(btok[s] - Burnt(s, n), b_rate[s]) + n <= pos[s]
         /\ pos[s] <= Underlying(btok[s] - Burnt(s, n), b_rate[s]) + n + Dust[s]
<1>1. PICK b \in Nat, r \in Nat, d \in Nat, v \in Nat :
           /\ b = btok[s] /\ r = b_rate[s] /\ d = Dust[s] /\ d = DustAt(r)
           /\ v = pos[s] /\ v = Underlying(b, r)
  BY PosNat
<1>2. CASE n > 0
  <2>1. PICK k : k = (n * Scalar + r - 1) \div r
    OBVIOUS
  <2>2. Burnt(s, n) = k
    BY <1>1, <1>2, <2>1 DEF Burnt
  <2>3. /\ k \in Nat /\ k <= b
        /\ Underlying(b - k, r) + n <= Underlying(b, r)
        /\ Underlying(b, r) <= Underlying(b - k, r) + n + DustAt(r)
    BY <1>1, <1>2, <2>1, BurnRounds
  <2> QED BY <1>1, <2>2, <2>3
<1>3. CASE n = 0
  <2>1. Burnt(s, n) = 0 /\ b - 0 = b
    BY <1>3 DEF Burnt
  <2> QED BY <1>1, <1>3, <2>1
<1> QED BY <1>2, <1>3

LEMMA MinOfTwo ==
  ASSUME NEW a \in Int, NEW b \in Int
  PROVE  Min({a, b}) = IF a <= b THEN a ELSE b
BY DEF Min

\* The registry holds strategies, finitely many of them.
LEMMA RegistryFinite ==
  ASSUME TypeOK
  PROVE  /\ Registered \in SUBSET Strategies /\ IsFiniteSet(Registered)
         /\ \A s \in Strategies :
              Before(s) \in SUBSET Registered /\ IsFiniteSet(Before(s))
<1>1. Registered \in SUBSET Strategies
  <2>1. strategies \in Seq(Strategies)
    BY DEF TypeOK
  <2> QED BY <2>1 DEF Registered
<1>2. \A s \in Strategies : Before(s) \in SUBSET Registered
  BY DEF Registered, Before
<1>3. IsFiniteSet(Registered)
  BY <1>1, FS_Subset, NamesAssumption
<1>4. \A s \in Strategies : IsFiniteSet(Before(s))
  BY <1>2, <1>3, FS_Subset
<1> QED BY <1>1, <1>2, <1>3, <1>4

\* total_assets is a natural number, and so is the sum of any strategies.
LEMMA AssetsNat ==
  ASSUME TypeOK
  PROVE  /\ \A T \in SUBSET Strategies : SumOf(pos, T) \in Nat
         /\ total_assets \in Nat
<1>1. ASSUME NEW T \in SUBSET Strategies PROVE SumOf(pos, T) \in Nat
  <2>1. IsFiniteSet(T)
    BY FS_Subset, NamesAssumption
  <2>2. \A x \in T : pos[x] \in Nat
    BY PosNat
  <2> QED BY <2>1, <2>2, SumNat
<1>2. SumOf(pos, Registered) \in Nat /\ idle \in Nat
  <2>1. Registered \in SUBSET Strategies
    BY RegistryFinite
  <2>2. idle \in Nat
    BY DEF TypeOK
  <2> QED BY <1>1, <2>1, <2>2
<1> QED BY <1>1, <1>2 DEF total_assets

\* A strategy never pays more than it was asked for or holds.
LEMMA WithdrawnBound ==
  ASSUME TypeOK, NEW s \in Strategies, NEW n \in Nat
  PROVE  /\ Withdrawn(s, n) \in Nat /\ Withdrawn(s, n) <= pos[s]
         /\ Withdrawn(s, n) <= n
         /\ Withdrawable(s) => Withdrawn(s, n) = IF n <= pos[s] THEN n ELSE pos[s]
         /\ ~Withdrawable(s) => Withdrawn(s, n) = 0
<1>1. pos[s] \in Nat
  BY PosNat
<1>2. Min({n, pos[s]}) = IF n <= pos[s] THEN n ELSE pos[s]
  BY <1>1, MinOfTwo
<1> QED BY <1>1, <1>2 DEF Withdrawn

\* A payment of the strategies to the vault: within each position.
Payment(take) ==
  /\ take \in [Strategies -> Nat]
  /\ \A s \in Strategies : take[s] <= pos[s]

\* What the strategies before s could pay.
Reach == [t \in Strategies |-> Withdrawn(t, pos[t])]

LEMMA ReachNat ==
  ASSUME TypeOK
  PROVE  /\ Payment(Reach)
         /\ \A t \in Strategies :
              Reach[t] = IF Withdrawable(t) THEN pos[t] ELSE 0
         /\ \A T \in SUBSET Strategies : SumOf(Reach, T) \in Nat
<1>0. \A t \in Strategies : pos[t] \in Nat
  BY PosNat
<1>1. \A t \in Strategies : /\ Withdrawn(t, pos[t]) \in Nat
                            /\ Withdrawn(t, pos[t]) <= pos[t]
                            /\ Withdrawn(t, pos[t])
                                 = IF Withdrawable(t) THEN pos[t] ELSE 0
  BY <1>0, WithdrawnBound
<1>2. Payment(Reach)
  BY <1>1 DEF Payment, Reach
<1>3. \A t \in Strategies : Reach[t] = IF Withdrawable(t) THEN pos[t] ELSE 0
  BY <1>1 DEF Reach
<1>4. ASSUME NEW T \in SUBSET Strategies PROVE SumOf(Reach, T) \in Nat
  <2>1. IsFiniteSet(T)
    BY FS_Subset, NamesAssumption
  <2>2. \A x \in T : Reach[x] \in Nat
    BY <1>2 DEF Payment
  <2> QED BY <2>1, <2>2, SumNat
<1> QED BY <1>2, <1>3, <1>4

\* What ensure_idle still misses when it comes to s.
Short(needed, s) == needed - idle - SumOf(Reach, Before(s))

\* ensure_idle draws within each position, and only on registered strategies.
LEMMA DrainedPays ==
  ASSUME TypeOK, NEW needed \in Nat
  PROVE  /\ Payment(Drained(needed))
         /\ \A s \in Strategies :
              /\ s \notin Registered => Drained(needed)[s] = 0
              /\ Short(needed, s) \in Int
              /\ Drained(needed)[s] =
                   IF s \in Registered /\ Short(needed, s) > 0
                   THEN Withdrawn(s, Short(needed, s)) ELSE 0
<1>1. ASSUME NEW s \in Strategies PROVE Short(needed, s) \in Int
  <2>1. SumOf(Reach, Before(s)) \in Nat
    BY RegistryFinite, ReachNat
  <2> QED BY <2>1 DEF TypeOK, Short
<1>2. Drained(needed) =
        [s \in Strategies |->
           IF s \in Registered /\ Short(needed, s) > 0
           THEN Withdrawn(s, Short(needed, s)) ELSE 0]
  BY DEF Drained, Short, Reach
<1>3. ASSUME NEW s \in Strategies, Short(needed, s) > 0
      PROVE  /\ Withdrawn(s, Short(needed, s)) \in Nat
             /\ Withdrawn(s, Short(needed, s)) <= pos[s]
  <2>1. Short(needed, s) \in Nat
    BY <1>1, <1>3
  <2> QED BY <2>1, WithdrawnBound
<1>4. \A s \in Strategies : pos[s] \in Nat
  BY PosNat
<1>5. Payment(Drained(needed))
  BY <1>2, <1>3, <1>4 DEF Payment
<1> QED BY <1>1, <1>2, <1>5

\* So does a full drain of a set of strategies.
LEMMA DrainAllPays ==
  ASSUME TypeOK, NEW S
  PROVE  /\ Payment(DrainAll(S))
         /\ \A s \in Strategies : s \notin S => DrainAll(S)[s] = 0
<1>0. \A t \in Strategies : pos[t] \in Nat
  BY PosNat
<1>1. \A t \in Strategies : /\ Withdrawn(t, pos[t]) \in Nat
                            /\ Withdrawn(t, pos[t]) <= pos[t]
  BY <1>0, WithdrawnBound
<1> QED BY <1>0, <1>1 DEF DrainAll, Payment

\* The tokens of a payment, in any set of strategies.
LEMMA PaymentSum ==
  ASSUME TypeOK, NEW take, Payment(take), NEW left,
         left = [s \in Strategies |-> pos[s] - take[s]],
         NEW T \in SUBSET Strategies
  PROVE  /\ SumOf(pos, T) = SumOf(left, T) + SumOf(take, T)
         /\ SumOf(left, T) \in Nat /\ SumOf(take, T) \in Nat
<1>1. IsFiniteSet(T)
  BY FS_Subset, NamesAssumption
<1>2. \A x \in T : /\ left[x] \in Nat /\ take[x] \in Nat
                   /\ pos[x] = left[x] + take[x]
  <2>1. \A x \in Strategies : pos[x] \in Nat
    BY PosNat
  <2>2. \A x \in Strategies : take[x] \in Nat /\ take[x] <= pos[x]
    BY DEF Payment
  <2> QED BY <2>1, <2>2
<1>3. SumOf(left, T) \in Nat /\ SumOf(take, T) \in Nat
  BY <1>1, <1>2, SumNat
<1>4. SumOf(pos, T) = SumOf(left, T) + SumOf(take, T)
  BY <1>1, <1>2, SumPlus
<1> QED BY <1>3, <1>4
-----------------------------------------------------------------------------
(* The slices of compound *)

\* Each slice compound offers is within its cash, and so is their sum: the
\* last strategy's remainder is never negative.
LEMMA CutsFit ==
  ASSUME TypeOK, NEW cash \in Nat, NEW took,
         took = [s \in Registered |-> Deposited(s, Cut(s, cash))]
  PROVE  /\ \A s \in Registered : took[s] \in Nat
         /\ SumOf(took, Registered) \in Nat /\ SumOf(took, Registered) <= cash
<1>1. PICK R \in SUBSET Strategies : R = Registered
  BY RegistryFinite
<1>2. IsFiniteSet(R)
  BY <1>1, RegistryFinite
<1>3. PICK total \in Nat : total = SumOf(pos, R)
  BY <1>1, AssetsNat
<1>4. \A s \in R : pos[s] \in Nat
  BY PosNat
<1>5. R # {} => /\ strategies[1] \in R /\ strategies[Len(strategies)] \in R
                /\ Len(strategies) > 0
  <2>1. Len(strategies) \in Nat
    BY DEF TypeOK
  <2> QED BY <1>1, <2>1 DEF Registered
<1>6. PICK cuts : cuts = [s \in R |-> Cut(s, cash)]
  OBVIOUS
<1>7. (\A s \in R : cuts[s] \in Nat) /\ SumOf(cuts, R) <= cash
  <2>1. CASE R = {}
    BY <2>1, SumEmpty
  <2>2. CASE R # {} /\ total = 0
    <3>1. PICK first \in R : first = strategies[1]
      BY <1>5, <2>2
    <3>2. \A s \in R : cuts[s] = IF s = first THEN cash ELSE 0
      BY <1>1, <1>3, <1>6, <2>2, <3>1 DEF Cut
    <3>3. SumOf(cuts, R) = cuts[first] + SumOf(cuts, R \ {first})
      BY <1>2, <3>2, SumRemove
    <3>4. IsFiniteSet(R \ {first})
      BY <1>2, FS_Subset
    <3>5. SumOf(cuts, R \ {first}) = 0
      BY <3>2, <3>4, SumZero
    <3> QED BY <3>2, <3>3, <3>5
  <2>3. CASE R # {} /\ total > 0
    <3>1. PICK last \in R : last = strategies[Len(strategies)]
      BY <1>5, <2>3
    <3>2. PICK share : share = [t \in R |-> (cash * pos[t]) \div total]
      OBVIOUS
    <3>3. \A t \in R : /\ share[t] \in Nat
                       /\ total * share[t] <= cash * pos[t]
      <4> SUFFICES ASSUME NEW t \in R
                   PROVE  share[t] \in Nat /\ total * share[t] <= cash * pos[t]
        OBVIOUS
      <4>1. PICK n \in Nat : n = cash * pos[t]
        BY <1>4
      <4>2. share[t] = n \div total
        BY <3>2, <4>1
      <4> QED BY <2>3, <4>1, <4>2, DivBounds
    <3>4. PICK U \in SUBSET R : U = R \ {last}
      OBVIOUS
    <3>5. IsFiniteSet(U)
      BY <1>2, FS_Subset
    <3>6. PICK k \in Nat : k = SumOf(share, U)
      BY <3>3, <3>5, SumNat
    <3>7. k <= cash
      <4>1. PICK a : a = [t \in U |-> total * share[t]]
        OBVIOUS
      <4>2. PICK b : b = [t \in U |-> cash * pos[t]]
        OBVIOUS
      <4>3. PICK q \in Nat : q = SumOf(pos, U)
        BY <1>4, <3>5, SumNat
      <4>4. q <= total
        BY <1>2, <1>3, <1>4, <4>3, SumPart
      <4>5. SumOf(a, U) = total * k
        <5>1. \A x \in U : share[x] \in Int /\ a[x] = total * share[x]
          BY <3>3, <4>1
        <5> QED BY <3>5, <3>6, <5>1, SumScaled
      <4>6. SumOf(b, U) = cash * q
        <5>1. \A x \in U : pos[x] \in Int /\ b[x] = cash * pos[x]
          BY <1>4, <4>2
        <5> QED BY <3>5, <4>3, <5>1, SumScaled
      <4>7. SumOf(a, U) <= SumOf(b, U)
        <5>1. \A x \in U : a[x] \in Int /\ b[x] \in Int /\ a[x] <= b[x]
          BY <1>4, <3>3, <4>1, <4>2
        <5> QED BY <3>5, <5>1, SumLess
      <4>8. cash * q <= cash * total
        BY <4>4, MulMono
      <4>9. total * k <= total * cash
        <5>1. /\ total * k \in Nat /\ cash * q \in Nat
              /\ cash * total \in Nat /\ cash * total = total * cash
          OBVIOUS
        <5> QED BY <4>5, <4>6, <4>7, <4>8, <5>1
      <4> QED BY <2>3, <4>9, MulCancel
    <3>8. \A s \in R : cuts[s] = IF s = last THEN cash - k ELSE share[s]
      BY <1>1, <1>3, <1>6, <2>3, <3>1, <3>2, <3>4, <3>6 DEF Cut
    <3>9. \A s \in R : cuts[s] \in Nat
      BY <3>3, <3>7, <3>8
    <3>10. SumOf(cuts, R) = cuts[last] + SumOf(cuts, U)
      BY <1>2, <3>4, <3>9, SumRemove
    <3>11. SumOf(cuts, U) = SumOf(share, U)
      <4>1. \A x \in U : cuts[x] \in Int /\ cuts[x] = share[x]
        BY <3>4, <3>8, <3>9
      <4> QED BY <3>5, <4>1, SumSame
    <3>12. cuts[last] = cash - k
      BY <3>8
    <3> QED BY <3>6, <3>9, <3>10, <3>11, <3>12
  <2> QED BY <2>1, <2>2, <2>3
<1>8. \A s \in R : took[s] \in Nat /\ cuts[s] \in Nat /\ took[s] <= cuts[s]
  BY <1>1, <1>6, <1>7 DEF Deposited
<1>9. SumOf(took, R) <= SumOf(cuts, R)
  BY <1>2, <1>8, SumLess
<1>10. SumOf(took, R) \in Nat /\ SumOf(cuts, R) \in Nat
  BY <1>2, <1>8, SumNat
<1> QED BY <1>1, <1>7, <1>8, <1>9, <1>10
-----------------------------------------------------------------------------
(* The invariant of the vault's money, and what a step may do to it *)

\* TypeOK in parts, so that a step is checked against those it writes.
ShareTypes ==
  /\ shares \in [Holders \cup {Vault} -> Nat] /\ supply \in Nat
  /\ wallet \in [Holders -> Nat]

FundTypes ==
  /\ idle \in Nat
  /\ btok \in [Strategies -> Nat] /\ principal \in [Strategies -> Nat]
  /\ blnd \in [Strategies -> Nat]

RegistryTypes ==
  /\ strategies \in Seq(Strategies) /\ Len(strategies) <= MaxStrategies
  /\ \A i, j \in 1..Len(strategies) :
       strategies[i] = strategies[j] => i = j

EnvTypes ==
  /\ now \in Nat /\ b_rate \in [Strategies -> Nat]
  /\ pool \in [Strategies -> PoolModes \cup {"open"}]
  /\ yield \in Nat /\ lost \in Nat

LimitTypes ==
  /\ paused \in BOOLEAN /\ keeper \in Keepers \cup {None}
  /\ cooldown_s \in Nat /\ max_move_bps \in 0..10000
  /\ compound_cooldown_s \in Nat
  /\ last_rebalance \in Nat /\ last_compound \in Nat \cup {None}

LifeboatTypes ==
  /\ derisked \in BOOLEAN /\ mandate_authority \in Authorities \cup {None}
  /\ mandate_expiry \in Nat

CodeTypes ==
  /\ pending \in PendingUpgrade \cup {None} /\ wasm \in Hashes \cup {None}
  /\ announced \in [wasm_hash: Hashes, at: Nat] \cup {None}

LEMMA TypeParts ==
  TypeOK <=> /\ ShareTypes /\ FundTypes /\ RegistryTypes /\ EnvTypes
             /\ LimitTypes /\ LifeboatTypes /\ CodeTypes
BY PTL DEF TypeOK, ShareTypes, FundTypes, RegistryTypes, EnvTypes, LimitTypes,
   LifeboatTypes, CodeTypes

LEMMA TypePartsNext ==
  TypeOK' <=> /\ ShareTypes' /\ FundTypes' /\ RegistryTypes' /\ EnvTypes'
              /\ LimitTypes' /\ LifeboatTypes' /\ CodeTypes'
BY PTL DEF TypeOK, ShareTypes, FundTypes, RegistryTypes, EnvTypes, LimitTypes,
   LifeboatTypes, CodeTypes

\* Parts a step leaves alone.
LEMMA PartsKept ==
  ASSUME TypeOK
  PROVE  /\ UNCHANGED shareVars => ShareTypes'
         /\ UNCHANGED fundVars => FundTypes'
         /\ UNCHANGED strategies => RegistryTypes' /\ Registered' = Registered
         /\ UNCHANGED <<now, b_rate, pool, envVars>> => EnvTypes'
         /\ UNCHANGED <<limitVars, stampVars>> => LimitTypes'
         /\ UNCHANGED lifeboatVars => LifeboatTypes'
         /\ UNCHANGED upgradeVars => CodeTypes'
<1> USE TypeParts
<1>1. UNCHANGED shareVars => ShareTypes'
  BY DEF ShareTypes, shareVars
<1>2. UNCHANGED fundVars => FundTypes'
  BY DEF FundTypes, fundVars
<1>3. UNCHANGED strategies => RegistryTypes' /\ Registered' = Registered
  BY DEF RegistryTypes, Registered
<1>4. UNCHANGED <<now, b_rate, pool, envVars>> => EnvTypes'
  BY DEF EnvTypes, envVars
<1>5. UNCHANGED <<limitVars, stampVars>> => LimitTypes'
  BY DEF LimitTypes, limitVars, stampVars
<1>6. UNCHANGED lifeboatVars => LifeboatTypes'
  BY DEF LifeboatTypes, lifeboatVars
<1>7. UNCHANGED upgradeVars => CodeTypes'
  BY DEF CodeTypes, upgradeVars
<1> QED BY <1>1, <1>2, <1>3, <1>4, <1>5, <1>6, <1>7

\* The limits of a step that only stamps a call's time.
LEMMA LimitsStamped ==
  ASSUME TypeOK, UNCHANGED limitVars, last_rebalance' \in Nat,
         last_compound' \in Nat \cup {None}
  PROVE  LimitTypes'
<1>1. /\ paused' \in BOOLEAN /\ keeper' \in Keepers \cup {None}
      /\ cooldown_s' \in Nat /\ compound_cooldown_s' \in Nat
  BY TypeParts DEF LimitTypes, limitVars
<1>2. max_move_bps' \in 0..10000
  <2>1. max_move_bps' = max_move_bps
    BY DEF limitVars
  <2>2. max_move_bps \in 0..10000
    BY TypeParts DEF LimitTypes
  <2> QED BY <2>1, <2>2
<1> QED BY <1>1, <1>2 DEF LimitTypes

\* The inductive invariant: the share ledger bounds what can be redeemed, so
\* the types need it, and conservation needs the types.
MoneyInv == TypeOK /\ DeadSharesLocked /\ TokensConserved

\* The assets behind a share do not fall in this step, but for the dust.
Undiluted ==
  \/ supply = 0
  \/ LET slack == IF supply' > supply THEN 0 ELSE 2 * SumOf(Dust, Registered)
     IN  (total_assets' + slack) * supply >= total_assets * supply'

\* No strategy is supplied in this step, and the flag falls only in time.
Rescued ==
  derisked => /\ \A s \in Strategies : principal'[s] <= principal[s]
              /\ derisked' \/ now < mandate_expiry

\* All that is shown of a step.
GoodStep == MoneyInv' /\ Undiluted /\ Rescued

\* The funds after a step are natural numbers, too.
LEMMA FundsNat ==
  ASSUME NEW p \in [Strategies -> Nat], NEW T \in SUBSET Strategies
  PROVE  IsFiniteSet(T) /\ SumOf(p, T) \in Nat
<1>1. IsFiniteSet(T)
  BY FS_Subset, NamesAssumption
<1>2. \A x \in T : p[x] \in Nat
  OBVIOUS
<1> QED BY <1>1, <1>2, SumNat

LEMMA PosNatNext ==
  ASSUME FundTypes', EnvTypes'
  PROVE  pos' \in [Strategies -> Nat]
<1>1. \A s \in Strategies : btok'[s] \in Nat /\ b_rate'[s] \in Nat
  BY DEF FundTypes, EnvTypes
<1>2. pos' = [s \in Strategies |-> Underlying(btok'[s], b_rate'[s])]
  BY DEF pos, Underlying
<1> QED BY <1>1, <1>2, UnderlyingNat

LEMMA AssetsNatNext ==
  ASSUME FundTypes', RegistryTypes', EnvTypes'
  PROVE  /\ SumOf(pos', Strategies) \in Nat /\ total_assets' \in Nat
         /\ Registered' \in SUBSET Strategies
         /\ total_assets' = idle' + SumOf(pos', Registered')
<1>1. pos' \in [Strategies -> Nat] /\ idle' \in Nat
  BY PosNatNext DEF FundTypes
<1>2. Registered' \in SUBSET Strategies
  BY DEF RegistryTypes, Registered
<1>3. /\ SumOf(pos', Strategies) \in Nat
      /\ SumOf(pos', Registered') \in Nat
  BY <1>1, <1>2, FundsNat
<1>4. total_assets' = idle' + SumOf(pos', Registered')
  BY DEF total_assets
<1> QED BY <1>1, <1>2, <1>3, <1>4

\* The pools' rounding in one call.
LEMMA DustNat ==
  ASSUME TypeOK
  PROVE  2 * SumOf(Dust, Registered) \in Nat
<1>1. Registered \in SUBSET Strategies /\ Dust \in [Strategies -> Nat]
  BY RegistryFinite, PosNat
<1>2. SumOf(Dust, Registered) \in Nat
  BY <1>1, FundsNat
<1> QED BY <1>2

\* A step that moves no shares and lowers total_assets by dust at most dilutes
\* nobody.
LEMMA AssetsGrow ==
  ASSUME TypeOK, TypeOK', supply' = supply,
         total_assets' + 2 * SumOf(Dust, Registered) >= total_assets
  PROVE  Undiluted
<1>1. PICK a \in Nat : a = total_assets
  BY AssetsNat
<1>2. PICK b \in Nat : b = total_assets'
  BY AssetsNatNext, TypePartsNext
<1>3. PICK n \in Nat : n = supply
  BY TypeParts DEF ShareTypes
<1>4. PICK d \in Nat : d = 2 * SumOf(Dust, Registered)
  BY DustNat
<1>5. n * a <= n * (b + d)
  BY <1>1, <1>2, <1>3, <1>4, MulMono
<1>6. (b + d) * n >= a * n
  BY <1>5
<1>7. ~(supply' > supply)
  BY <1>3
<1> QED BY <1>1, <1>2, <1>3, <1>4, <1>6, <1>7 DEF Undiluted

\* A step between vault and strategies: what idle gains the positions lose,
\* but for dust and for what the environment adds and destroys.
LEMMA FundsMoved ==
  ASSUME MoneyInv, TypeOK', UNCHANGED shareVars,
         idle' + SumOf(pos', Strategies) + lost' + yield
           <= idle + SumOf(pos, Strategies) + lost + yield'
  PROVE  DeadSharesLocked' /\ TokensConserved'
<1>1. PICK w : w = SumOf(wallet, Holders)
  OBVIOUS
<1>2. w \in Nat
  <2>1. \A x \in Holders : wallet[x] \in Nat
    BY TypeParts DEF MoneyInv, ShareTypes
  <2> QED BY <1>1, <2>1, SumNat, NamesAssumption
<1>3. w = SumOf(wallet', Holders)
  BY <1>1 DEF shareVars
<1>4. PICK all \in Nat : all = InitialBalance * Cardinality(Holders)
  BY SharesAssumption, NamesAssumption, FS_CardinalityType
<1>5. w + idle + SumOf(pos, Strategies) + lost <= all + yield
  BY <1>1, <1>4 DEF MoneyInv, TokensConserved
<1>6. /\ idle \in Nat /\ lost \in Nat /\ yield \in Nat
      /\ SumOf(pos, Strategies) \in Nat
  BY TypeParts, AssetsNat DEF MoneyInv, FundTypes, EnvTypes
<1>7. /\ idle' \in Nat /\ lost' \in Nat /\ yield' \in Nat
      /\ SumOf(pos', Strategies) \in Nat
  BY TypePartsNext, AssetsNatNext DEF FundTypes, EnvTypes
<1>8. w + idle' + SumOf(pos', Strategies) + lost' <= all + yield'
  <2>1. PICK i \in Nat, p \in Nat, l \in Nat, y \in Nat :
             /\ i = idle /\ p = SumOf(pos, Strategies)
             /\ l = lost /\ y = yield
    BY <1>6
  <2>2. PICK j \in Nat, q \in Nat, m \in Nat, z \in Nat :
             /\ j = idle' /\ q = SumOf(pos', Strategies)
             /\ m = lost' /\ z = yield'
    BY <1>7
  <2>3. w + i + p + l <= all + y /\ j + q + m + y <= i + p + l + z
    BY <1>5, <2>1, <2>2
  <2>4. w + j + q + m <= all + z
    BY <1>2, <2>3
  <2> QED BY <2>2, <2>4
<1>9. TokensConserved'
  BY <1>3, <1>4, <1>8 DEF TokensConserved
<1>10. DeadSharesLocked'
  BY DEF MoneyInv, DeadSharesLocked, shareVars
<1> QED BY <1>9, <1>10

\* A call that touches no bTokens and no rate leaves the positions.
LEMMA PosKept ==
  ASSUME UNCHANGED <<btok, b_rate>>
  PROVE  pos' = pos
BY DEF pos, Underlying

\* A step that moves no tokens and no shares.
LEMMA MoneyStill ==
  ASSUME MoneyInv, TypeOK', UNCHANGED <<shareVars, fundVars, b_rate, envVars>>
  PROVE  /\ DeadSharesLocked' /\ TokensConserved'
         /\ Registered' = Registered => Undiluted
         /\ \A s \in Strategies : principal'[s] <= principal[s]
<1>0. pos' = pos
  BY PosKept DEF fundVars
<1>1. DeadSharesLocked' /\ TokensConserved'
  BY <1>0 DEF MoneyInv, DeadSharesLocked, TokensConserved, shareVars, fundVars,
     envVars
<1>2. ASSUME Registered' = Registered PROVE Undiluted
  <2>1. total_assets' = total_assets
    BY <1>0, <1>2 DEF total_assets, fundVars
  <2>2. total_assets \in Nat /\ supply' = supply
    BY AssetsNat DEF MoneyInv, shareVars
  <2>3. total_assets' + 2 * SumOf(Dust, Registered) >= total_assets
    BY <2>1, <2>2, DustNat DEF MoneyInv
  <2> QED BY <2>2, <2>3, AssetsGrow DEF MoneyInv
<1>3. \A s \in Strategies : principal[s] \in Nat /\ principal'[s] = principal[s]
  BY TypeParts DEF MoneyInv, FundTypes, fundVars
<1> QED BY <1>1, <1>2, <1>3
-----------------------------------------------------------------------------
(* Holders: deposit, redeem and a plain transfer *)

\* The positions after a step are at most those an exact conversion would
\* leave, and short of them by two conversions' dust at most.
Rounds(exact) ==
  /\ exact \in [Strategies -> Nat]
  /\ \A s \in Strategies : /\ pos'[s] \in Nat /\ pos'[s] <= exact[s]
                          /\ exact[s] <= pos'[s] + 2 * Dust[s]

LEMMA RoundedSum ==
  ASSUME TypeOK, NEW exact, Rounds(exact)
  PROVE  /\ SumOf(exact, Strategies) \in Nat /\ SumOf(pos', Strategies) \in Nat
         /\ SumOf(exact, Registered) \in Nat /\ SumOf(pos', Registered) \in Nat
         /\ SumOf(pos', Strategies) <= SumOf(exact, Strategies)
         /\ SumOf(exact, Registered)
              <= SumOf(pos', Registered) + 2 * SumOf(Dust, Registered)
<1>1. PICK R \in SUBSET Strategies : R = Registered /\ IsFiniteSet(R)
  BY RegistryFinite
<1>2. \A s \in Strategies : /\ exact[s] \in Nat /\ pos'[s] \in Nat
                           /\ Dust[s] \in Nat /\ pos'[s] <= exact[s]
                           /\ exact[s] <= pos'[s] + 2 * Dust[s]
  BY PosNat DEF Rounds
<1>3. SumOf(pos', Strategies) <= SumOf(exact, Strategies)
  BY <1>2, SumLess, NamesAssumption
<1>4. SumOf(exact, Strategies) \in Nat /\ SumOf(pos', Strategies) \in Nat
  BY <1>2, SumNat, NamesAssumption
<1>5. SumOf(exact, R) \in Nat /\ SumOf(pos', R) \in Nat /\ SumOf(Dust, R) \in Nat
  <2>1. \A s \in R : exact[s] \in Nat /\ pos'[s] \in Nat /\ Dust[s] \in Nat
    BY <1>2
  <2> QED BY <1>1, <2>1, SumNat
<1>6. PICK twice : twice = [s \in R |-> 2 * Dust[s]]
  OBVIOUS
<1>7. PICK top : top = [s \in R |-> pos'[s] + twice[s]]
  OBVIOUS
<1>8. \A s \in R : /\ Dust[s] \in Int /\ twice[s] = 2 * Dust[s]
                  /\ twice[s] \in Int /\ pos'[s] \in Int
                  /\ top[s] = pos'[s] + twice[s] /\ top[s] \in Int
                  /\ exact[s] \in Int /\ exact[s] <= top[s]
  BY <1>2, <1>6, <1>7
<1>9. SumOf(twice, R) = 2 * SumOf(Dust, R)
  BY <1>1, <1>8, SumScaled
<1>10. SumOf(top, R) = SumOf(pos', R) + SumOf(twice, R)
  BY <1>1, <1>8, SumPlus
<1>11. SumOf(exact, R) <= SumOf(top, R)
  BY <1>1, <1>8, SumLess
<1>12. SumOf(exact, R) <= SumOf(pos', R) + 2 * SumOf(Dust, R)
  BY <1>9, <1>10, <1>11
<1> QED BY <1>1, <1>3, <1>4, <1>5, <1>12

\* Strategies pay the vault, which pays out of what it then holds.
LEMMA ReceiveFunds ==
  ASSUME TypeOK, NEW take, Payment(take), NEW out \in Nat, b_rate' = b_rate,
         out <= idle + SumOf(take, Strategies), Receive(take, out)
  PROVE  /\ FundTypes'
         /\ \A s \in Strategies : principal'[s] <= principal[s]
         /\ \E exact \in [Strategies -> Nat] :
              /\ Rounds(exact)
              /\ idle' + SumOf(exact, Strategies) + out
                   = idle + SumOf(pos, Strategies)
              /\ \A T \in SUBSET Strategies :
                   idle' + SumOf(exact, T) + out >= idle + SumOf(pos, T)
<1>1. /\ idle \in Nat /\ pos \in [Strategies -> Nat]
      /\ principal \in [Strategies -> Nat] /\ blnd \in [Strategies -> Nat]
  BY TypeParts, PosNat DEF FundTypes
<1>2. /\ take \in [Strategies -> Nat]
      /\ \A s \in Strategies : take[s] <= pos[s]
  BY DEF Payment
<1>3. PICK exact : exact = [s \in Strategies |-> pos[s] - take[s]]
  OBVIOUS
<1>4. btok' \in [Strategies -> Nat] /\ Rounds(exact)
  <2>1. ASSUME NEW s \in Strategies
        PROVE  /\ btok[s] - Burnt(s, take[s]) \in Nat
               /\ Underlying(btok[s] - Burnt(s, take[s]), b_rate[s]) \in Nat
               /\ Underlying(btok[s] - Burnt(s, take[s]), b_rate[s])
                    <= pos[s] - take[s]
               /\ pos[s] - take[s]
                    <= Underlying(btok[s] - Burnt(s, take[s]), b_rate[s])
                         + 2 * Dust[s]
               /\ pos[s] - take[s] \in Nat
    <3>1. PICK n \in Nat, v \in Nat, d \in Nat, r \in Nat :
               n = take[s] /\ v = pos[s] /\ d = Dust[s] /\ r = b_rate[s]
      BY <1>1, <1>2, PosNat
    <3>2. n <= v
      BY <1>2, <3>1
    <3>3. PICK k \in Nat : k = btok[s] - Burnt(s, n)
      BY <3>1, <3>2, WithdrawRounds
    <3>4. PICK u \in Nat : u = Underlying(k, r)
      BY UnderlyingNat
    <3>5. u + n <= v /\ v <= u + n + d
      BY <3>1, <3>2, <3>3, <3>4, WithdrawRounds
    <3>6. u <= v - n /\ v - n <= u + 2 * d /\ v - n \in Nat
      BY <3>2, <3>5
    <3> QED BY <3>1, <3>3, <3>4, <3>6
  <2>2. btok' = [s \in Strategies |-> btok[s] - Burnt(s, take[s])]
    BY DEF Receive
  <2>3. btok' \in [Strategies -> Nat]
    BY <2>1, <2>2
  <2>4. \A s \in Strategies : pos'[s] = Underlying(btok'[s], b_rate[s])
    BY DEF pos, Underlying
  <2>5. \A s \in Strategies :
          pos'[s] = Underlying(btok[s] - Burnt(s, take[s]), b_rate[s])
    BY <2>2, <2>4
  <2>6. exact \in [Strategies -> Nat]
        /\ \A s \in Strategies : exact[s] = pos[s] - take[s]
    BY <1>3, <2>1
  <2>7. Rounds(exact)
    BY <2>1, <2>5, <2>6 DEF Rounds
  <2> QED BY <2>3, <2>7
<1>5. /\ principal' \in [Strategies -> Nat]
      /\ \A s \in Strategies : principal'[s] <= principal[s]
  <2>1. principal' = [s \in Strategies |-> BookLess(s, take[s])]
    BY DEF Receive
  <2>2. \A s \in Strategies : /\ BookLess(s, take[s]) \in Nat
                              /\ BookLess(s, take[s]) <= principal[s]
    BY <1>1, <1>2 DEF BookLess
  <2> QED BY <2>1, <2>2
<1>6. PICK t \in Nat : t = SumOf(take, Strategies)
  BY <1>2, FundsNat
<1>7. idle' = idle + t - out /\ idle' \in Nat
  BY <1>1, <1>6 DEF Receive
<1>8. blnd' \in [Strategies -> Nat]
  BY <1>1 DEF Receive
<1>9. ASSUME NEW T \in SUBSET Strategies
      PROVE  /\ SumOf(pos, T) = SumOf(exact, T) + SumOf(take, T)
             /\ SumOf(exact, T) \in Nat /\ SumOf(take, T) \in Nat
             /\ SumOf(take, T) <= t
  <2>1. /\ SumOf(pos, T) = SumOf(exact, T) + SumOf(take, T)
        /\ SumOf(exact, T) \in Nat /\ SumOf(take, T) \in Nat
    BY <1>3, PaymentSum
  <2>2. \A x \in Strategies : take[x] \in Nat
    BY <1>2
  <2>3. SumOf(take, T) <= t
    BY <1>6, <2>2, SumPart, NamesAssumption
  <2> QED BY <2>1, <2>3
<1>10. ASSUME NEW T \in SUBSET Strategies
       PROVE  idle' + SumOf(exact, T) + out >= idle + SumOf(pos, T)
  <2>1. PICK a \in Nat, b \in Nat : a = SumOf(exact, T) /\ b = SumOf(take, T)
    BY <1>9
  <2>2. SumOf(pos, T) = a + b /\ b <= t
    BY <1>9, <2>1
  <2>3. idle' + a + out >= idle + (a + b)
    BY <1>1, <1>7, <2>2
  <2> QED BY <2>1, <2>2, <2>3
<1>11. idle' + SumOf(exact, Strategies) + out = idle + SumOf(pos, Strategies)
  <2>1. PICK a \in Nat : a = SumOf(exact, Strategies)
    BY <1>9
  <2>2. SumOf(pos, Strategies) = a + t
    BY <1>6, <1>9, <2>1
  <2>3. idle' + a + out = idle + (a + t)
    BY <1>1, <1>7
  <2> QED BY <2>1, <2>2, <2>3
<1> QED BY <1>4, <1>5, <1>7, <1>8, <1>10, <1>11 DEF FundTypes, Rounds

\* One entry of a ledger rewritten.
LEMMA EntryWritten ==
  ASSUME NEW S, IsFiniteSet(S), NEW f \in [S -> Nat], NEW x \in S,
         NEW g \in [S -> Nat], \A y \in S : y # x => g[y] = f[y]
  PROVE  /\ SumOf(f, S) \in Nat /\ SumOf(g, S) \in Nat
         /\ SumOf(g, S) + f[x] = SumOf(f, S) + g[x]
<1>1. \A y \in S : f[y] \in Nat /\ g[y] \in Nat
  OBVIOUS
<1>2. SumOf(f, S) \in Nat /\ SumOf(g, S) \in Nat
  BY <1>1, SumNat
<1>3. \A y \in S : f[y] \in Int /\ g[y] \in Int
  BY <1>1
<1>4. SumOf(g, S) = SumOf(f, S) + (g[x] - f[x])
  BY <1>3, SumChange
<1>5. PICK a \in Nat, b \in Nat, c \in Nat, d \in Nat :
           /\ a = SumOf(f, S) /\ b = SumOf(g, S)
           /\ c = f[x] /\ d = g[x]
  BY <1>1, <1>2
<1>6. b = a + (d - c)
  BY <1>4, <1>5
<1>7. b + c = a + d
  BY <1>6
<1> QED BY <1>2, <1>5, <1>7

LEMMA AmountPositive ==
  ASSUME NEW n \in Amounts
  PROVE  n \in Nat /\ n > 0
BY AmountsAssumption

\* Tokens between a wallet and the vault.
LEMMA WalletsMoved ==
  ASSUME MoneyInv, TypeOK', UNCHANGED envVars,
         SumOf(wallet', Holders) + idle' + SumOf(pos', Strategies)
           <= SumOf(wallet, Holders) + idle + SumOf(pos, Strategies)
  PROVE  TokensConserved'
<1>1. PICK a \in Nat :
        a = SumOf(wallet, Holders) + idle + SumOf(pos, Strategies)
  <2>1. \A x \in Holders : wallet[x] \in Nat
    BY TypeParts DEF MoneyInv, ShareTypes
  <2>2. SumOf(wallet, Holders) \in Nat
    BY <2>1, SumNat, NamesAssumption
  <2>3. SumOf(pos, Strategies) \in Nat /\ idle \in Nat
    BY AssetsNat, TypeParts DEF MoneyInv, FundTypes
  <2> QED BY <2>2, <2>3
<1>2. PICK b \in Nat :
        /\ b = SumOf(wallet', Holders) + idle' + SumOf(pos', Strategies)
        /\ b <= a
  <2>1. \A x \in Holders : wallet'[x] \in Nat
    BY TypePartsNext DEF ShareTypes
  <2>2. SumOf(wallet', Holders) \in Nat
    BY <2>1, SumNat, NamesAssumption
  <2>3. SumOf(pos', Strategies) \in Nat /\ idle' \in Nat
    BY AssetsNatNext, TypePartsNext DEF FundTypes
  <2> QED BY <1>1, <2>2, <2>3
<1>3. PICK all \in Nat, l \in Nat, y \in Nat :
           /\ all = InitialBalance * Cardinality(Holders)
           /\ l = lost /\ y = yield
  BY SharesAssumption, NamesAssumption, FS_CardinalityType, TypeParts
  DEF MoneyInv, EnvTypes
<1>4. a + l <= all + y
  BY <1>1, <1>3 DEF MoneyInv, TokensConserved
<1>5. b + l <= all + y
  BY <1>2, <1>4
<1>6. lost' = lost /\ yield' = yield
  BY DEF envVars
<1> QED BY <1>2, <1>3, <1>5, <1>6 DEF TokensConserved

\* The prices: minting and paying out round in favour of those who stay.
LEMMA DepositPrice ==
  ASSUME NEW A \in Nat, NEW n \in Nat, NEW S \in Nat, NEW m \in Nat,
         A * m <= n * S
  PROVE  (A + n) * S >= A * (S + m)
<1>1. (A + n) * S = A * S + n * S
  OBVIOUS
<1>2. A * (S + m) = A * S + A * m
  OBVIOUS
<1>3. A * S \in Nat /\ n * S \in Nat /\ A * m \in Nat
  OBVIOUS
<1> QED BY <1>1, <1>2, <1>3

LEMMA RedeemPrice ==
  ASSUME NEW A \in Nat, NEW B \in Nat, NEW P \in Nat, NEW S \in Nat,
         NEW n \in Nat, NEW m \in Nat,
         S = m + n, B + P >= A, S * P <= n * A
  PROVE  B * S >= A * m
<1>1. S * A <= S * (B + P)
  BY MulMono
<1>2. S * (B + P) = S * B + S * P
  OBVIOUS
<1>3. S * A = m * A + n * A
  OBVIOUS
<1>4. /\ S * A \in Nat /\ S * B \in Nat /\ S * P \in Nat
      /\ m * A \in Nat /\ n * A \in Nat
  OBVIOUS
<1>5. S * B >= m * A
  BY <1>1, <1>2, <1>3, <1>4
<1> QED BY <1>5

\* What every holder step leaves alone.
HolderFrame ==
  UNCHANGED <<now, strategies, b_rate, pool, limitVars, stampVars,
              lifeboatVars, upgradeVars, envVars>>

LEMMA HolderTypes ==
  ASSUME TypeOK, HolderFrame, ShareTypes', FundTypes'
  PROVE  TypeOK' /\ Registered' = Registered
<1>1. RegistryTypes' /\ Registered' = Registered
  BY PartsKept DEF HolderFrame
<1>2. EnvTypes' /\ LimitTypes' /\ LifeboatTypes' /\ CodeTypes'
  BY PartsKept DEF HolderFrame
<1> QED BY <1>1, <1>2, TypePartsNext

\* A step by a holder turns neither the flag nor, but downwards, a book.
LEMMA HolderRescued ==
  ASSUME HolderFrame, \A s \in Strategies : principal'[s] <= principal[s]
  PROVE  Rescued
BY DEF HolderFrame, Rescued, lifeboatVars

LEMMA DonateGood ==
  ASSUME MoneyInv, NEW h \in Holders, NEW n \in Amounts, Donate(h, n)
  PROVE  GoodStep
<1>1. TypeOK /\ ShareTypes /\ FundTypes /\ n \in Nat
  BY TypeParts, AmountPositive DEF MoneyInv
<1>2. PICK v \in Nat : v = wallet[h] - n
  <2>1. wallet[h] \in Nat /\ n <= wallet[h]
    BY <1>1 DEF Donate, ShareTypes
  <2> QED BY <1>1, <2>1
<1>3. /\ wallet \in [Holders -> Nat] /\ wallet' \in [Holders -> Nat]
      /\ SumOf(wallet, Holders) \in Nat /\ SumOf(wallet', Holders) \in Nat
      /\ SumOf(wallet', Holders) + wallet[h] = SumOf(wallet, Holders) + v
  <2>1. wallet \in [Holders -> Nat]
    BY <1>1 DEF ShareTypes
  <2>2. wallet' = [wallet EXCEPT ![h] = v]
    BY <1>2 DEF Donate
  <2>3. /\ wallet' \in [Holders -> Nat] /\ wallet'[h] = v
        /\ \A y \in Holders : y # h => wallet'[y] = wallet[y]
    BY <2>1, <2>2
  <2> QED BY <2>1, <2>3, EntryWritten, NamesAssumption
<1>4. /\ shares' = shares /\ supply' = supply /\ idle' = idle + n
      /\ pos' = pos /\ btok' = btok /\ principal' = principal
      /\ blnd' = blnd /\ HolderFrame /\ UNCHANGED envVars
  BY PosKept DEF Donate, HolderFrame
<1>5. ShareTypes' /\ FundTypes'
  BY <1>1, <1>3, <1>4 DEF ShareTypes, FundTypes
<1>6. TypeOK' /\ Registered' = Registered
  BY <1>1, <1>4, <1>5, HolderTypes
<1>7. idle \in Nat /\ SumOf(pos, Strategies) \in Nat /\ SumOf(pos, Registered) \in Nat
  BY <1>1, AssetsNat, RegistryFinite DEF FundTypes
<1>8. SumOf(wallet', Holders) + idle' + SumOf(pos', Strategies)
        <= SumOf(wallet, Holders) + idle + SumOf(pos, Strategies)
  <2>1. PICK a \in Nat, b \in Nat, c \in Nat, w \in Nat :
             /\ a = SumOf(wallet, Holders) /\ b = SumOf(wallet', Holders)
             /\ c = SumOf(pos, Strategies) /\ w = wallet[h]
    BY <1>3, <1>7
  <2>2. b + w = a + v /\ v = w - n
    BY <1>2, <1>3, <2>1
  <2>3. b + (idle + n) + c = a + idle + c
    BY <1>1, <1>7, <2>2
  <2> QED BY <1>4, <1>7, <2>1, <2>3
<1>9. TokensConserved'
  BY <1>4, <1>6, <1>8, WalletsMoved
<1>10. DeadSharesLocked'
  BY <1>4 DEF MoneyInv, DeadSharesLocked
<1>11. total_assets' + 2 * SumOf(Dust, Registered) >= total_assets
  <2>1. total_assets' = (idle + n) + SumOf(pos, Registered)
    BY <1>4, <1>6 DEF total_assets
  <2>2. PICK d \in Nat : d = 2 * SumOf(Dust, Registered)
    BY <1>1, DustNat
  <2> QED BY <1>1, <1>7, <2>1, <2>2 DEF total_assets
<1>12. Undiluted
  BY <1>1, <1>4, <1>6, <1>11, AssetsGrow
<1>13. Rescued
  <2>1. \A s \in Strategies : principal'[s] <= principal[s]
    BY <1>1, <1>4 DEF FundTypes
  <2> QED BY <1>4, <2>1, HolderRescued
<1> QED BY <1>6, <1>9, <1>10, <1>12, <1>13 DEF GoodStep, MoneyInv

\* What a redemption pays: a holder owns at most the supply, and the payout
\* is rounded down.
LEMMA PayoutFacts ==
  ASSUME MoneyInv, NEW h \in Holders, NEW n \in Nat, n > 0, n <= shares[h]
  PROVE  /\ n <= supply /\ supply > 0
         /\ shares[Vault] = DeadShares /\ shares[h] + DeadShares <= supply
         /\ Payout(n) \in Nat /\ supply * Payout(n) <= n * total_assets
<1>1. shares \in [Holders \cup {Vault} -> Nat] /\ supply \in Nat
  BY TypeParts DEF MoneyInv, ShareTypes
<1>2. IsFiniteSet(Holders \cup {Vault}) /\ h # Vault
  BY NamesAssumption, FS_AddElement
<1>3. PICK U : U = (Holders \cup {Vault}) \ {Vault}
  OBVIOUS
<1>4. U = Holders
  BY <1>3, NamesAssumption
<1>5. \A x \in Holders \cup {Vault} : shares[x] \in Nat
  BY <1>1
<1>6. SumOf(shares, Holders \cup {Vault}) = shares[Vault] + SumOf(shares, Holders)
  <2>1. \A x \in Holders \cup {Vault} : shares[x] \in Int
    BY <1>5
  <2> QED BY <1>2, <1>3, <1>4, <2>1, SumRemove
<1>7. shares[h] <= SumOf(shares, Holders)
  BY <1>5, SumAtLeast, NamesAssumption
<1>8. SumOf(shares, Holders) \in Nat
  BY <1>5, SumNat, NamesAssumption
<1>9. /\ supply = shares[Vault] + SumOf(shares, Holders)
      /\ shares[Vault] = IF supply = 0 THEN 0 ELSE DeadShares
  BY <1>6 DEF MoneyInv, DeadSharesLocked
<1>10. supply >= shares[h] /\ supply > 0
  <2>1. PICK a \in Nat, b \in Nat, c \in Nat :
             a = shares[Vault] /\ b = SumOf(shares, Holders) /\ c = shares[h]
    BY <1>5, <1>8
  <2>2. supply = a + b /\ c <= b /\ n <= c
    BY <1>7, <1>9, <2>1
  <2> QED BY <2>1, <2>2
<1>11. shares[Vault] = DeadShares /\ shares[h] + DeadShares <= supply
  BY <1>5, <1>7, <1>8, <1>9, <1>10, SharesAssumption
<1>12. PICK a \in Nat : a = n * total_assets
  BY AssetsNat DEF MoneyInv
<1>13. Payout(n) \in Nat /\ supply * Payout(n) <= a
  BY <1>1, <1>10, <1>12, DivBounds DEF Payout
<1> QED BY <1>1, <1>5, <1>10, <1>11, <1>12, <1>13

LEMMA RedeemGood ==
  ASSUME MoneyInv, NEW h \in Holders, NEW n \in Amounts, redeem(h, n)
  PROVE  GoodStep
<1>1. TypeOK /\ ShareTypes /\ FundTypes /\ n \in Nat /\ n > 0
  BY TypeParts, AmountPositive DEF MoneyInv
<1>2. n <= shares[h] /\ Covered(Payout(n)) /\ Receive(Drained(Payout(n)), Payout(n))
  BY DEF redeem, RedeemAllowed
<1>3. /\ n <= supply /\ supply > 0
      /\ shares[Vault] = DeadShares /\ shares[h] + DeadShares <= supply
      /\ Payout(n) \in Nat /\ supply * Payout(n) <= n * total_assets
  BY <1>1, <1>2, PayoutFacts
<1>4. PICK P \in Nat : P = Payout(n)
  BY <1>3
<1>5. Payment(Drained(P))
  BY <1>1, DrainedPays
<1>6. P <= idle + SumOf(Drained(P), Strategies)
  <2>1. SumOf(Drained(P), Strategies) \in Nat /\ idle \in Nat
    BY <1>1, <1>5, FundsNat DEF Payment, FundTypes
  <2> QED BY <1>2, <1>4, <2>1 DEF Covered
<1>7. /\ FundTypes'
      /\ \A s \in Strategies : principal'[s] <= principal[s]
      /\ \E exact \in [Strategies -> Nat] :
           /\ Rounds(exact)
           /\ idle' + SumOf(exact, Strategies) + P = idle + SumOf(pos, Strategies)
           /\ \A T \in SUBSET Strategies :
                idle' + SumOf(exact, T) + P >= idle + SumOf(pos, T)
  <2>1. Receive(Drained(P), P) /\ b_rate' = b_rate
    BY <1>2, <1>4 DEF redeem
  <2> QED BY <1>1, <1>5, <1>6, <2>1, ReceiveFunds
<1>7a. PICK exact \in [Strategies -> Nat] :
           /\ Rounds(exact)
           /\ idle' + SumOf(exact, Strategies) + P = idle + SumOf(pos, Strategies)
           /\ idle' + SumOf(exact, Registered) + P >= idle + SumOf(pos, Registered)
  <2>1. Registered \in SUBSET Strategies
    BY <1>1, RegistryFinite
  <2> QED BY <1>7, <2>1
<1>8. /\ shares' = [shares EXCEPT ![h] = shares[h] - n]
      /\ supply' = supply - n
      /\ wallet' = [wallet EXCEPT ![h] = wallet[h] + P]
      /\ HolderFrame /\ UNCHANGED envVars
  BY <1>4 DEF redeem, HolderFrame
<1>9. /\ wallet' \in [Holders -> Nat]
      /\ SumOf(wallet, Holders) \in Nat /\ SumOf(wallet', Holders) \in Nat
      /\ SumOf(wallet', Holders) = SumOf(wallet, Holders) + P
  <2>1. wallet \in [Holders -> Nat]
    BY <1>1 DEF ShareTypes
  <2>2. PICK v \in Nat : v = wallet[h] + P
    BY <2>1
  <2>3. /\ wallet' \in [Holders -> Nat]
        /\ SumOf(wallet, Holders) \in Nat /\ SumOf(wallet', Holders) \in Nat
        /\ SumOf(wallet', Holders) + wallet[h] = SumOf(wallet, Holders) + v
    <3>1. wallet' = [wallet EXCEPT ![h] = v]
      BY <1>8, <2>2
    <3>2. /\ wallet' \in [Holders -> Nat] /\ wallet'[h] = v
          /\ \A y \in Holders : y # h => wallet'[y] = wallet[y]
      BY <2>1, <3>1
    <3> QED BY <2>1, <3>2, EntryWritten, NamesAssumption
  <2>4. PICK a \in Nat, b \in Nat, w \in Nat :
             /\ a = SumOf(wallet, Holders) /\ b = SumOf(wallet', Holders)
             /\ w = wallet[h]
    BY <2>1, <2>3
  <2>5. b = a + P
    BY <2>2, <2>3, <2>4
  <2> QED BY <2>3, <2>4, <2>5
<1>10. PICK S : S = Holders \cup {Vault}
  OBVIOUS
<1>11. IsFiniteSet(S) /\ h \in S /\ h # Vault /\ Vault \in S
  BY <1>10, NamesAssumption, FS_AddElement
<1>12. /\ shares' \in [S -> Nat] /\ supply' \in Nat
       /\ supply' = SumOf(shares', S)
       /\ shares'[Vault] = DeadShares /\ supply' # 0
  <2>1. shares \in [S -> Nat] /\ supply \in Nat
    BY <1>1, <1>10 DEF ShareTypes
  <2>2. PICK v \in Nat : v = shares[h] - n
    BY <1>1, <1>2, <1>11, <2>1
  <2>3. /\ shares' \in [S -> Nat]
        /\ SumOf(shares, S) \in Nat /\ SumOf(shares', S) \in Nat
        /\ SumOf(shares', S) + shares[h] = SumOf(shares, S) + v
    <3>1. shares' = [shares EXCEPT ![h] = v]
      BY <1>8, <2>2
    <3>2. /\ shares' \in [S -> Nat] /\ shares'[h] = v
          /\ \A y \in S : y # h => shares'[y] = shares[y]
      BY <1>11, <2>1, <3>1
    <3> QED BY <1>11, <2>1, <3>2, EntryWritten
  <2>4. supply = SumOf(shares, S)
    BY <1>10 DEF MoneyInv, DeadSharesLocked
  <2>5. PICK b \in Nat, w \in Nat : b = SumOf(shares', S) /\ w = shares[h]
    BY <1>11, <2>1, <2>3
  <2>6. b = supply - n
    BY <1>1, <2>1, <2>2, <2>3, <2>4, <2>5
  <2>7. supply' \in Nat /\ supply' = b
    BY <1>8, <2>6
  <2>8. shares'[Vault] = shares[Vault]
    BY <1>8, <1>11, <2>1
  <2>9. supply' # 0
    <3>1. w + DeadShares <= supply /\ n <= w /\ supply \in Nat
      BY <1>2, <1>3, <2>1, <2>5
    <3>2. b > 0
      BY <1>1, <2>6, <3>1, SharesAssumption
    <3> QED BY <2>7, <3>2
  <2> QED BY <1>3, <2>3, <2>5, <2>7, <2>8, <2>9
<1>13. ShareTypes'
  BY <1>9, <1>10, <1>12 DEF ShareTypes
<1>14. TypeOK' /\ Registered' = Registered
  BY <1>1, <1>7, <1>8, <1>13, HolderTypes
<1>15. DeadSharesLocked'
  BY <1>10, <1>12 DEF DeadSharesLocked
<1>16. TokensConserved'
  <2>1. PICK a \in Nat, c \in Nat, i \in Nat, j \in Nat :
             /\ a = SumOf(wallet, Holders) /\ c = SumOf(pos, Strategies)
             /\ i = idle /\ j = idle'
    BY <1>1, <1>7, <1>9, AssetsNat DEF FundTypes
  <2>2. PICK d \in Nat, e \in Nat :
             /\ d = SumOf(pos', Strategies) /\ e = SumOf(exact, Strategies)
             /\ d <= e
    BY <1>1, <1>7a, RoundedSum
  <2>3. j + e + P = i + c
    BY <1>7a, <2>1, <2>2
  <2>3a. (a + P) + j + d <= a + i + c
    BY <2>2, <2>3
  <2>4. SumOf(wallet', Holders) + idle' + SumOf(pos', Strategies)
          <= SumOf(wallet, Holders) + idle + SumOf(pos, Strategies)
    BY <1>9, <2>1, <2>2, <2>3a
  <2> QED BY <1>8, <1>14, <2>4, WalletsMoved
<1>17. Undiluted
  <2>1. PICK A \in Nat : A = total_assets
    BY <1>1, AssetsNat
  <2>2. PICK B \in Nat : B = total_assets'
    BY <1>14, AssetsNatNext, TypePartsNext
  <2>3a. PICK d \in Nat : d = 2 * SumOf(Dust, Registered)
    BY <1>1, DustNat
  <2>3. (B + d) + P >= A
    <3>1. B = idle' + SumOf(pos', Registered)
      BY <1>14, <2>2 DEF total_assets
    <3>2. PICK e \in Nat, f \in Nat, j \in Nat :
               /\ e = SumOf(exact, Registered) /\ f = SumOf(pos', Registered)
               /\ e <= f + d /\ j = idle'
      BY <1>1, <1>7, <1>7a, <2>3a, RoundedSum DEF FundTypes
    <3>3. j + e + P >= A
      BY <1>7a, <2>1, <3>2 DEF total_assets
    <3> QED BY <3>1, <3>2, <3>3
  <2>4. PICK x \in Nat, m \in Nat : x = supply /\ m = supply'
    BY <1>1, <1>12 DEF ShareTypes
  <2>5. x = m + n
    BY <1>1, <1>8, <2>4
  <2>6. (B + d) * x >= A * m
    <3>1. B + d \in Nat
      OBVIOUS
    <3> QED BY <1>1, <1>3, <1>4, <2>1, <2>3, <2>4, <2>5, <3>1, RedeemPrice
  <2>7. ~(supply' > supply)
    <3>1. ~(m > x)
      BY <1>1, <2>5
    <3> QED BY <2>4, <3>1
  <2> QED BY <2>1, <2>2, <2>3a, <2>4, <2>6, <2>7 DEF Undiluted
<1>18. Rescued
  BY <1>7, <1>8, HolderRescued
<1> QED BY <1>14, <1>15, <1>16, <1>17, <1>18 DEF GoodStep, MoneyInv

\* What a deposit mints: a positive number, priced in favour of those who are
\* in already.
LEMMA MintFacts ==
  ASSUME MoneyInv, NEW h \in Holders, NEW n \in Nat, DepositAllowed(h, n)
  PROVE  /\ SharesFor(n) \in Nat /\ SharesFor(n) > 0
         /\ supply # 0 => total_assets * SharesFor(n) <= n * supply
<1>1. supply \in Nat /\ total_assets \in Nat
  BY TypeParts, AssetsNat DEF MoneyInv, ShareTypes
<1>2. SharesFor(n) > 0
  BY DEF DepositAllowed
<1>3. CASE supply = 0
  BY <1>2, <1>3, SharesAssumption DEF SharesFor
<1>4. CASE supply # 0
  <2>1. total_assets > 0
    BY <1>4 DEF DepositAllowed
  <2>2. PICK a \in Nat : a = n * supply
    BY <1>1
  <2>3. SharesFor(n) = a \div total_assets
    BY <1>4, <2>2 DEF SharesFor
  <2> QED BY <1>1, <1>2, <2>1, <2>2, <2>3, DivBounds
<1> QED BY <1>3, <1>4

LEMMA DepositGood ==
  ASSUME MoneyInv, NEW h \in Holders, NEW n \in Amounts, deposit(h, n)
  PROVE  GoodStep
<1>1. TypeOK /\ ShareTypes /\ FundTypes /\ n \in Nat
  BY TypeParts, AmountPositive DEF MoneyInv
<1>2. DepositAllowed(h, n)
  BY DEF deposit
<1>3. PICK m \in Nat : m = SharesFor(n)
  BY <1>1, <1>2, MintFacts
<1>4. m > 0 /\ (supply # 0 => total_assets * m <= n * supply)
  BY <1>1, <1>2, <1>3, MintFacts
<1>5. PICK dead \in Nat : dead = IF supply = 0 THEN DeadShares ELSE 0
  BY SharesAssumption
<1>6. /\ shares' = [shares EXCEPT ![h] = @ + m, ![Vault] = @ + dead]
      /\ supply' = supply + m + dead
      /\ wallet' = [wallet EXCEPT ![h] = wallet[h] - n]
      /\ idle' = idle + n /\ pos' = pos /\ btok' = btok
      /\ principal' = principal /\ blnd' = blnd /\ HolderFrame
      /\ UNCHANGED envVars
  BY <1>3, <1>5, PosKept DEF deposit, HolderFrame
<1>7. /\ wallet' \in [Holders -> Nat]
      /\ SumOf(wallet, Holders) \in Nat /\ SumOf(wallet', Holders) \in Nat
      /\ SumOf(wallet', Holders) + n = SumOf(wallet, Holders)
  <2>1. wallet \in [Holders -> Nat]
    BY <1>1 DEF ShareTypes
  <2>2. n <= wallet[h]
    BY <1>2 DEF DepositAllowed
  <2>3. PICK v \in Nat, w \in Nat : v = w - n /\ w = wallet[h]
    BY <1>1, <2>1, <2>2
  <2>4. wallet' = [wallet EXCEPT ![h] = v]
    BY <1>6, <2>3
  <2>5. /\ wallet' \in [Holders -> Nat] /\ wallet'[h] = v
        /\ \A y \in Holders : y # h => wallet'[y] = wallet[y]
    BY <2>1, <2>4
  <2>6. /\ SumOf(wallet, Holders) \in Nat /\ SumOf(wallet', Holders) \in Nat
        /\ SumOf(wallet', Holders) + wallet[h] = SumOf(wallet, Holders) + v
    BY <2>1, <2>5, EntryWritten, NamesAssumption
  <2>7. PICK a \in Nat, b \in Nat :
             a = SumOf(wallet, Holders) /\ b = SumOf(wallet', Holders)
    BY <2>6
  <2>8. b + n = a
    BY <1>1, <2>3, <2>6, <2>7
  <2> QED BY <2>5, <2>6, <2>7, <2>8
<1>8. PICK S : S = Holders \cup {Vault}
  OBVIOUS
<1>9. IsFiniteSet(S) /\ h \in S /\ h # Vault /\ Vault \in S
  BY <1>8, NamesAssumption, FS_AddElement
<1>10. /\ shares \in [S -> Nat] /\ supply \in Nat /\ supply = SumOf(shares, S)
       /\ shares[Vault] = IF supply = 0 THEN 0 ELSE DeadShares
  BY <1>1, <1>8 DEF ShareTypes, MoneyInv, DeadSharesLocked
<1>11. PICK mid \in [S -> Nat] :
            /\ mid[h] = shares[h] + m
            /\ \A y \in S : y # h => mid[y] = shares[y]
  <2>1. PICK v \in Nat : v = shares[h] + m
    BY <1>9, <1>10
  <2>2. PICK f \in [S -> Nat] : f = [shares EXCEPT ![h] = v]
    BY <1>10
  <2>3. f[h] = v /\ \A y \in S : y # h => f[y] = shares[y]
    BY <1>9, <1>10, <2>2
  <2> QED BY <2>1, <2>3
<1>12. /\ shares' \in [S -> Nat]
       /\ shares'[Vault] = shares[Vault] + dead
       /\ \A y \in S : y # Vault => shares'[y] = mid[y]
  BY <1>6, <1>9, <1>10, <1>11
<1>13. SumOf(mid, S) = supply + m
  <2>1. /\ SumOf(mid, S) \in Nat
        /\ SumOf(mid, S) + shares[h] = SumOf(shares, S) + mid[h]
    BY <1>9, <1>10, <1>11, EntryWritten
  <2>2. PICK a \in Nat, b \in Nat : a = SumOf(mid, S) /\ b = shares[h]
    BY <1>9, <1>10, <2>1
  <2>3. a + b = supply + (b + m)
    BY <1>10, <1>11, <2>1, <2>2
  <2>4. a = supply + m
    BY <1>10, <2>3
  <2> QED BY <2>2, <2>4
<1>14. SumOf(shares', S) = supply + m + dead
  <2>1. /\ SumOf(shares', S) \in Nat
        /\ SumOf(shares', S) + mid[Vault] = SumOf(mid, S) + shares'[Vault]
    <3>1. mid \in [S -> Nat] /\ shares' \in [S -> Nat] /\ Vault \in S
      BY <1>9, <1>11, <1>12
    <3> QED BY <1>9, <1>12, <3>1, EntryWritten
  <2>2. PICK a \in Nat, b \in Nat :
             a = SumOf(shares', S) /\ b = shares[Vault] /\ b = mid[Vault]
    BY <1>9, <1>10, <1>11, <2>1
  <2>3. a + b = (supply + m) + (b + dead)
    BY <1>12, <1>13, <2>1, <2>2
  <2>4. a = supply + m + dead
    BY <1>10, <2>3
  <2> QED BY <2>2, <2>4
<1>15. /\ supply' \in Nat /\ supply' # 0 /\ supply' = SumOf(shares', S)
       /\ shares'[Vault] = DeadShares
  <2>1. supply' \in Nat /\ supply' # 0 /\ supply' = SumOf(shares', S)
    BY <1>4, <1>6, <1>10, <1>14
  <2>2. shares'[Vault] = DeadShares
    BY <1>5, <1>10, <1>12, SharesAssumption
  <2> QED BY <2>1, <2>2
<1>16. ShareTypes' /\ FundTypes'
  BY <1>1, <1>6, <1>7, <1>8, <1>12, <1>15 DEF ShareTypes, FundTypes
<1>17. TypeOK' /\ Registered' = Registered
  BY <1>1, <1>6, <1>16, HolderTypes
<1>18. DeadSharesLocked'
  BY <1>8, <1>15 DEF DeadSharesLocked
<1>19. TokensConserved'
  <2>1. PICK a \in Nat, b \in Nat, c \in Nat, i \in Nat :
             /\ a = SumOf(wallet, Holders) /\ b = SumOf(wallet', Holders)
             /\ c = SumOf(pos, Strategies) /\ i = idle
    BY <1>1, <1>7, AssetsNat DEF FundTypes
  <2>2. b + (i + n) + c = a + i + c
    BY <1>1, <1>7, <2>1
  <2>3. SumOf(wallet', Holders) + idle' + SumOf(pos', Strategies)
          <= SumOf(wallet, Holders) + idle + SumOf(pos, Strategies)
    BY <1>6, <2>1, <2>2
  <2> QED BY <1>6, <1>17, <2>3, WalletsMoved
<1>20. Undiluted
  <2>1. CASE supply = 0
    BY <2>1 DEF Undiluted
  <2>2. CASE supply # 0
    <3>1. PICK A \in Nat, x \in Nat : A = total_assets /\ x = supply
      BY <1>1, <1>10, AssetsNat
    <3>2. total_assets' = A + n
      <4>1. total_assets' = (idle + n) + SumOf(pos, Registered)
        BY <1>6, <1>17 DEF total_assets
      <4>2. idle \in Nat /\ SumOf(pos, Registered) \in Nat
        BY <1>1, AssetsNat, RegistryFinite DEF FundTypes
      <4> QED BY <1>1, <3>1, <4>1, <4>2 DEF total_assets
    <3>3. supply' = x + m
      BY <1>3, <1>5, <1>6, <2>2, <3>1
    <3>4. A * m <= n * x
      BY <1>4, <2>2, <3>1
    <3>5. (A + n) * x >= A * (x + m)
      BY <1>1, <3>4, DepositPrice
    <3>6. supply' > supply
      BY <1>4, <3>1, <3>3
    <3>7. (total_assets' + 0) * supply >= total_assets * supply'
      BY <1>1, <3>1, <3>2, <3>3, <3>5
    <3> QED BY <3>6, <3>7 DEF Undiluted
  <2> QED BY <2>1, <2>2
<1>21. Rescued
  <2>1. \A s \in Strategies : principal'[s] <= principal[s]
    BY <1>1, <1>6 DEF FundTypes
  <2> QED BY <1>6, <2>1, HolderRescued
<1> QED BY <1>17, <1>18, <1>19, <1>20, <1>21 DEF GoodStep, MoneyInv
-----------------------------------------------------------------------------
(* Keeper: compound, rebalance and the lifeboat *)

\* A harvest's record r splits the position of s and the swap's proceeds into
\* what stays supplied and what is forwarded, but for the dust.
Splits(r, s) ==
  /\ r.btok \in Nat /\ r.principal \in Nat /\ r.blnd \in Nat
  /\ r.swapped \in Nat /\ r.out \in Nat
  /\ Underlying(r.btok, b_rate[s]) + r.out <= pos[s] + r.swapped
  /\ pos[s] + r.swapped <= Underlying(r.btok, b_rate[s]) + r.out + Dust[s]

\* The bTokens a harvest leaves in the pool before it re-supplies.
Left(s) == IF UnderlyingCeil(btok[s], b_rate[s]) > 0 THEN 0 ELSE btok[s]

LEMMA LeftWorthless ==
  ASSUME TypeOK, NEW s \in Strategies
  PROVE  Left(s) \in Nat /\ Underlying(Left(s), b_rate[s]) = 0
<1>1. Scalar \in Nat /\ Scalar > 0
  BY RateAssumption
<1>2. PICK b \in Nat, r \in Nat : b = btok[s] /\ r = b_rate[s]
  BY PosNat
<1>3. 0 \div Scalar = 0
  BY <1>1
<1>4. CASE UnderlyingCeil(btok[s], b_rate[s]) > 0
  <2>1. Left(s) = 0 /\ 0 * r = 0
    BY <1>4 DEF Left
  <2> QED BY <1>2, <1>3, <2>1 DEF Underlying
<1>5. CASE ~(UnderlyingCeil(btok[s], b_rate[s]) > 0)
  <2>1. PICK x \in Nat : x = b * r
    OBVIOUS
  <2>2. PICK y \in Nat : y = x + Scalar - 1
    BY <1>1
  <2>3. PICK q \in Nat : q = y \div Scalar /\ y < Scalar * q + Scalar
    BY <1>1, DivBounds
  <2>4. q = 0
    BY <1>2, <1>5, <2>1, <2>2, <2>3 DEF UnderlyingCeil
  <2>5. x = 0
    BY <1>1, <2>2, <2>3, <2>4
  <2>6. Left(s) = b
    BY <1>2, <1>5 DEF Left
  <2> QED BY <1>2, <1>3, <2>1, <2>5, <2>6 DEF Underlying
<1> QED BY <1>4, <1>5

LEMMA HarvestSplits ==
  ASSUME TypeOK, NEW s \in Strategies, NEW m \in Nat, NEW c \in Nat,
         NEW p \in Nat
  PROVE  Splits(HarvestOf(s, m, c, p), s)
<1>0. PICK r : r = HarvestOf(s, m, c, p)
  OBVIOUS
<1>1. PICK v \in Nat, k \in Nat, b \in Nat, d \in Nat :
           /\ v = pos[s] /\ k = principal[s] /\ b = blnd[s] /\ d = Dust[s]
  BY TypeParts, PosNat DEF FundTypes
<1>2. PICK q \in Nat : q = Min({principal[s], pos[s]}) /\ q <= v
  BY <1>1, MinOfTwo
<1>3. PICK held \in Nat : held = blnd[s] + IF btok[s] > 0 THEN c ELSE 0
  BY <1>1
<1>4. \/ /\ r.btok = Left(s) + Minted(s, q) /\ (q > 0 => b_rate[s] > 0)
         /\ r.principal \in {q, k} /\ r.blnd \in {0, held}
         /\ r.swapped \in {0, p} /\ r.out = v - q + r.swapped
      \/ /\ r.btok = btok[s] /\ r.principal = k /\ r.blnd = b
         /\ r.swapped = 0 /\ r.out = 0
  BY <1>0, <1>1, <1>2, <1>3 DEF HarvestOf, Left, Supplies
<1>5. r.swapped \in Nat
  BY <1>4
<1>6. CASE r.btok = Left(s) + Minted(s, q) /\ (q > 0 => b_rate[s] > 0)
           /\ r.principal \in {q, k} /\ r.blnd \in {0, held}
           /\ r.swapped \in {0, p} /\ r.out = v - q + r.swapped
  <2>1. PICK z \in Nat : z = Left(s) /\ Underlying(z, b_rate[s]) = 0
    BY LeftWorthless
  <2>2. PICK n \in Nat : n = Minted(s, q)
    BY <1>6, <2>1, SupplyRounds
  <2>3. r.btok \in Nat /\ r.btok = z + n
    BY <1>6, <2>1, <2>2
  <2>4. PICK u \in Nat : u = Underlying(r.btok, b_rate[s])
    BY <2>3, PosNat, UnderlyingNat
  <2>5. u <= 0 + q /\ 0 + q <= u + d
    BY <1>1, <1>6, <2>1, <2>2, <2>3, <2>4, SupplyRounds
  <2>6. PICK w \in Nat, o \in Nat : w = r.swapped /\ o = r.out /\ o = v - q + w
    BY <1>2, <1>5, <1>6
  <2>7. u + o <= v + w /\ v + w <= u + o + d
    BY <2>5, <2>6
  <2>8. r.principal \in Nat /\ r.blnd \in Nat
    BY <1>6
  <2>9. /\ Underlying(r.btok, b_rate[s]) + r.out <= pos[s] + r.swapped
        /\ pos[s] + r.swapped <= Underlying(r.btok, b_rate[s]) + r.out + Dust[s]
    BY <1>1, <2>4, <2>6, <2>7
  <2>10. Splits(r, s)
    BY <1>5, <2>3, <2>6, <2>8, <2>9 DEF Splits
  <2> QED BY <1>0, <2>10
<1>7. CASE r.btok = btok[s] /\ r.principal = k /\ r.blnd = b
           /\ r.swapped = 0 /\ r.out = 0
  <2>1. btok[s] \in Nat /\ v = Underlying(btok[s], b_rate[s])
    BY <1>1, PosNat
  <2>2. /\ Underlying(r.btok, b_rate[s]) + r.out <= pos[s] + r.swapped
        /\ pos[s] + r.swapped <= Underlying(r.btok, b_rate[s]) + r.out + Dust[s]
    BY <1>1, <1>7, <2>1
  <2>3. Splits(r, s)
    BY <1>1, <1>7, <2>1, <2>2 DEF Splits
  <2> QED BY <1>0, <2>3
<1> QED BY <1>4, <1>6, <1>7

\* Tokens move between idle and the registered strategies; swaps add yield.
LEMMA CompoundFunds ==
  ASSUME MoneyInv, NEW m \in [Registered -> MinOuts],
         NEW c \in [Registered -> Emissions], NEW p \in [Registered -> Proceeds],
         compound(m, c, p)
  PROVE  /\ FundTypes' /\ yield' \in Nat /\ yield' >= yield
         /\ \E exact \in [Strategies -> Nat] :
              /\ Rounds(exact)
              /\ \A T \in SUBSET Strategies :
                   Registered \subseteq T =>
                     idle' + SumOf(exact, T) + yield
                       = idle + SumOf(pos, T) + yield'
<1>1. TypeOK /\ FundTypes
  BY TypeParts DEF MoneyInv
<1>2. PICK R \in SUBSET Strategies : R = Registered
  BY <1>1, RegistryFinite
<1>3. IsFiniteSet(R)
  BY <1>1, <1>2, RegistryFinite
<1>4. PICK h : h = Harvests(m, c, p)
  OBVIOUS
<1>5. \A s \in R : Splits(h[s], s)
  <2> SUFFICES ASSUME NEW s \in R PROVE Splits(h[s], s)
    OBVIOUS
  <2>1. h[s] = HarvestOf(s, m[s], c[s], p[s])
    BY <1>2, <1>4 DEF Harvests
  <2>2. MinOuts \subseteq Nat /\ Emissions \subseteq Nat /\ Proceeds \subseteq Nat
    BY InputsAssumption
  <2>3. m[s] \in Nat /\ c[s] \in Nat /\ p[s] \in Nat /\ s \in Strategies
    BY <1>2, <2>2
  <2> QED BY <1>1, <2>1, <2>3, HarvestSplits
<1>6. PICK outs : outs = [s \in R |-> h[s].out]
  OBVIOUS
<1>7. PICK swaps : swaps = [s \in R |-> h[s].swapped]
  OBVIOUS
<1>8. \A s \in R : /\ outs[s] = h[s].out /\ swaps[s] = h[s].swapped
                   /\ outs[s] \in Nat /\ swaps[s] \in Nat
  BY <1>5, <1>6, <1>7 DEF Splits
<1>9. PICK gain \in Nat, fresh \in Nat :
           gain = SumOf(outs, R) /\ fresh = SumOf(swaps, R)
  BY <1>3, <1>8, SumNat
<1>10. PICK cash \in Nat : cash = idle + gain
  BY <1>1 DEF FundTypes
<1>11. cash = idle + TotalGain(h)
  BY <1>2, <1>6, <1>9, <1>10 DEF TotalGain
<1>12. PICK took : took = [s \in R |-> Deposited(s, Cut(s, cash))]
  OBVIOUS
<1>13. /\ \A s \in R : took[s] \in Nat
       /\ SumOf(took, R) \in Nat /\ SumOf(took, R) <= cash
  BY <1>1, <1>2, <1>12, CutsFit
<1>14. PICK put \in Nat : put = SumOf(took, R) /\ put <= cash
  BY <1>13
<1>15. /\ idle' = cash - put
       /\ btok' = [s \in Strategies |->
                     IF s \in R THEN h[s].btok + Minted(s, took[s]) ELSE btok[s]]
       /\ principal' = [s \in Strategies |->
                          IF s \in R THEN h[s].principal + took[s]
                                     ELSE principal[s]]
       /\ blnd' = [s \in Strategies |->
                     IF s \in R THEN h[s].blnd ELSE blnd[s]]
       /\ yield' = yield + fresh /\ b_rate' = b_rate
  BY <1>2, <1>4, <1>7, <1>9, <1>11, <1>12, <1>14 DEF compound
<1>16. /\ idle \in Nat /\ pos \in [Strategies -> Nat] /\ yield \in Nat
       /\ btok \in [Strategies -> Nat] /\ Dust \in [Strategies -> Nat]
  BY <1>1, TypeParts, PosNat DEF FundTypes, EnvTypes
<1>17. idle' \in Nat /\ yield' \in Nat /\ yield' >= yield
  BY <1>14, <1>15, <1>16
<1>18. principal' \in [Strategies -> Nat] /\ blnd' \in [Strategies -> Nat]
  <2>1. principal \in [Strategies -> Nat] /\ blnd \in [Strategies -> Nat]
    BY <1>1 DEF FundTypes
  <2>2. \A s \in R : h[s].principal \in Nat /\ h[s].blnd \in Nat
    BY <1>5 DEF Splits
  <2>3. principal' \in [Strategies -> Nat]
    BY <1>13, <1>15, <2>1, <2>2
  <2>4. blnd' \in [Strategies -> Nat]
    BY <1>15, <2>1, <2>2
  <2> QED BY <2>3, <2>4
<1>19. PICK exact : exact = [s \in Strategies |->
                               IF s \in R
                               THEN ((pos[s] + swaps[s]) + took[s]) - outs[s]
                               ELSE pos[s]]
  OBVIOUS
<1>19a. ASSUME NEW s \in R
        PROVE  /\ h[s].btok + Minted(s, took[s]) \in Nat
               /\ \E u \in Nat :
                    /\ u = Underlying(h[s].btok + Minted(s, took[s]), b_rate[s])
                    /\ u + outs[s] <= (pos[s] + swaps[s]) + took[s]
                    /\ (pos[s] + swaps[s]) + took[s] <= u + outs[s] + 2 * Dust[s]
  <2>1. PICK k \in Nat, n \in Nat, d \in Nat, r \in Nat :
             /\ k = h[s].btok /\ n = took[s] /\ d = Dust[s] /\ r = b_rate[s]
    BY <1>1, <1>5, <1>13, PosNat DEF Splits
  <2>2. PICK v \in Nat, w \in Nat, o \in Nat, q \in Nat :
             /\ v = pos[s] /\ w = swaps[s] /\ o = outs[s]
             /\ q = Underlying(k, r)
    BY <1>8, <1>16, UnderlyingNat
  <2>3. q + o <= v + w /\ v + w <= q + o + d
    BY <1>5, <1>8, <2>1, <2>2 DEF Splits
  <2>4. n > 0 => b_rate[s] > 0
    BY <1>12, <2>1 DEF Deposited, Supplies
  <2>5. PICK e \in Nat : e = Minted(s, n)
    BY <1>1, <2>1, <2>4, SupplyRounds
  <2>6. PICK u \in Nat : u = Underlying(k + e, r)
    BY UnderlyingNat
  <2>7. u <= q + n /\ q + n <= u + d
    BY <1>1, <2>1, <2>2, <2>4, <2>5, <2>6, SupplyRounds
  <2>8. u + o <= (v + w) + n /\ (v + w) + n <= u + o + 2 * d
    BY <2>3, <2>7
  <2>9. k + e \in Nat
    OBVIOUS
  <2> QED BY <2>1, <2>2, <2>5, <2>6, <2>8, <2>9
<1>19b. btok' \in [Strategies -> Nat]
  BY <1>15, <1>16, <1>19a
<1>19c. Rounds(exact) /\ exact \in [Strategies -> Nat]
  <2>1. ASSUME NEW s \in Strategies
        PROVE  /\ exact[s] \in Nat /\ pos'[s] \in Nat /\ pos'[s] <= exact[s]
               /\ exact[s] <= pos'[s] + 2 * Dust[s]
    <3>1. pos'[s] = Underlying(btok'[s], b_rate[s])
      BY <1>15 DEF pos, Underlying
    <3>2. CASE s \in R
      <4>1. PICK u \in Nat :
                 /\ u = Underlying(h[s].btok + Minted(s, took[s]), b_rate[s])
                 /\ u + outs[s] <= (pos[s] + swaps[s]) + took[s]
                 /\ (pos[s] + swaps[s]) + took[s] <= u + outs[s] + 2 * Dust[s]
        BY <1>19a, <3>2
      <4>2. pos'[s] = u
        BY <1>15, <3>1, <3>2, <4>1
      <4>3. PICK v \in Nat, w \in Nat, n \in Nat, o \in Nat, d \in Nat :
                 /\ v = pos[s] /\ w = swaps[s] /\ n = took[s] /\ o = outs[s]
                 /\ d = Dust[s]
        BY <1>8, <1>13, <1>16, <3>2
      <4>4. exact[s] = ((v + w) + n) - o
        BY <1>19, <3>2, <4>3
      <4>5. /\ ((v + w) + n) - o \in Nat /\ u <= ((v + w) + n) - o
            /\ ((v + w) + n) - o <= u + 2 * d
        BY <4>1, <4>3
      <4> QED BY <4>2, <4>3, <4>4, <4>5
    <3>3. CASE s \notin R
      <4>1. btok'[s] = btok[s] /\ exact[s] = pos[s]
        BY <1>15, <1>19, <3>3
      <4>2. pos'[s] = pos[s] /\ pos[s] \in Nat /\ Dust[s] \in Nat
        BY <1>1, <3>1, <4>1, PosNat
      <4> QED BY <4>1, <4>2
    <3> QED BY <3>2, <3>3
  <2>2. exact \in [Strategies -> Nat]
    BY <1>19, <2>1
  <2> QED BY <2>1, <2>2 DEF Rounds
<1>19d. \A s \in R : exact[s] + outs[s] = (pos[s] + swaps[s]) + took[s]
  <2> SUFFICES ASSUME NEW s \in R
               PROVE  exact[s] + outs[s] = (pos[s] + swaps[s]) + took[s]
    OBVIOUS
  <2>1. PICK v \in Nat, w \in Nat, n \in Nat, o \in Nat :
             /\ v = pos[s] /\ w = swaps[s] /\ n = took[s] /\ o = outs[s]
    BY <1>8, <1>13, <1>16
  <2>2. exact[s] = ((v + w) + n) - o
    BY <1>19, <2>1
  <2> QED BY <2>1, <2>2
<1>20. SumOf(exact, R) + gain = (SumOf(pos, R) + fresh) + put
  <2>1. PICK left : left = [s \in R |-> exact[s] + outs[s]]
    OBVIOUS
  <2>2. PICK base : base = [s \in R |-> pos[s] + swaps[s]]
    OBVIOUS
  <2>3. \A s \in R : exact[s] \in Int /\ outs[s] \in Int /\ pos[s] \in Int
                     /\ swaps[s] \in Int /\ took[s] \in Int
    BY <1>8, <1>13, <1>16, <1>19c
  <2>4. \A s \in R : base[s] \in Int /\ base[s] = pos[s] + swaps[s]
    BY <2>2, <2>3
  <2>5. \A s \in R : left[s] = exact[s] + outs[s]
    BY <2>1
  <2>6. \A s \in R : left[s] = base[s] + took[s]
    BY <1>19d, <2>4, <2>5
  <2>7. SumOf(left, R) = SumOf(exact, R) + SumOf(outs, R)
    BY <1>3, <2>3, <2>5, SumPlus
  <2>8. SumOf(left, R) = SumOf(base, R) + SumOf(took, R)
    BY <1>3, <2>3, <2>4, <2>6, SumPlus
  <2>9. SumOf(base, R) = SumOf(pos, R) + SumOf(swaps, R)
    BY <1>3, <2>3, <2>4, SumPlus
  <2> QED BY <1>9, <1>14, <2>7, <2>8, <2>9
<1>21. ASSUME NEW T \in SUBSET Strategies, R \subseteq T
       PROVE  idle' + SumOf(exact, T) + yield = idle + SumOf(pos, T) + yield'
  <2>1. IsFiniteSet(T) /\ IsFiniteSet(T \ R)
    <3>1. IsFiniteSet(T) /\ T \ R \in SUBSET Strategies
      BY FS_Subset, NamesAssumption
    <3> QED BY <3>1, FS_Subset, NamesAssumption
  <2>2. \A x \in T : pos[x] \in Int /\ exact[x] \in Int
    BY <1>16, <1>19c
  <2>3. /\ SumOf(pos, T) = SumOf(pos, R) + SumOf(pos, T \ R)
        /\ SumOf(exact, T) = SumOf(exact, R) + SumOf(exact, T \ R)
    BY <1>21, <2>1, <2>2, SumSplit
  <2>4. \A x \in T \ R : pos[x] \in Int /\ pos[x] = exact[x]
    BY <1>19, <2>2
  <2>5. SumOf(pos, T \ R) = SumOf(exact, T \ R)
    BY <2>1, <2>4, SumSame
  <2>6. PICK a \in Int, b \in Int, d \in Int :
             a = SumOf(pos, R) /\ b = SumOf(exact, R) /\ d = SumOf(pos, T \ R)
    <3>1. \A x \in R : pos[x] \in Int /\ exact[x] \in Int
      BY <1>21, <2>2
    <3>2. \A x \in T \ R : pos[x] \in Int
      BY <2>2
    <3> QED BY <1>3, <2>1, <3>1, <3>2, SumInt
  <2>7. b + gain = (a + fresh) + put
    BY <1>20, <2>6
  <2>8. (cash - put) + (b + d) + yield = idle + (a + d) + (yield + fresh)
    BY <1>10, <1>16, <2>7
  <2> QED BY <1>15, <2>3, <2>5, <2>6, <2>8
<1> QED BY <1>2, <1>17, <1>18, <1>19b, <1>19c, <1>21 DEF FundTypes

\* A step on the funds that writes no shares, no registry and no code.
LEMMA FundsGood ==
  ASSUME MoneyInv, TypeOK', UNCHANGED shareVars, Registered' = Registered,
         NEW exact, Rounds(exact),
         idle' + SumOf(exact, Strategies) + lost' + yield
           = idle + SumOf(pos, Strategies) + lost + yield',
         idle' + SumOf(exact, Registered) >= idle + SumOf(pos, Registered),
         Rescued
  PROVE  GoodStep
<1>1. TypeOK /\ supply' = supply
  BY DEF MoneyInv, shareVars
<1>2. PICK i \in Nat, l \in Nat, y \in Nat :
           i = idle' /\ l = lost' /\ y = yield
  BY <1>1, TypeParts, TypePartsNext DEF FundTypes, EnvTypes
<1>3. PICK a \in Nat, b \in Nat, c \in Nat, e \in Nat, d \in Nat :
           /\ a = SumOf(exact, Strategies) /\ b = SumOf(pos', Strategies)
           /\ c = SumOf(exact, Registered) /\ e = SumOf(pos', Registered)
           /\ d = 2 * SumOf(Dust, Registered) /\ b <= a /\ c <= e + d
  BY <1>1, RoundedSum, DustNat
<1>4. idle' + SumOf(pos', Strategies) + lost' + yield
        <= idle + SumOf(pos, Strategies) + lost + yield'
  <2>1. i + b + l + y <= i + a + l + y
    BY <1>3
  <2>2. PICK z \in Nat : z = idle + SumOf(pos, Strategies) + lost + yield'
    <3>1. /\ idle \in Nat /\ SumOf(pos, Strategies) \in Nat
          /\ lost \in Nat /\ yield' \in Nat
      BY <1>1, AssetsNat, TypeParts, TypePartsNext DEF FundTypes, EnvTypes
    <3> QED BY <3>1
  <2>3. i + a + l + y = z
    BY <1>2, <1>3, <2>2
  <2>4. i + b + l + y <= z
    BY <2>1, <2>3
  <2> QED BY <1>2, <1>3, <2>2, <2>4
<1>5. DeadSharesLocked' /\ TokensConserved'
  BY <1>4, FundsMoved
<1>6. total_assets' + 2 * SumOf(Dust, Registered) >= total_assets
  <2>1. PICK n \in Nat : n = total_assets
    BY <1>1, AssetsNat
  <2>2. i + c >= n
    BY <1>2, <1>3, <2>1 DEF total_assets
  <2>3. total_assets' = i + e
    BY <1>2, <1>3 DEF total_assets
  <2>4. (i + e) + d >= n
    BY <1>3, <2>2
  <2> QED BY <1>3, <2>1, <2>3, <2>4
<1>7. Undiluted
  BY <1>1, <1>6, AssetsGrow
<1> QED BY <1>5, <1>7 DEF GoodStep, MoneyInv

LEMMA CompoundGood ==
  ASSUME MoneyInv, NEW m \in [Registered -> MinOuts],
         NEW c \in [Registered -> Emissions], NEW p \in [Registered -> Proceeds],
         compound(m, c, p)
  PROVE  GoodStep
<1>1. TypeOK
  BY DEF MoneyInv
<1>2. PICK exact \in [Strategies -> Nat] :
           /\ FundTypes' /\ yield' \in Nat /\ yield' >= yield
           /\ Rounds(exact)
           /\ \A T \in SUBSET Strategies :
                Registered \subseteq T =>
                  idle' + SumOf(exact, T) + yield = idle + SumOf(pos, T) + yield'
  BY CompoundFunds
<1>3. /\ UNCHANGED shareVars /\ UNCHANGED strategies /\ UNCHANGED lifeboatVars
      /\ UNCHANGED upgradeVars /\ lost' = lost /\ now' = now
      /\ b_rate' = b_rate /\ pool' = pool
      /\ UNCHANGED limitVars /\ last_rebalance' = last_rebalance
      /\ last_compound' = now /\ ~derisked
  BY DEF compound, CompoundAllowed
<1>4. RegistryTypes' /\ Registered' = Registered
  BY <1>1, <1>3, PartsKept
<1>5. ShareTypes' /\ LifeboatTypes' /\ CodeTypes'
  BY <1>1, <1>3, PartsKept
<1>6. EnvTypes'
  BY <1>1, <1>2, <1>3, TypeParts DEF EnvTypes
<1>7. LimitTypes'
  <2>1. /\ now \in Nat /\ last_rebalance \in Nat
        /\ last_compound \in Nat \cup {None}
    BY <1>1, TypeParts DEF LimitTypes, EnvTypes
  <2> QED BY <1>1, <1>3, <2>1, LimitsStamped
<1>8. TypeOK'
  BY <1>2, <1>4, <1>5, <1>6, <1>7, TypePartsNext
<1>9. Registered \in SUBSET Strategies
  BY <1>1, RegistryFinite
<1>10. PICK a \in Nat, b \in Nat, d \in Nat, e \in Nat :
            /\ a = SumOf(pos, Strategies) /\ b = SumOf(exact, Strategies)
            /\ d = SumOf(pos, Registered) /\ e = SumOf(exact, Registered)
  BY <1>1, <1>2, <1>9, AssetsNat, RoundedSum
<1>11. /\ idle' + b + yield = idle + a + yield'
       /\ idle' + e + yield = idle + d + yield'
  BY <1>2, <1>9, <1>10
<1>12. PICK i \in Nat, j \in Nat, y \in Nat, z \in Nat, l \in Nat :
            /\ i = idle /\ j = idle' /\ y = yield /\ z = yield' /\ z >= y
            /\ l = lost
  BY <1>1, <1>2, TypeParts DEF FundTypes, EnvTypes
<1>13. /\ idle' + b + lost' + yield = idle + a + lost + yield'
       /\ idle' + e >= idle + d
  <2>1. j + b + y = i + a + z /\ j + e + y = i + d + z
    BY <1>11, <1>12
  <2>2. j + b + l + y = i + a + l + z
    BY <2>1
  <2>3. z >= y
    BY <1>12
  <2>4. j + e >= i + d
    BY <2>1, <2>3
  <2> QED BY <1>3, <1>12, <2>2, <2>4
<1>14. Rescued
  BY <1>3 DEF Rescued
<1> QED BY <1>2, <1>3, <1>4, <1>8, <1>10, <1>13, <1>14, FundsGood

\* A move within max_move_bps leaves the position non-negative.
LEMMA MoveFits ==
  ASSUME TypeOK, NEW s \in Strategies
  PROVE  MoveCap(s) \in Nat /\ MoveCap(s) <= pos[s]
<1>1. PICK v \in Nat, b \in Nat : v = pos[s] /\ b = max_move_bps /\ b <= 10000
  <2>1. pos[s] \in Nat
    BY PosNat
  <2>2. max_move_bps \in 0..10000
    BY DEF TypeOK
  <2>3. PICK b \in Nat : b = max_move_bps
    BY <2>2
  <2>4. b <= 10000
    BY <2>2, <2>3
  <2> QED BY <2>1, <2>3, <2>4
<1>2. PICK a \in Nat : a = v * b
  OBVIOUS
<1>3. a <= v * 10000
  BY <1>1, <1>2, MulMono
<1>4. PICK k \in Nat : k = a \div 10000 /\ 10000 * k <= a
  BY DivBounds
<1>5. k <= v
  <2>1. 10000 * k <= 10000 * v
    BY <1>3, <1>4
  <2> QED BY <2>1
<1> QED BY <1>1, <1>2, <1>4, <1>5 DEF MoveCap

\* One position changed, in any set of strategies that holds it.
LEMMA PositionChanged ==
  ASSUME NEW T \in SUBSET Strategies, NEW x \in T,
         NEW f \in [Strategies -> Nat], NEW g \in [Strategies -> Nat],
         \A y \in Strategies : y # x => g[y] = f[y]
  PROVE  /\ SumOf(f, T) \in Nat /\ SumOf(g, T) \in Nat
         /\ SumOf(g, T) + f[x] = SumOf(f, T) + g[x]
<1>1. IsFiniteSet(T) /\ SumOf(f, T) \in Nat /\ SumOf(g, T) \in Nat
  BY FundsNat
<1>2. \A y \in T : f[y] \in Int /\ g[y] \in Int
  OBVIOUS
<1>3. \A y \in T : y # x => g[y] = f[y]
  OBVIOUS
<1>4. SumOf(g, T) = SumOf(f, T) + (g[x] - f[x])
  BY <1>1, <1>2, <1>3, SumChange
<1>5. PICK a \in Nat, b \in Nat, c \in Nat, d \in Nat :
           /\ a = SumOf(f, T) /\ b = SumOf(g, T)
           /\ c = f[x] /\ d = g[x]
  BY <1>1
<1>6. b = a + (d - c)
  BY <1>4, <1>5
<1>7. b + c = a + d
  BY <1>6
<1> QED BY <1>1, <1>5, <1>7

\* The strategies a rebalance moves between, after it.
LEMMA RebalanceFunds ==
  ASSUME MoneyInv, NEW from \in Strategies, NEW to \in Strategies \cup {Vault},
         NEW n \in Amounts, rebalance(from, to, n)
  PROVE  /\ FundTypes'
         /\ \E exact \in [Strategies -> Nat] :
              /\ Rounds(exact)
              /\ \A T \in SUBSET Strategies :
                   Registered \subseteq T =>
                     idle' + SumOf(exact, T) = idle + SumOf(pos, T)
<1>1. TypeOK /\ FundTypes /\ n \in Nat
  BY TypeParts, AmountPositive DEF MoneyInv
<1>2. /\ idle \in Nat /\ pos \in [Strategies -> Nat]
      /\ principal \in [Strategies -> Nat] /\ blnd \in [Strategies -> Nat]
      /\ btok \in [Strategies -> Nat] /\ b_rate' = b_rate
  BY <1>1, PosNat DEF FundTypes, rebalance
<1>3. from \in Registered /\ to \in Registered \cup {Vault} /\ n <= MoveCap(from)
  BY DEF rebalance, RebalanceAllowed
<1>4. n <= pos[from]
  BY <1>1, <1>2, <1>3, MoveFits
<1>5. PICK v \in Nat : v = pos[from] - n
  BY <1>1, <1>2, <1>4
<1>6. PICK k \in Nat : k = BookLess(from, n)
  BY <1>1, <1>2 DEF BookLess
<1>7. PICK less \in [Strategies -> Nat] : less = [pos EXCEPT ![from] = v]
  BY <1>2
<1>8. PICK book \in [Strategies -> Nat] : book = [principal EXCEPT ![from] = k]
  BY <1>2
<1>8a. PICK kept \in [Strategies -> Nat] :
            kept = [btok EXCEPT ![from] = btok[from] - Burnt(from, n)]
  <2>1. btok[from] - Burnt(from, n) \in Nat
    BY <1>1, <1>4, WithdrawRounds
  <2> QED BY <1>2, <2>1
<1>8b. ASSUME NEW s \in Strategies
       PROVE  \E u \in Nat : /\ u = Underlying(kept[s], b_rate[s])
                            /\ u <= less[s] /\ less[s] <= u + Dust[s]
  <2>1. kept[s] \in Nat /\ b_rate[s] \in Nat /\ Dust[s] \in Nat
    BY <1>1, PosNat
  <2>2. PICK u \in Nat : u = Underlying(kept[s], b_rate[s])
    BY <2>1, UnderlyingNat
  <2>3. CASE s = from
    <3>1. less[s] = v /\ kept[s] = btok[s] - Burnt(s, n)
      BY <1>2, <1>7, <1>8a, <2>3
    <3>2. u + n <= pos[s] /\ pos[s] <= u + n + Dust[s]
      BY <1>1, <1>4, <2>2, <2>3, <3>1, WithdrawRounds
    <3>3. PICK w \in Nat, d \in Nat : w = pos[s] /\ d = Dust[s] /\ v = w - n
      BY <1>2, <1>5, <2>1, <2>3
    <3>4. u <= v /\ v <= u + d
      BY <1>1, <3>2, <3>3
    <3> QED BY <2>2, <3>1, <3>3, <3>4
  <2>4. CASE s # from
    <3>1. less[s] = pos[s] /\ kept[s] = btok[s]
      BY <1>2, <1>7, <1>8a, <2>4
    <3>2. pos[s] = u /\ pos[s] \in Nat
      BY <1>1, <2>2, <3>1, PosNat
    <3> QED BY <2>1, <2>2, <3>1, <3>2
  <2> QED BY <2>3, <2>4
<1>9. less[from] = v /\ \A y \in Strategies : y # from => less[y] = pos[y]
  BY <1>2, <1>7
<1>10. ASSUME NEW T \in SUBSET Strategies, from \in T
       PROVE  /\ SumOf(less, T) \in Nat /\ SumOf(pos, T) \in Nat
              /\ SumOf(less, T) + n = SumOf(pos, T)
  <2>1. /\ SumOf(less, T) \in Nat /\ SumOf(pos, T) \in Nat
        /\ SumOf(less, T) + pos[from] = SumOf(pos, T) + less[from]
    BY <1>2, <1>9, <1>10, PositionChanged
  <2>2. PICK a \in Nat, b \in Nat, w \in Nat :
             a = SumOf(less, T) /\ b = SumOf(pos, T) /\ w = pos[from]
    BY <1>2, <2>1
  <2>3. a + w = b + v /\ v = w - n
    BY <1>5, <1>9, <2>1, <2>2
  <2>4. a + n = b
    BY <1>1, <2>3
  <2> QED BY <2>1, <2>2, <2>4
<1>11. CASE to = Vault
  <2>1. idle' = idle + n /\ btok' = kept /\ principal' = book /\ blnd' = blnd
    BY <1>6, <1>8, <1>8a, <1>11 DEF rebalance
  <2>2. FundTypes'
    BY <1>1, <1>2, <2>1 DEF FundTypes
  <2>3. Rounds(less)
    <3>1. ASSUME NEW s \in Strategies
          PROVE  /\ pos'[s] \in Nat /\ pos'[s] <= less[s]
                 /\ less[s] <= pos'[s] + 2 * Dust[s]
      <4>1. pos'[s] = Underlying(kept[s], b_rate[s])
        BY <1>2, <2>1 DEF pos, Underlying
      <4>2. PICK u \in Nat : /\ u = pos'[s] /\ u <= less[s]
                             /\ less[s] <= u + Dust[s]
        BY <1>8b, <4>1
      <4>3. PICK d \in Nat, w \in Nat : d = Dust[s] /\ w = less[s]
        BY <1>1, PosNat
      <4>4. w <= u + 2 * d
        BY <4>2, <4>3
      <4> QED BY <4>2, <4>3, <4>4
    <3> QED BY <3>1 DEF Rounds
  <2>4. ASSUME NEW T \in SUBSET Strategies, Registered \subseteq T
        PROVE  idle' + SumOf(less, T) = idle + SumOf(pos, T)
    <3>1. /\ SumOf(less, T) \in Nat /\ SumOf(pos, T) \in Nat
          /\ SumOf(less, T) + n = SumOf(pos, T)
      BY <1>3, <1>10, <2>4
    <3>2. PICK a \in Nat, b \in Nat : a = SumOf(less, T) /\ b = SumOf(pos, T)
      BY <3>1
    <3>3. (idle + n) + a = idle + b
      BY <1>1, <1>2, <3>1, <3>2
    <3> QED BY <2>1, <3>2, <3>3
  <2> QED BY <2>2, <2>3, <2>4
<1>12. CASE to # Vault
  <2>0. to \in Strategies
    BY <1>12
  <2>1. /\ idle' = idle /\ blnd' = blnd
        /\ btok' = [kept EXCEPT ![to] = kept[to] + Minted(to, n)]
        /\ principal' = [book EXCEPT ![to] = book[to] + n]
        /\ b_rate[to] > 0
    BY <1>6, <1>8, <1>8a, <1>12 DEF rebalance, RebalanceAllowed, Supplies
  <2>2. PICK u \in Nat, w \in Nat : u = less[to] + n /\ w = book[to] + n
    BY <1>1, <2>0
  <2>3. PICK e \in Nat, held \in Nat : held = kept[to] /\ e = held + Minted(to, n)
    BY <1>1, <2>0, <2>1, SupplyRounds
  <2>4. btok' \in [Strategies -> Nat] /\ principal' \in [Strategies -> Nat]
    BY <2>1, <2>2, <2>3
  <2>5. FundTypes'
    BY <1>2, <2>1, <2>4 DEF FundTypes
  <2>6. PICK exact \in [Strategies -> Nat] : exact = [less EXCEPT ![to] = u]
    OBVIOUS
  <2>7. exact[to] = u /\ \A y \in Strategies : y # to => exact[y] = less[y]
    BY <2>0, <2>6
  <2>8. Rounds(exact)
    <3>1. ASSUME NEW s \in Strategies
          PROVE  /\ pos'[s] \in Nat /\ pos'[s] <= exact[s]
                 /\ exact[s] <= pos'[s] + 2 * Dust[s]
      <4>1. pos'[s] = Underlying(btok'[s], b_rate[s])
        BY <1>2 DEF pos, Underlying
      <4>2. PICK q \in Nat : /\ q = Underlying(kept[s], b_rate[s])
                             /\ q <= less[s] /\ less[s] <= q + Dust[s]
        BY <1>8b
      <4>3. PICK d \in Nat, x \in Nat : d = Dust[s] /\ x = less[s]
        BY <1>1, PosNat
      <4>4. CASE s = to
        <5>1. btok'[s] = e /\ exact[s] = x + n
          BY <2>0, <2>1, <2>2, <2>3, <2>7, <4>3, <4>4
        <5>2. PICK z \in Nat : z = Underlying(e, b_rate[s])
          BY <1>1, PosNat, UnderlyingNat
        <5>3. z <= q + n /\ q + n <= z + d
          BY <1>1, <2>1, <2>3, <4>2, <4>3, <4>4, <5>2, SupplyRounds
        <5>4. z <= x + n /\ x + n <= z + 2 * d
          BY <1>1, <4>2, <4>3, <5>3
        <5> QED BY <4>1, <4>3, <5>1, <5>2, <5>4
      <4>5. CASE s # to
        <5>1. btok'[s] = kept[s] /\ exact[s] = x
          BY <2>1, <2>7, <4>3, <4>5
        <5>2. q <= x /\ x <= q + 2 * d
          BY <4>2, <4>3
        <5> QED BY <4>1, <4>2, <4>3, <5>1, <5>2
      <4> QED BY <4>4, <4>5
    <3> QED BY <3>1 DEF Rounds
  <2>9. ASSUME NEW T \in SUBSET Strategies, Registered \subseteq T
        PROVE  idle' + SumOf(exact, T) = idle + SumOf(pos, T)
    <3>1. /\ SumOf(less, T) \in Nat /\ SumOf(pos, T) \in Nat
          /\ SumOf(less, T) + n = SumOf(pos, T)
      BY <1>3, <1>10, <2>9
    <3>2. to \in T
      BY <1>3, <1>12, <2>9
    <3>3. /\ SumOf(exact, T) \in Nat
          /\ SumOf(exact, T) + less[to] = SumOf(less, T) + exact[to]
      BY <2>7, <3>2, PositionChanged
    <3>4. PICK a \in Nat, b \in Nat, d \in Nat, f \in Nat :
               /\ a = SumOf(less, T) /\ b = SumOf(pos, T) /\ d = less[to]
               /\ f = SumOf(exact, T)
      BY <2>0, <3>1, <3>3
    <3>5. f + d = a + (d + n) /\ a + n = b
      BY <2>2, <2>7, <3>1, <3>3, <3>4
    <3>6. f = b
      BY <1>1, <3>5
    <3> QED BY <2>1, <3>4, <3>6
  <2> QED BY <2>5, <2>8, <2>9
<1> QED BY <1>11, <1>12

LEMMA RebalanceGood ==
  ASSUME MoneyInv, NEW from \in Strategies, NEW to \in Strategies \cup {Vault},
         NEW n \in Amounts, rebalance(from, to, n)
  PROVE  GoodStep
<1>1. TypeOK
  BY DEF MoneyInv
<1>2. PICK exact \in [Strategies -> Nat] :
           /\ FundTypes' /\ Rounds(exact)
           /\ \A T \in SUBSET Strategies :
                Registered \subseteq T =>
                  idle' + SumOf(exact, T) = idle + SumOf(pos, T)
  BY RebalanceFunds
<1>3. /\ UNCHANGED shareVars /\ UNCHANGED strategies /\ UNCHANGED lifeboatVars
      /\ UNCHANGED upgradeVars /\ UNCHANGED <<now, b_rate, pool, envVars>>
      /\ UNCHANGED limitVars /\ last_compound' = last_compound
      /\ last_rebalance' = now /\ ~derisked
  BY DEF rebalance, RebalanceAllowed
<1>4. RegistryTypes' /\ Registered' = Registered
  BY <1>1, <1>3, PartsKept
<1>5. ShareTypes' /\ EnvTypes' /\ LifeboatTypes' /\ CodeTypes'
  BY <1>1, <1>3, PartsKept
<1>6. LimitTypes'
  <2>1. /\ now \in Nat /\ last_rebalance \in Nat
        /\ last_compound \in Nat \cup {None}
    BY <1>1, TypeParts DEF LimitTypes, EnvTypes
  <2> QED BY <1>1, <1>3, <2>1, LimitsStamped
<1>7. TypeOK'
  BY <1>2, <1>4, <1>5, <1>6, TypePartsNext
<1>8. Registered \in SUBSET Strategies
  BY <1>1, RegistryFinite
<1>9. PICK a \in Nat, d \in Nat : a = SumOf(pos, Strategies) /\ d = SumOf(pos, Registered)
  BY <1>1, <1>8, AssetsNat
<1>10. /\ idle' + SumOf(exact, Strategies) = idle + a
       /\ idle' + SumOf(exact, Registered) = idle + d
  BY <1>2, <1>8, <1>9
<1>11. idle \in Nat /\ lost' = lost /\ yield' = yield
  BY <1>1, <1>3, TypeParts DEF FundTypes, envVars
<1>12. /\ idle' + SumOf(exact, Strategies) + lost' + yield
            = idle + SumOf(pos, Strategies) + lost + yield'
       /\ idle' + SumOf(exact, Registered) >= idle + SumOf(pos, Registered)
  BY <1>9, <1>10, <1>11
<1>13. Rescued
  BY <1>3 DEF Rescued
<1> QED BY <1>2, <1>3, <1>4, <1>7, <1>12, <1>13, FundsGood

\* A drain of strategies into the vault, as the lifeboat and the admin do.
LEMMA DrainGood ==
  ASSUME MoneyInv, NEW S, Receive(DrainAll(S), 0),
         UNCHANGED <<now, shareVars, strategies, b_rate, pool, limitVars, stampVars,
                     mandate_authority, mandate_expiry, upgradeVars, envVars>>,
         derisked' \in BOOLEAN, derisked => derisked'
  PROVE  GoodStep
<1>1. TypeOK
  BY DEF MoneyInv
<1>2. Payment(DrainAll(S))
  BY <1>1, DrainAllPays
<1>3. 0 <= idle + SumOf(DrainAll(S), Strategies)
  <2>1. SumOf(DrainAll(S), Strategies) \in Nat /\ idle \in Nat
    BY <1>1, <1>2, TypeParts, FundsNat DEF Payment, FundTypes
  <2> QED BY <2>1
<1>4. PICK exact \in [Strategies -> Nat] :
           /\ FundTypes'
           /\ \A s \in Strategies : principal'[s] <= principal[s]
           /\ Rounds(exact)
           /\ idle' + SumOf(exact, Strategies) + 0 = idle + SumOf(pos, Strategies)
           /\ \A T \in SUBSET Strategies :
                idle' + SumOf(exact, T) + 0 >= idle + SumOf(pos, T)
  BY <1>1, <1>2, <1>3, ReceiveFunds
<1>5. RegistryTypes' /\ Registered' = Registered
  BY <1>1, PartsKept
<1>6. ShareTypes' /\ EnvTypes' /\ LimitTypes' /\ CodeTypes'
  BY <1>1, PartsKept
<1>7. LifeboatTypes'
  BY <1>1, TypeParts DEF LifeboatTypes
<1>8. TypeOK'
  BY <1>4, <1>5, <1>6, <1>7, TypePartsNext
<1>9. Registered \in SUBSET Strategies
  BY <1>1, RegistryFinite
<1>10. PICK a \in Nat, b \in Nat, c \in Nat, d \in Nat :
            /\ a = SumOf(pos, Strategies) /\ b = SumOf(exact, Strategies)
            /\ c = SumOf(pos, Registered) /\ d = SumOf(exact, Registered)
  BY <1>1, <1>4, <1>9, AssetsNat, RoundedSum
<1>11. idle \in Nat /\ idle' \in Nat
  BY <1>1, <1>4, TypeParts DEF FundTypes
<1>12. idle' + b = idle + a /\ idle' + d >= idle + c
  BY <1>4, <1>9, <1>10, <1>11
<1>13. lost' = lost /\ yield' = yield
  BY DEF envVars
<1>14. Rescued
  BY <1>4 DEF Rescued
<1>15. /\ idle' + SumOf(exact, Strategies) + lost' + yield
            = idle + SumOf(pos, Strategies) + lost + yield'
       /\ idle' + SumOf(exact, Registered) >= idle + SumOf(pos, Registered)
  BY <1>10, <1>12, <1>13
<1> QED BY <1>4, <1>5, <1>8, <1>14, <1>15, FundsGood

\* A step that touches neither tokens, shares nor the registry.
LEMMA QuietGood ==
  ASSUME MoneyInv, UNCHANGED <<shareVars, fundVars, b_rate, envVars, strategies>>,
         EnvTypes', LimitTypes', LifeboatTypes', CodeTypes',
         derisked => derisked' \/ now < mandate_expiry
  PROVE  GoodStep
<1>1. TypeOK
  BY DEF MoneyInv
<1>2. ShareTypes' /\ FundTypes' /\ RegistryTypes' /\ Registered' = Registered
  BY <1>1, PartsKept
<1>3. TypeOK'
  BY <1>2, TypePartsNext
<1>4. /\ DeadSharesLocked' /\ TokensConserved' /\ Undiluted
      /\ \A s \in Strategies : principal'[s] <= principal[s]
  BY <1>2, <1>3, MoneyStill
<1> QED BY <1>3, <1>4 DEF GoodStep, MoneyInv, Rescued

LEMMA LifeboatGood ==
  ASSUME MoneyInv, LifeboatStep
  PROVE  GoodStep
<1>1. TypeOK /\ LifeboatTypes
  BY TypeParts DEF MoneyInv
<1>2. CASE emergency_derisk
  BY <1>2, DrainGood DEF emergency_derisk
<1>3. CASE resume
  <2>1. /\ UNCHANGED <<shareVars, fundVars, b_rate, envVars, strategies>>
        /\ UNCHANGED <<now, b_rate, pool, envVars>> /\ UNCHANGED <<limitVars, stampVars>>
        /\ UNCHANGED upgradeVars /\ derisked' = FALSE /\ now < mandate_expiry
        /\ UNCHANGED <<mandate_authority, mandate_expiry>>
    BY <1>3 DEF resume, MandateLive
  <2>2. LifeboatTypes'
    BY <1>1, <2>1 DEF LifeboatTypes
  <2>3. EnvTypes' /\ LimitTypes' /\ CodeTypes'
    BY <1>1, <2>1, PartsKept
  <2> QED BY <2>1, <2>2, <2>3, QuietGood
<1>4. CASE \E a \in Authorities : set_mandate_authority(a)
  <2>1. PICK a \in Authorities : set_mandate_authority(a)
    BY <1>4
  <2>2. /\ UNCHANGED <<shareVars, fundVars, b_rate, envVars, strategies>>
        /\ UNCHANGED <<now, b_rate, pool, envVars>> /\ UNCHANGED <<limitVars, stampVars>>
        /\ UNCHANGED upgradeVars /\ mandate_authority' = a
        /\ UNCHANGED <<derisked, mandate_expiry>>
    BY <2>1 DEF set_mandate_authority
  <2>3. LifeboatTypes'
    BY <1>1, <2>2 DEF LifeboatTypes
  <2>4. EnvTypes' /\ LimitTypes' /\ CodeTypes'
    BY <1>1, <2>2, PartsKept
  <2> QED BY <2>2, <2>3, <2>4, QuietGood
<1>5. CASE \E t \in 0..MaxNow+1 : set_mandate(t)
  <2>1. PICK t \in 0..MaxNow+1 : set_mandate(t)
    BY <1>5
  <2>2. /\ UNCHANGED <<shareVars, fundVars, b_rate, envVars, strategies>>
        /\ UNCHANGED <<now, b_rate, pool, envVars>> /\ UNCHANGED <<limitVars, stampVars>>
        /\ UNCHANGED upgradeVars /\ mandate_expiry' = t
        /\ UNCHANGED <<derisked, mandate_authority>>
    BY <2>1 DEF set_mandate
  <2>3. t \in Nat
    BY LimitsAssumption
  <2>4. LifeboatTypes'
    BY <1>1, <2>2, <2>3 DEF LifeboatTypes
  <2>5. EnvTypes' /\ LimitTypes' /\ CodeTypes'
    BY <1>1, <2>2, PartsKept
  <2> QED BY <2>2, <2>4, <2>5, QuietGood
<1> QED BY <1>2, <1>3, <1>4, <1>5 DEF LifeboatStep
-----------------------------------------------------------------------------
(* Admin and environment *)

LEMMA RegistryAdds ==
  ASSUME TypeOK, NEW s \in Strategies, add_strategy(s)
  PROVE  RegistryTypes' /\ Registered' = Registered \cup {s}
<1>1. /\ strategies \in Seq(Strategies) /\ s \notin Registered
      /\ Len(strategies) < MaxStrategies /\ strategies' = Append(strategies, s)
  BY DEF TypeOK, add_strategy
<1>2. PICK k \in Nat : k = Len(strategies)
  BY <1>1
<1>3. /\ strategies' \in Seq(Strategies) /\ Len(strategies') = k + 1
      /\ strategies'[k + 1] = s
      /\ \A i \in 1..k : strategies'[i] = strategies[i]
  BY <1>1, <1>2
<1>4. \A i \in 1..k : strategies[i] # s
  BY <1>1, <1>2 DEF Registered
<1>5. \A i, j \in 1..k : strategies[i] = strategies[j] => i = j
  BY <1>2 DEF TypeOK
<1>6. \A i, j \in 1..k+1 : strategies'[i] = strategies'[j] => i = j
  <2> SUFFICES ASSUME NEW i \in 1..k+1, NEW j \in 1..k+1,
                      strategies'[i] = strategies'[j]
               PROVE  i = j
    OBVIOUS
  <2>1. CASE i = k + 1 /\ j = k + 1
    BY <2>1
  <2>2. CASE i = k + 1 /\ j # k + 1
    BY <1>3, <1>4, <2>2
  <2>3. CASE i # k + 1 /\ j = k + 1
    BY <1>3, <1>4, <2>3
  <2>4. CASE i # k + 1 /\ j # k + 1
    <3>1. i \in 1..k /\ j \in 1..k
      BY <2>4
    <3> QED BY <1>3, <1>5, <3>1
  <2> QED BY <2>1, <2>2, <2>3, <2>4
<1>7. k + 1 <= MaxStrategies
  BY <1>1, <1>2, LimitsAssumption
<1>8. RegistryTypes'
  BY <1>3, <1>6, <1>7 DEF RegistryTypes
<1>9. Registered' = Registered \cup {s}
  <2>1. Registered' = {strategies'[i] : i \in 1..k+1}
    BY <1>3 DEF Registered
  <2>2. Registered = {strategies[i] : i \in 1..k}
    BY <1>2 DEF Registered
  <2>3. ASSUME NEW t \in Registered' PROVE t \in Registered \cup {s}
    <3>1. PICK i \in 1..k+1 : t = strategies'[i]
      BY <2>1, <2>3
    <3>2. CASE i = k + 1
      BY <1>3, <3>1, <3>2
    <3>3. CASE i # k + 1
      BY <1>3, <2>2, <3>1, <3>3
    <3> QED BY <3>2, <3>3
  <2>4. ASSUME NEW t \in Registered PROVE t \in Registered'
    <3>1. PICK i \in 1..k : t = strategies[i]
      BY <2>2, <2>4
    <3> QED BY <1>3, <2>1, <3>1
  <2>5. s \in Registered'
    BY <1>3, <2>1
  <2> QED BY <2>3, <2>4, <2>5
<1> QED BY <1>8, <1>9

LEMMA RegistryDrops ==
  ASSUME TypeOK, NEW s \in Registered, strategies' = Without(s)
  PROVE  RegistryTypes' /\ Registered' = Registered \ {s}
<1>1. strategies \in Seq(Strategies) /\ Len(strategies) <= MaxStrategies
  BY DEF TypeOK
<1>2. PICK n \in Nat : n = Len(strategies)
  BY <1>1
<1>3. \A i, j \in 1..n : strategies[i] = strategies[j] => i = j
  BY <1>2 DEF TypeOK
<1>4. PICK k \in 1..n : /\ strategies[k] = s
                        /\ k = CHOOSE i \in 1..Len(strategies) : strategies[i] = s
  <2>1. \E i \in 1..n : strategies[i] = s
    BY <1>2 DEF Registered
  <2> QED BY <1>2, <2>1
<1>5. strategies' = [i \in 1..n-1 |-> IF i < k THEN strategies[i]
                                               ELSE strategies[i + 1]]
  BY <1>2, <1>4 DEF Without
<1>6. \A i \in 1..n : strategies[i] \in Strategies
  BY <1>1, <1>2
<1>7. /\ n - 1 \in Nat /\ strategies' \in [1..n-1 -> Strategies]
  BY <1>4, <1>5, <1>6
<1>8. strategies' \in Seq(Strategies) /\ Len(strategies') = n - 1
  BY <1>7
<1>9. \A i \in 1..n-1 : strategies'[i] = strategies[IF i < k THEN i ELSE i + 1]
  BY <1>5
<1>10. \A i, j \in 1..n-1 : strategies'[i] = strategies'[j] => i = j
  <2> SUFFICES ASSUME NEW i \in 1..n-1, NEW j \in 1..n-1,
                      strategies'[i] = strategies'[j]
               PROVE  i = j
    OBVIOUS
  <2>1. PICK a \in 1..n : a = IF i < k THEN i ELSE i + 1
    OBVIOUS
  <2>2. PICK b \in 1..n : b = IF j < k THEN j ELSE j + 1
    OBVIOUS
  <2>3. a = b
    BY <1>3, <1>9, <2>1, <2>2
  <2> QED BY <2>1, <2>2, <2>3
<1>11. RegistryTypes'
  BY <1>1, <1>2, <1>8, <1>10, LimitsAssumption DEF RegistryTypes
<1>12. Registered' = Registered \ {s}
  <2>1. Registered' = {strategies'[i] : i \in 1..n-1}
    BY <1>8 DEF Registered
  <2>2. Registered = {strategies[i] : i \in 1..n}
    BY <1>2 DEF Registered
  <2>3. ASSUME NEW t \in Registered' PROVE t \in Registered \ {s}
    <3>1. PICK i \in 1..n-1 : t = strategies'[i]
      BY <2>1, <2>3
    <3>2. PICK a \in 1..n : a = (IF i < k THEN i ELSE i + 1) /\ a # k
      OBVIOUS
    <3>3. t = strategies[a]
      BY <1>9, <3>1, <3>2
    <3>4. t # s
      BY <1>3, <1>4, <3>2, <3>3
    <3> QED BY <2>2, <3>3, <3>4
  <2>4. ASSUME NEW t \in Registered \ {s} PROVE t \in Registered'
    <3>1. PICK a \in 1..n : t = strategies[a]
      BY <2>2, <2>4
    <3>2. a # k
      BY <1>4, <2>4, <3>1
    <3>3. PICK i \in 1..n-1 : a = IF i < k THEN i ELSE i + 1
      <4>1. CASE a < k
        <5>1. a \in 1..n-1 /\ a = IF a < k THEN a ELSE a + 1
          BY <4>1
        <5> QED BY <5>1
      <4>2. CASE a > k
        <5>1. a - 1 \in 1..n-1 /\ a = IF a - 1 < k THEN a - 1 ELSE (a - 1) + 1
          BY <4>2
        <5> QED BY <5>1
      <4> QED BY <3>2, <4>1, <4>2
    <3>4. strategies'[i] = t
      BY <1>9, <3>1, <3>3
    <3> QED BY <2>1, <3>4
  <2> QED BY <2>3, <2>4
<1> QED BY <1>11, <1>12

\* The registry changes, the tokens do not.
LEMMA RegistryMoney ==
  ASSUME MoneyInv, RegistryTypes',
         UNCHANGED <<adminFrame, fundVars, limitVars, upgradeVars>>
  PROVE  /\ MoneyInv' /\ Rescued
         /\ supply' = supply /\ idle' = idle /\ pos' = pos
<1>1. TypeOK
  BY DEF MoneyInv
<1>2. /\ UNCHANGED shareVars /\ UNCHANGED fundVars /\ UNCHANGED envVars
      /\ UNCHANGED <<now, b_rate, pool, envVars>> /\ UNCHANGED <<limitVars, stampVars>>
      /\ UNCHANGED lifeboatVars /\ UNCHANGED upgradeVars
  BY DEF adminFrame
<1>3. /\ ShareTypes' /\ FundTypes' /\ EnvTypes' /\ LimitTypes' /\ LifeboatTypes'
      /\ CodeTypes'
  BY <1>1, <1>2, PartsKept
<1>4. TypeOK'
  BY <1>3, TypePartsNext
<1>5. /\ DeadSharesLocked' /\ TokensConserved'
      /\ \A s \in Strategies : principal'[s] <= principal[s]
  BY <1>2, <1>4, MoneyStill
<1>6. derisked' = derisked
  BY <1>2 DEF lifeboatVars
<1>7. supply' = supply /\ idle' = idle /\ pos' = pos
  BY <1>2, PosKept DEF shareVars, fundVars
<1> QED BY <1>4, <1>5, <1>6, <1>7 DEF MoneyInv, Rescued

LEMMA RegistryGood ==
  ASSUME MoneyInv, NEW s \in Strategies,
         \/ add_strategy(s) \/ remove_strategy(s) \/ emergency_withdraw(s)
  PROVE  GoodStep
<1>1. TypeOK
  BY DEF MoneyInv
<1>2. PICK R \in SUBSET Strategies : R = Registered
  BY <1>1, RegistryFinite
<1>3. IsFiniteSet(R) /\ \A x \in Strategies : pos[x] \in Nat
  BY <1>1, <1>2, RegistryFinite, PosNat
<1>4. idle \in Nat /\ SumOf(pos, R) \in Nat
  BY <1>1, <1>2, AssetsNat, TypeParts DEF FundTypes
<1>4a. PICK d \in Nat : d = 2 * SumOf(Dust, Registered)
  BY <1>1, DustNat
<1>5. CASE add_strategy(s)
  <2>1. RegistryTypes' /\ Registered' = R \cup {s} /\ s \notin R
    BY <1>1, <1>2, <1>5, RegistryAdds DEF add_strategy
  <2>2. /\ MoneyInv' /\ Rescued
        /\ supply' = supply /\ idle' = idle /\ pos' = pos
    BY <1>5, <2>1, RegistryMoney DEF add_strategy
  <2>3. SumOf(pos, R \cup {s}) = SumOf(pos, R) + pos[s]
    <3>1. \A x \in R : pos[x] \in Int
      BY <1>3
    <3>2. pos[s] \in Int
      BY <1>3
    <3> QED BY <1>3, <2>1, <3>1, <3>2, SumInsert
  <2>4. total_assets' + 2 * SumOf(Dust, Registered) >= total_assets
    <3>1. PICK a \in Nat, v \in Nat : a = SumOf(pos, R) /\ v = pos[s]
      BY <1>3, <1>4
    <3>2. total_assets' = idle + (a + v)
      BY <2>1, <2>2, <2>3, <3>1 DEF total_assets
    <3>3. total_assets = idle + a
      BY <1>2, <3>1 DEF total_assets
    <3>4. (idle + (a + v)) + d >= idle + a
      BY <1>4
    <3> QED BY <1>4a, <3>2, <3>3, <3>4
  <2>5. Undiluted
    BY <1>1, <2>2, <2>4, AssetsGrow DEF MoneyInv
  <2> QED BY <2>2, <2>5 DEF GoodStep
<1>6. CASE remove_strategy(s)
  <2>1. s \in R /\ strategies' = Without(s) /\ pos[s] = 0
    BY <1>2, <1>6 DEF remove_strategy
  <2>2. RegistryTypes' /\ Registered' = R \ {s}
    BY <1>1, <1>2, <2>1, RegistryDrops
  <2>3. /\ MoneyInv' /\ Rescued
        /\ supply' = supply /\ idle' = idle /\ pos' = pos
    BY <1>6, <2>2, RegistryMoney DEF remove_strategy
  <2>4. SumOf(pos, R) = pos[s] + SumOf(pos, R \ {s})
    <3>1. \A x \in R : pos[x] \in Int
      BY <1>3
    <3> QED BY <1>3, <2>1, <3>1, SumRemove
  <2>5. total_assets' + 2 * SumOf(Dust, Registered) >= total_assets
    <3>1. R \ {s} \in SUBSET Strategies
      OBVIOUS
    <3>2. PICK a \in Nat : a = SumOf(pos, R \ {s})
      BY <1>1, <3>1, AssetsNat
    <3>3. SumOf(pos, R) = 0 + a
      BY <2>1, <2>4, <3>2
    <3>4. total_assets' = idle + a /\ total_assets = idle + (0 + a)
      BY <1>2, <2>2, <2>3, <3>2, <3>3 DEF total_assets
    <3>5. (idle + a) + d >= idle + (0 + a)
      BY <1>4
    <3> QED BY <1>4a, <3>4, <3>5
  <2>6. Undiluted
    BY <1>1, <2>3, <2>5, AssetsGrow DEF MoneyInv
  <2> QED BY <2>3, <2>6 DEF GoodStep
<1>7. CASE emergency_withdraw(s)
  <2>1. /\ Receive(DrainAll({s}), 0)
        /\ UNCHANGED <<now, shareVars, strategies, b_rate, pool, limitVars, stampVars,
                       mandate_authority, mandate_expiry, upgradeVars, envVars>>
        /\ derisked' = derisked
    BY <1>7 DEF emergency_withdraw, adminFrame, lifeboatVars
  <2>2. derisked \in BOOLEAN
    BY <1>1 DEF TypeOK
  <2> QED BY <2>1, <2>2, DrainGood
<1> QED BY <1>5, <1>6, <1>7

LEMMA QuarantineSafe ==
  ASSUME MoneyInv, NEW s \in Strategies, quarantine_strategy(s)
  PROVE  MoneyInv' /\ Rescued
<1>1. TypeOK
  BY DEF MoneyInv
<1>2. s \in Registered /\ strategies' = Without(s)
  BY DEF quarantine_strategy
<1>3. RegistryTypes'
  BY <1>1, <1>2, RegistryDrops
<1> QED BY <1>3, RegistryMoney DEF quarantine_strategy

LEMMA SettingsGood ==
  ASSUME MoneyInv, SettingsStep
  PROVE  GoodStep
<1>1. TypeOK
  BY DEF MoneyInv
<1>2. UNCHANGED <<adminFrame, fundVars, strategies, upgradeVars>>
  BY DEF SettingsStep, set_keeper, set_limits, set_compound_cooldown, pause,
     unpause
<1>3. /\ UNCHANGED <<shareVars, fundVars, b_rate, envVars, strategies>>
      /\ UNCHANGED <<now, b_rate, pool, envVars>> /\ UNCHANGED lifeboatVars
      /\ UNCHANGED upgradeVars /\ UNCHANGED stampVars
  BY <1>2 DEF adminFrame
<1>4. EnvTypes' /\ LifeboatTypes' /\ CodeTypes'
  BY <1>1, <1>3, PartsKept
<1>5. LimitTypes'
  <2>1. /\ paused \in BOOLEAN /\ keeper \in Keepers \cup {None}
        /\ cooldown_s \in Nat /\ compound_cooldown_s \in Nat
        /\ last_rebalance \in Nat /\ last_compound \in Nat \cup {None}
    BY <1>1 DEF TypeOK
  <2>2. max_move_bps \in 0..10000
    BY <1>1 DEF TypeOK
  <2>3. last_rebalance' = last_rebalance /\ last_compound' = last_compound
    BY <1>3 DEF stampVars
  <2>4. Cooldowns \subseteq Nat
    BY InputsAssumption
  <2>5. CASE \E k \in Keepers : set_keeper(k)
    <3>1. /\ keeper' \in Keepers /\ paused' = paused
          /\ cooldown_s' = cooldown_s /\ max_move_bps' = max_move_bps
          /\ compound_cooldown_s' = compound_cooldown_s
      BY <2>5 DEF set_keeper
    <3> QED BY <2>1, <2>2, <2>3, <3>1 DEF LimitTypes
  <2>6. CASE \E c \in Cooldowns, b \in MoveBps : set_limits(c, b)
    <3>1. PICK c \in Cooldowns, b \in MoveBps : set_limits(c, b)
      BY <2>6
    <3>2. c \in Nat
      BY <2>4
    <3>3. b \in 0..10000
      BY <3>1, BpsAssumption DEF set_limits
    <3>4. /\ cooldown_s' = c /\ max_move_bps' = b /\ paused' = paused
          /\ keeper' = keeper /\ compound_cooldown_s' = compound_cooldown_s
      BY <3>1 DEF set_limits
    <3> QED BY <2>1, <2>3, <3>2, <3>3, <3>4 DEF LimitTypes
  <2>7. CASE \E c \in Cooldowns : set_compound_cooldown(c)
    <3>1. /\ compound_cooldown_s' \in Nat /\ paused' = paused
          /\ keeper' = keeper /\ cooldown_s' = cooldown_s
          /\ max_move_bps' = max_move_bps
      BY <2>4, <2>7 DEF set_compound_cooldown
    <3> QED BY <2>1, <2>2, <2>3, <3>1 DEF LimitTypes
  <2>8. CASE pause \/ unpause
    <3>1. /\ paused' \in BOOLEAN /\ keeper' = keeper
          /\ cooldown_s' = cooldown_s /\ max_move_bps' = max_move_bps
          /\ compound_cooldown_s' = compound_cooldown_s
      BY <2>8 DEF pause, unpause
    <3> QED BY <2>1, <2>2, <2>3, <3>1 DEF LimitTypes
  <2> QED BY <2>5, <2>6, <2>7, <2>8 DEF SettingsStep
<1>6. derisked' = derisked
  BY <1>3 DEF lifeboatVars
<1> QED BY <1>3, <1>4, <1>5, <1>6, QuietGood

LEMMA UpgradeGood ==
  ASSUME MoneyInv, UpgradeStep
  PROVE  GoodStep
<1>1. TypeOK
  BY DEF MoneyInv
<1>2. UNCHANGED <<adminFrame, fundVars, strategies, limitVars>>
  BY DEF UpgradeStep, schedule_upgrade, execute_upgrade, cancel_upgrade
<1>3. /\ UNCHANGED <<shareVars, fundVars, b_rate, envVars, strategies>>
      /\ UNCHANGED <<now, b_rate, pool, envVars>> /\ UNCHANGED lifeboatVars
      /\ UNCHANGED <<limitVars, stampVars>> /\ now' = now
  BY <1>2 DEF adminFrame
<1>4. EnvTypes' /\ LifeboatTypes' /\ LimitTypes'
  BY <1>1, <1>3, PartsKept
<1>5. CodeTypes'
  <2>1. /\ pending \in PendingUpgrade \cup {None} /\ wasm \in Hashes \cup {None}
        /\ announced \in [wasm_hash: Hashes, at: Nat] \cup {None}
        /\ now \in Nat
    BY <1>1 DEF TypeOK
  <2>2. CASE \E x \in Hashes : schedule_upgrade(x)
    <3>1. PICK x \in Hashes : schedule_upgrade(x)
      BY <2>2
    <3>2. /\ pending' = [wasm_hash |-> x, eta |-> now + TimelockDelay]
          /\ announced' = [wasm_hash |-> x, at |-> now] /\ wasm' = wasm
      BY <3>1 DEF schedule_upgrade
    <3>3. /\ pending' \in PendingUpgrade
          /\ announced' \in [wasm_hash: Hashes, at: Nat]
      BY <2>1, <3>2, LimitsAssumption DEF PendingUpgrade
    <3> QED BY <2>1, <3>2, <3>3 DEF CodeTypes
  <2>3. CASE execute_upgrade
    <3>1. /\ pending # None /\ wasm' = pending.wasm_hash /\ pending' = None
          /\ announced' = None
      BY <2>3 DEF execute_upgrade
    <3>2. pending.wasm_hash \in Hashes
      BY <2>1, <3>1 DEF PendingUpgrade
    <3> QED BY <3>1, <3>2 DEF CodeTypes
  <2>4. CASE cancel_upgrade
    BY <2>1, <2>4 DEF cancel_upgrade, CodeTypes
  <2> QED BY <2>2, <2>3, <2>4 DEF UpgradeStep
<1>6. derisked' = derisked
  BY <1>3 DEF lifeboatVars
<1> QED BY <1>3, <1>4, <1>5, <1>6, QuietGood
-----------------------------------------------------------------------------
(* The environment, and the whole specification *)

\* A pool's rate moves: only the position supplied to it changes its value.
LEMMA RateMoves ==
  ASSUME TypeOK, NEW s \in Strategies, NEW rate \in Nat, btok' = btok,
         b_rate' = [b_rate EXCEPT ![s] = rate]
  PROVE  /\ b_rate' \in [Strategies -> Nat] /\ pos' \in [Strategies -> Nat]
         /\ pos'[s] = Underlying(btok[s], rate)
         /\ \A y \in Strategies : y # s => pos'[y] = pos[y]
<1>1. b_rate \in [Strategies -> Nat] /\ \A y \in Strategies : btok[y] \in Nat
  <2>1. b_rate \in [Strategies -> Nat]
    BY DEF TypeOK
  <2> QED BY <2>1, PosNat
<1>2. /\ b_rate' \in [Strategies -> Nat] /\ b_rate'[s] = rate
      /\ \A y \in Strategies : y # s => b_rate'[y] = b_rate[y]
  BY <1>1
<1>3. pos' = [y \in Strategies |-> Underlying(btok[y], b_rate'[y])]
  BY DEF pos, Underlying
<1>4. \A y \in Strategies : Underlying(btok[y], b_rate'[y]) \in Nat
  BY <1>1, <1>2, UnderlyingNat
<1> QED BY <1>2, <1>3, <1>4, PosNat

\* Interest on a position, registered or not.
LEMMA AccrualGood ==
  ASSUME MoneyInv, NEW s \in Strategies, NEW rate \in Rates,
         PoolAccrues(s, rate)
  PROVE  GoodStep
<1>1. TypeOK /\ rate \in Nat
  BY RateAssumption DEF MoneyInv
<1>2. /\ UNCHANGED shareVars /\ UNCHANGED strategies /\ UNCHANGED lifeboatVars
      /\ UNCHANGED upgradeVars /\ UNCHANGED <<limitVars, stampVars>>
      /\ UNCHANGED fundVars
      /\ now' = now /\ pool' = pool /\ lost' = lost
      /\ yield' = yield + Gain(s, rate) /\ b_rate[s] < rate
      /\ idle' = idle /\ principal' = principal /\ btok' = btok
      /\ b_rate' = [b_rate EXCEPT ![s] = rate]
  BY DEF PoolAccrues, envFrame, fundVars
<1>3. /\ pos \in [Strategies -> Nat] /\ principal \in [Strategies -> Nat]
      /\ idle \in Nat /\ now \in Nat
      /\ pool \in [Strategies -> PoolModes \cup {"open"}]
      /\ yield \in Nat /\ lost \in Nat
  BY <1>1, TypeParts, PosNat DEF FundTypes, EnvTypes
<1>3a. PICK g \in Nat : /\ g = Gain(s, rate)
                        /\ Underlying(btok[s], rate) = pos[s] + g
  <2>1. PICK b \in Nat, r \in Nat : /\ b = btok[s] /\ r = b_rate[s]
                                    /\ pos[s] = Underlying(b, r)
    BY <1>1, PosNat
  <2>2. PICK v \in Nat, w \in Nat :
             v = Underlying(b, r) /\ w = Underlying(b, rate)
    BY <1>1, UnderlyingNat
  <2>3. r <= rate
    BY <1>1, <1>2, <2>1
  <2>4. v <= w
    BY <1>1, <2>2, <2>3, UnderlyingMono
  <2>5. w - v \in Nat /\ w = v + (w - v)
    BY <2>4
  <2> QED BY <2>1, <2>2, <2>5 DEF Gain
<1>4. /\ pos' \in [Strategies -> Nat] /\ pos'[s] = pos[s] + g
      /\ b_rate' \in [Strategies -> Nat]
      /\ \A y \in Strategies : y # s => pos'[y] = pos[y]
  BY <1>1, <1>2, <1>3a, RateMoves
<1>5. FundTypes' /\ EnvTypes'
  <2>1. FundTypes'
    BY <1>1, <1>2, PartsKept
  <2>2. yield + g \in Nat
    BY <1>3
  <2> QED BY <1>2, <1>3, <1>3a, <1>4, <2>1, <2>2 DEF EnvTypes
<1>6. RegistryTypes' /\ Registered' = Registered
  BY <1>1, <1>2, PartsKept
<1>7. ShareTypes' /\ LimitTypes' /\ LifeboatTypes' /\ CodeTypes'
  BY <1>1, <1>2, PartsKept
<1>8. TypeOK'
  BY <1>5, <1>6, <1>7, TypePartsNext
<1>9. PICK a \in Nat, b \in Nat :
           a = SumOf(pos, Strategies) /\ b = SumOf(pos', Strategies)
  BY <1>3, <1>4, FundsNat
<1>10. b = a + g
  <2>1. Strategies \in SUBSET Strategies
    OBVIOUS
  <2>2. b + pos[s] = a + pos'[s]
    BY <1>3, <1>4, <1>9, <2>1, PositionChanged
  <2>3. PICK v \in Nat : v = pos[s]
    BY <1>3
  <2>4. b + v = a + (v + g)
    BY <1>4, <2>2, <2>3
  <2> QED BY <2>4
<1>11. idle' + SumOf(pos', Strategies) + lost' + yield
         = idle + SumOf(pos, Strategies) + lost + yield'
  <2>1. idle + b + lost + yield = idle + a + lost + (yield + g)
    BY <1>3, <1>10
  <2> QED BY <1>2, <1>3a, <1>9, <2>1
<1>12. idle' + SumOf(pos', Registered) >= idle + SumOf(pos, Registered)
  <2>1. PICK R \in SUBSET Strategies : R = Registered
    BY <1>1, RegistryFinite
  <2>2. IsFiniteSet(R) /\ SumOf(pos, R) \in Nat /\ SumOf(pos', R) \in Nat
    BY <1>3, <1>4, FundsNat
  <2>3. \A x \in R : pos[x] \in Int /\ pos'[x] \in Int /\ pos[x] <= pos'[x]
    <3>1. \A x \in Strategies : pos[x] \in Nat
      BY <1>3
    <3> QED BY <1>4, <3>1
  <2>4. SumOf(pos, R) <= SumOf(pos', R)
    BY <2>2, <2>3, SumLess
  <2>5. PICK c \in Nat, d \in Nat : c = SumOf(pos, R) /\ d = SumOf(pos', R)
    BY <2>2
  <2>6. idle + d >= idle + c
    BY <1>3, <2>4, <2>5
  <2> QED BY <1>2, <2>1, <2>5, <2>6
<1>13. Rescued
  <2>1. \A x \in Strategies : principal'[x] = principal[x] /\ principal[x] \in Nat
    BY <1>2, <1>3
  <2>2. derisked' = derisked
    BY <1>2 DEF lifeboatVars
  <2> QED BY <2>1, <2>2 DEF Rescued
<1>14. Rounds(pos')
  <2>1. \A x \in Strategies : pos'[x] \in Nat /\ Dust[x] \in Nat
    BY <1>1, <1>4, PosNat
  <2>2. \A x \in Strategies : /\ pos'[x] <= pos'[x]
                             /\ pos'[x] <= pos'[x] + 2 * Dust[x]
    BY <2>1
  <2> QED BY <1>4, <2>1, <2>2 DEF Rounds
<1> QED BY <1>2, <1>6, <1>8, <1>11, <1>12, <1>13, <1>14, FundsGood

\* Bad debt: the tokens are accounted for, the price may fall.
LEMMA LossSafe ==
  ASSUME MoneyInv, NEW s \in Strategies, NEW rate \in Rates, PoolLoses(s, rate)
  PROVE  MoneyInv' /\ Rescued
<1>1. TypeOK /\ rate \in Nat
  BY RateAssumption DEF MoneyInv
<1>2. /\ UNCHANGED shareVars /\ UNCHANGED strategies /\ UNCHANGED lifeboatVars
      /\ UNCHANGED upgradeVars /\ UNCHANGED <<limitVars, stampVars>>
      /\ UNCHANGED fundVars
      /\ now' = now /\ pool' = pool /\ yield' = yield
      /\ lost' = lost - Gain(s, rate) /\ rate < b_rate[s]
      /\ idle' = idle /\ principal' = principal /\ btok' = btok
      /\ b_rate' = [b_rate EXCEPT ![s] = rate]
  BY DEF PoolLoses, envFrame, fundVars
<1>3. /\ pos \in [Strategies -> Nat] /\ principal \in [Strategies -> Nat]
      /\ idle \in Nat /\ now \in Nat
      /\ pool \in [Strategies -> PoolModes \cup {"open"}]
      /\ yield \in Nat /\ lost \in Nat
  BY <1>1, TypeParts, PosNat DEF FundTypes, EnvTypes
<1>3a. PICK n \in Nat : /\ lost' = lost + n /\ n <= pos[s]
                        /\ Underlying(btok[s], rate) = pos[s] - n
  <2>1. PICK b \in Nat, r \in Nat : /\ b = btok[s] /\ r = b_rate[s]
                                    /\ pos[s] = Underlying(b, r)
    BY <1>1, PosNat
  <2>2. PICK v \in Nat, w \in Nat :
             v = Underlying(b, r) /\ w = Underlying(b, rate)
    BY <1>1, UnderlyingNat
  <2>3. rate <= r
    BY <1>1, <1>2, <2>1
  <2>4. w <= v
    BY <1>1, <2>2, <2>3, UnderlyingMono
  <2>5. PICK n \in Nat : n = v - w
    BY <2>4
  <2>6. lost' = lost - (w - v)
    BY <1>2, <2>1, <2>2 DEF Gain
  <2>7. lost' = lost + n /\ n <= v /\ w = v - n
    BY <1>3, <2>5, <2>6
  <2> QED BY <2>1, <2>2, <2>7
<1>4. /\ pos' \in [Strategies -> Nat] /\ pos'[s] = pos[s] - n
      /\ b_rate' \in [Strategies -> Nat]
      /\ \A y \in Strategies : y # s => pos'[y] = pos[y]
  BY <1>1, <1>2, <1>3a, RateMoves
<1>5. FundTypes' /\ EnvTypes'
  <2>1. FundTypes'
    BY <1>1, <1>2, PartsKept
  <2>2. lost + n \in Nat
    BY <1>3
  <2> QED BY <1>2, <1>3, <1>3a, <1>4, <2>1, <2>2 DEF EnvTypes
<1>6. RegistryTypes' /\ ShareTypes' /\ LimitTypes' /\ LifeboatTypes' /\ CodeTypes'
  BY <1>1, <1>2, PartsKept
<1>7. TypeOK'
  BY <1>5, <1>6, TypePartsNext
<1>8. PICK a \in Nat, b \in Nat :
           a = SumOf(pos, Strategies) /\ b = SumOf(pos', Strategies)
  BY <1>3, <1>4, FundsNat
<1>9. b + n = a
  <2>1. Strategies \in SUBSET Strategies
    OBVIOUS
  <2>2. b + pos[s] = a + pos'[s]
    BY <1>3, <1>4, <1>8, <2>1, PositionChanged
  <2>3. PICK v \in Nat : v = pos[s]
    BY <1>3
  <2>4. b + v = a + (v - n)
    BY <1>4, <2>2, <2>3
  <2> QED BY <2>4
<1>10. idle' + SumOf(pos', Strategies) + lost' + yield
         <= idle + SumOf(pos, Strategies) + lost + yield'
  <2>1. idle + b + (lost + n) + yield <= idle + a + lost + yield
    BY <1>3, <1>9
  <2> QED BY <1>2, <1>3a, <1>8, <2>1
<1>11. DeadSharesLocked' /\ TokensConserved'
  BY <1>2, <1>7, <1>10, FundsMoved
<1>12. Rescued
  <2>1. \A x \in Strategies : principal'[x] = principal[x] /\ principal[x] \in Nat
    BY <1>2, <1>3
  <2>2. derisked' = derisked
    BY <1>2 DEF lifeboatVars
  <2> QED BY <2>1, <2>2 DEF Rescued
<1> QED BY <1>7, <1>11, <1>12 DEF MoneyInv

\* A pool that changes status, the clock, or nothing at all.
LEMMA WeatherGood ==
  ASSUME MoneyInv,
         \/ \E s \in Strategies, m \in PoolModes : PoolChanges(s, m)
         \/ Tick
         \/ UNCHANGED vars
  PROVE  GoodStep
<1>1. TypeOK
  BY DEF MoneyInv
<1>2. /\ UNCHANGED <<shareVars, fundVars, b_rate, envVars, strategies>>
      /\ UNCHANGED envVars /\ UNCHANGED <<limitVars, stampVars>>
      /\ UNCHANGED lifeboatVars /\ UNCHANGED upgradeVars
  BY DEF PoolChanges, Tick, envFrame, vars, fundVars
<1>3. LimitTypes' /\ LifeboatTypes' /\ CodeTypes'
  BY <1>1, <1>2, PartsKept
<1>4. EnvTypes'
  <2>1. /\ now \in Nat /\ b_rate \in [Strategies -> Nat]
        /\ pool \in [Strategies -> PoolModes \cup {"open"}]
        /\ yield \in Nat /\ lost \in Nat
    BY <1>1 DEF TypeOK
  <2>2. yield' = yield /\ lost' = lost /\ b_rate' = b_rate
    BY <1>2 DEF envVars
  <2>3. CASE \E s \in Strategies, m \in PoolModes : PoolChanges(s, m)
    <3>1. PICK s \in Strategies, m \in PoolModes : PoolChanges(s, m)
      BY <2>3
    <3>2. pool' = [pool EXCEPT ![s] = m] /\ now' = now
      BY <3>1 DEF PoolChanges
    <3> QED BY <2>1, <2>2, <3>2 DEF EnvTypes
  <2>4. CASE Tick
    BY <2>1, <2>2, <2>4 DEF Tick, EnvTypes
  <2>5. CASE UNCHANGED vars
    BY <2>1, <2>2, <2>5 DEF vars, EnvTypes
  <2> QED BY <2>3, <2>4, <2>5
<1>5. derisked' = derisked
  BY <1>2 DEF lifeboatVars
<1> QED BY <1>2, <1>3, <1>4, <1>5, QuietGood

\* The two ways a share may lose assets.
WrittenOff ==
  \E s \in Strategies :
    quarantine_strategy(s) \/ \E rate \in Rates : PoolLoses(s, rate)

LEMMA MoneyStep ==
  ASSUME MoneyInv, [Next]_vars
  PROVE  MoneyInv' /\ Rescued /\ (WrittenOff \/ Undiluted)
<1>1. CASE HolderStep
  <2>1. PICK h \in Holders, n \in Amounts :
               deposit(h, n) \/ redeem(h, n) \/ Donate(h, n)
    BY <1>1 DEF HolderStep
  <2> QED BY <2>1, DepositGood, RedeemGood, DonateGood DEF GoodStep
<1>2. CASE CompoundStep
  BY <1>2, CompoundGood DEF CompoundStep, GoodStep
<1>3. CASE RebalanceStep
  BY <1>3, RebalanceGood DEF RebalanceStep, GoodStep
<1>4. CASE LifeboatStep
  BY <1>4, LifeboatGood DEF GoodStep
<1>5. CASE RegistryStep
  <2>1. PICK s \in Strategies :
               \/ add_strategy(s)
               \/ remove_strategy(s)
               \/ quarantine_strategy(s)
               \/ emergency_withdraw(s)
    BY <1>5 DEF RegistryStep
  <2>2. CASE quarantine_strategy(s)
    BY <2>2, QuarantineSafe DEF WrittenOff
  <2>3. CASE add_strategy(s) \/ remove_strategy(s) \/ emergency_withdraw(s)
    BY <2>3, RegistryGood DEF GoodStep
  <2> QED BY <2>1, <2>2, <2>3
<1>6. CASE SettingsStep
  BY <1>6, SettingsGood DEF GoodStep
<1>7. CASE UpgradeStep
  BY <1>7, UpgradeGood DEF GoodStep
<1>8. CASE PoolStep
  <2>1. PICK s \in Strategies :
               \/ \E rate \in Rates : PoolAccrues(s, rate)
               \/ \E rate \in Rates : PoolLoses(s, rate)
               \/ \E m \in PoolModes : PoolChanges(s, m)
    BY <1>8 DEF PoolStep
  <2>2. CASE \E rate \in Rates : PoolAccrues(s, rate)
    BY <2>2, AccrualGood DEF GoodStep
  <2>3. CASE \E rate \in Rates : PoolLoses(s, rate)
    BY <2>3, LossSafe DEF WrittenOff
  <2>4. CASE \E m \in PoolModes : PoolChanges(s, m)
    BY <2>4, WeatherGood DEF GoodStep
  <2> QED BY <2>1, <2>2, <2>3, <2>4
<1>9. CASE Tick \/ UNCHANGED vars
  BY <1>9, WeatherGood DEF GoodStep
<1> QED BY <1>1, <1>2, <1>3, <1>4, <1>5, <1>6, <1>7, <1>8, <1>9 DEF Next

\* The constructors start from empty ledgers.
LEMMA InitMoney ==
  ASSUME Init
  PROVE  MoneyInv
<1>1. ShareTypes /\ FundTypes
  BY SharesAssumption DEF Init, ShareTypes, FundTypes
<1>2. RegistryTypes
  BY LimitsAssumption DEF Init, RegistryTypes
<1>3. EnvTypes
  BY LimitsAssumption, RateAssumption DEF Init, EnvTypes
<1>4. LimitTypes /\ LifeboatTypes /\ CodeTypes
  <2>1. max_move_bps \in 0..10000
    <3>1. max_move_bps = DefaultMoveBps
      BY DEF Init
    <3>2. DefaultMoveBps \in 0..10000
      BY LimitsAssumption
    <3> QED BY <3>1, <3>2
  <2>2. cooldown_s \in Nat /\ compound_cooldown_s \in Nat
    BY LimitsAssumption DEF Init
  <2>3. /\ paused \in BOOLEAN /\ keeper \in Keepers \cup {None}
        /\ last_rebalance \in Nat /\ last_compound \in Nat \cup {None}
    BY DEF Init
  <2>4. LimitTypes
    BY <2>1, <2>2, <2>3 DEF LimitTypes
  <2> QED BY <2>4 DEF Init, LifeboatTypes, CodeTypes
<1>5. TypeOK
  BY <1>1, <1>2, <1>3, <1>4, TypeParts
<1>6. DeadSharesLocked
  <2>1. /\ \A x \in Holders \cup {Vault} : shares[x] = 0
        /\ supply = 0
    BY DEF Init
  <2>2. IsFiniteSet(Holders \cup {Vault})
    BY NamesAssumption, FS_AddElement
  <2>3. SumOf(shares, Holders \cup {Vault}) = 0
    BY <2>1, <2>2, SumZero
  <2> QED BY <2>1, <2>3 DEF DeadSharesLocked
<1>7. TokensConserved
  <2>1. /\ \A x \in Holders : wallet[x] = InitialBalance
        /\ idle = 0 /\ lost = 0 /\ yield = 0
    BY DEF Init
  <2>2. SumOf(pos, Strategies) = 0
    <3>1. 0 \div Scalar = 0 /\ 0 * Scalar = 0
      BY RateAssumption
    <3>2. \A x \in Strategies : btok[x] = 0 /\ b_rate[x] = Scalar
      BY DEF Init
    <3>3. \A x \in Strategies : pos[x] = 0
      BY <3>1, <3>2 DEF pos, Underlying
    <3> QED BY <3>3, SumZero, NamesAssumption
  <2>3. SumOf(wallet, Holders) = InitialBalance * Cardinality(Holders)
    BY <2>1, SumConstant, NamesAssumption, SharesAssumption
  <2>4. PICK all \in Nat : all = InitialBalance * Cardinality(Holders)
    BY SharesAssumption, NamesAssumption, FS_CardinalityType
  <2>5. all + idle + 0 + lost <= all + yield
    BY <2>1
  <2> QED BY <2>2, <2>3, <2>4, <2>5 DEF TokensConserved
<1> QED BY <1>5, <1>6, <1>7 DEF MoneyInv

LEMMA MoneyAlways == Spec => []MoneyInv
<1>1. Init => MoneyInv
  BY InitMoney
<1>2. MoneyInv /\ [Next]_vars => MoneyInv'
  BY MoneyStep
<1> QED BY <1>1, <1>2, PTL DEF Spec

\* Every variable keeps its type: no balance, position, book or allowance of
\* the vault and its strategies is ever driven below zero.
THEOREM TypesHold == Spec => []TypeOK
<1>1. MoneyInv => TypeOK
  BY DEF MoneyInv
<1> QED BY <1>1, MoneyAlways, PTL

\* The share ledger adds up and the dead shares stay locked, so the supply
\* never returns to zero (deposit, redeem).
THEOREM DeadSharesStayLocked == Spec => []DeadSharesLocked
<1>1. MoneyInv => DeadSharesLocked
  BY DEF MoneyInv
<1> QED BY <1>1, MoneyAlways, PTL

\* No entry point creates a token (deposit, redeem, compound, rebalance,
\* emergency_derisk, emergency_withdraw): wallets, vault and positions never
\* hold more than was brought in, plus interest and proceeds, less bad debt.
THEOREM TokensAlwaysConserved == Spec => []TokensConserved
<1>1. MoneyInv => TokensConserved
  BY DEF MoneyInv
<1> QED BY <1>1, MoneyAlways, PTL

\* The vault's own rounding never costs those who stay: assets per share fall
\* by bad debt, by a quarantine, or by the bTokens the pools round away in a
\* call (deposit's and redeem's division, compound's slices, and the
\* conversions of blend_strategy), whatever the rates and the amounts.
THEOREM NobodyDiluted == Spec => NoDilution
<1>1. MoneyInv /\ [Next]_vars =>
        [\/ \E s \in Strategies :
              \/ quarantine_strategy(s)
              \/ \E rate \in Rates : PoolLoses(s, rate)
         \/ supply = 0
         \/ LET slack == IF supply' > supply THEN 0
                                            ELSE 2 * SumOf(Dust, Registered)
            IN  (total_assets' + slack) * supply >= total_assets * supply']_vars
  BY MoneyStep DEF WrittenOff, Undiluted
<1> QED BY <1>1, MoneyAlways, PTL DEF Spec, NoDilution

\* After emergency_derisk nothing is supplied to a pool until resume.
THEOREM RescueAlwaysHolds == Spec => RescueHolds
<1>1. MoneyInv /\ [Next]_vars =>
        [derisked => /\ \A s \in Strategies : principal'[s] <= principal[s]
                     /\ derisked' \/ now < mandate_expiry]_vars
  BY MoneyStep DEF Rescued
<1> QED BY <1>1, MoneyAlways, PTL DEF Spec, RescueHolds
-----------------------------------------------------------------------------
(* The exit: ensure_idle raises whatever is within reach *)

\* While ensure_idle misses at least what s can pay, it takes all of it.
LEMMA DrainedFull ==
  ASSUME TypeOK, NEW needed \in Nat, NEW s \in Registered,
         Short(needed, s) >= Reach[s]
  PROVE  Drained(needed)[s] = Reach[s]
<1>1. s \in Strategies
  BY RegistryFinite
<1>2. PICK k \in Int : k = Short(needed, s)
  BY <1>1, DrainedPays
<1>3. PICK r \in Nat : r = Reach[s]
  BY <1>1, ReachNat DEF Payment
<1>4. k >= r
  BY <1>2, <1>3
<1>5. Drained(needed)[s] = IF k > 0 THEN Withdrawn(s, k) ELSE 0
  BY <1>1, <1>2, DrainedPays
<1>6. r = IF Withdrawable(s) THEN pos[s] ELSE 0
  BY <1>1, <1>3, ReachNat
<1>7. CASE k > 0
  <2>1. k \in Nat /\ pos[s] \in Nat
    BY <1>1, <1>7, PosNat
  <2>2. /\ Withdrawable(s) => Withdrawn(s, k) = IF k <= pos[s] THEN k ELSE pos[s]
        /\ ~Withdrawable(s) => Withdrawn(s, k) = 0
    BY <1>1, <2>1, WithdrawnBound
  <2>3. Withdrawn(s, k) = r
    BY <1>4, <1>6, <2>1, <2>2
  <2> QED BY <1>3, <1>5, <1>7, <2>3
<1>8. CASE ~(k > 0)
  BY <1>3, <1>4, <1>5, <1>8
<1> QED BY <1>7, <1>8

\* Once it misses less than s can pay, it takes exactly what it misses.
LEMMA DrainedLast ==
  ASSUME TypeOK, NEW needed \in Nat, NEW s \in Registered,
         Short(needed, s) < Reach[s]
  PROVE  Drained(needed)[s] >= Short(needed, s)
<1>1. s \in Strategies
  BY RegistryFinite
<1>2. PICK k \in Int : k = Short(needed, s)
  BY <1>1, DrainedPays
<1>3. PICK r \in Nat : r = Reach[s]
  BY <1>1, ReachNat DEF Payment
<1>4. k < r
  BY <1>2, <1>3
<1>5. Drained(needed)[s] = IF k > 0 THEN Withdrawn(s, k) ELSE 0
  BY <1>1, <1>2, DrainedPays
<1>6. r = IF Withdrawable(s) THEN pos[s] ELSE 0
  BY <1>1, <1>3, ReachNat
<1>7. CASE k > 0
  <2>1. k \in Nat /\ Withdrawable(s) /\ k <= pos[s]
    BY <1>4, <1>6, <1>7
  <2>2. Withdrawn(s, k) = k
    BY <1>1, <2>1, WithdrawnBound
  <2> QED BY <1>2, <1>5, <1>7, <2>2
<1>8. CASE ~(k > 0)
  BY <1>2, <1>5, <1>8
<1> QED BY <1>7, <1>8

\* The registry's order: what precedes the i-th strategy.
LEMMA BeforePosition ==
  ASSUME TypeOK, NEW i \in 1..Len(strategies)
  PROVE  /\ strategies[i] \notin Before(strategies[i])
         /\ \A t \in Before(strategies[i]) :
              \E j \in 1..Len(strategies) : j < i /\ t = strategies[j]
<1>1. \A k, j \in 1..Len(strategies) : strategies[k] = strategies[j] => k = j
  BY DEF TypeOK
<1>2. PICK n \in Nat : n = Len(strategies)
  BY DEF TypeOK
<1>3. ASSUME NEW t \in Before(strategies[i])
      PROVE  \E j \in 1..n : j < i /\ t = strategies[j]
  <2>1. PICK j \in 1..n : /\ t = strategies[j]
                          /\ \E k \in j+1..n : strategies[k] = strategies[i]
    BY <1>2 DEF Before
  <2>2. PICK k \in j+1..n : strategies[k] = strategies[i]
    BY <2>1
  <2>3. k \in 1..n
    OBVIOUS
  <2>4. k = i
    BY <1>1, <1>2, <2>2, <2>3
  <2>5. j < i
    BY <2>4
  <2> QED BY <2>1, <2>5
<1>4. strategies[i] \notin Before(strategies[i])
  <2>1. SUFFICES ASSUME strategies[i] \in Before(strategies[i]) PROVE FALSE
    OBVIOUS
  <2>2. PICK j \in 1..n : j < i /\ strategies[i] = strategies[j]
    BY <1>3, <2>1
  <2>3. j = i
    BY <1>1, <1>2, <2>2
  <2> QED BY <1>2, <2>2, <2>3
<1> QED BY <1>2, <1>3, <1>4

\* ensure_idle succeeds whenever the strategies that still pay hold enough.
LEMMA DrainCovers ==
  ASSUME TypeOK, NEW needed \in Nat,
         needed <= idle + SumOf(pos, {s \in Registered : Withdrawable(s)})
  PROVE  Covered(needed)
<1>1. PICK R \in SUBSET Strategies : R = Registered
  BY RegistryFinite
<1>2. IsFiniteSet(R) /\ \A x \in Strategies : pos[x] \in Nat
  BY <1>1, RegistryFinite, PosNat
<1>3. PICK W \in SUBSET R : W = {s \in R : Withdrawable(s)}
  OBVIOUS
<1>4. PICK D : D = Drained(needed)
  OBVIOUS
<1>5. /\ \A x \in Strategies : D[x] \in Nat
      /\ \A x \in Strategies : x \notin R => D[x] = 0
  BY <1>1, <1>4, DrainedPays DEF Payment
<1>6. \A x \in Strategies : /\ Reach[x] \in Nat
                            /\ Reach[x] = IF Withdrawable(x) THEN pos[x] ELSE 0
  BY ReachNat DEF Payment
<1>7. SumOf(Reach, R) = SumOf(pos, W)
  <2>1. SumOf(Reach, R) = SumOf(Reach, W)
    <3>1. \A x \in W : Reach[x] \in Int
      BY <1>6
    <3>2. \A x \in R \ W : Reach[x] = 0
      BY <1>3, <1>6
    <3> QED BY <1>2, <3>1, <3>2, SumSupport
  <2>2. SumOf(Reach, W) = SumOf(pos, W)
    <3>1. \A x \in W : Reach[x] \in Int /\ Reach[x] = pos[x]
      BY <1>3, <1>6
    <3>2. IsFiniteSet(W)
      BY <1>2, FS_Subset
    <3> QED BY <3>1, <3>2, SumSame
  <2> QED BY <2>1, <2>2
<1>8. SumOf(D, Strategies) = SumOf(D, R)
  <2>1. \A x \in R : D[x] \in Int
    BY <1>5
  <2>2. \A x \in Strategies \ R : D[x] = 0
    BY <1>5
  <2> QED BY <2>1, <2>2, SumSupport, NamesAssumption
<1>9. idle \in Nat /\ SumOf(D, R) \in Nat /\ SumOf(Reach, R) \in Nat
  <2>1. \A x \in R : D[x] \in Nat
    BY <1>5
  <2>2. SumOf(D, R) \in Nat
    BY <1>2, <2>1, SumNat
  <2>3. idle \in Nat
    BY DEF TypeOK
  <2> QED BY <2>2, <2>3, ReachNat
<1>10. needed <= idle + SumOf(Reach, R)
  BY <1>1, <1>3, <1>7
<1>11. idle + SumOf(D, R) >= needed
  <2>1. CASE \A s \in R : Short(needed, s) >= Reach[s]
    <3>1. \A s \in R : D[s] \in Int /\ D[s] = Reach[s]
      BY <1>1, <1>4, <1>5, <2>1, DrainedFull
    <3>2. SumOf(D, R) = SumOf(Reach, R)
      BY <1>2, <3>1, SumSame
    <3> QED BY <1>9, <1>10, <3>2
  <2>2. CASE \E s \in R : ~(Short(needed, s) >= Reach[s])
    <3> DEFINE B == {i \in 1..Len(strategies) :
                       ~(Short(needed, strategies[i]) >= Reach[strategies[i]])}
    <3>1. B # {} /\ B \in SUBSET (1..Len(strategies))
      BY <1>1, <2>2 DEF Registered
    <3>2. \E i \in B : \A j \in B : i <= j
      <4>1. Len(strategies) \in Nat
        BY DEF TypeOK
      <4> HIDE DEF B
      <4> QED BY <3>1, <4>1, FirstPosition
    <3>3. PICK i \in 1..Len(strategies) :
               /\ ~(Short(needed, strategies[i]) >= Reach[strategies[i]])
               /\ \A j \in 1..Len(strategies) :
                    j < i => Short(needed, strategies[j]) >= Reach[strategies[j]]
      BY <3>2
    <3>4. PICK s \in R : s = strategies[i]
      BY <1>1 DEF Registered
    <3>5. PICK P \in SUBSET R : P = Before(s)
      BY <1>1, RegistryFinite
    <3>6. \A t \in P : D[t] \in Int /\ D[t] = Reach[t]
      <4>1. ASSUME NEW t \in P PROVE Short(needed, t) >= Reach[t]
        BY <3>3, <3>4, <3>5, BeforePosition
      <4> QED BY <1>1, <1>4, <1>5, <4>1, DrainedFull
    <3>7. SumOf(D, P) = SumOf(Reach, P) /\ IsFiniteSet(P)
      BY <1>2, <3>6, FS_Subset, SumSame
    <3>8. PICK k \in Int : k = Short(needed, s)
      BY DrainedPays
    <3>9. PICK r \in Nat : r = SumOf(Reach, P)
      BY ReachNat
    <3>10. k = needed - idle - r
      BY <3>5, <3>8, <3>9 DEF Short
    <3>11. D[s] >= k /\ D[s] \in Nat
      <4>1. Short(needed, s) < Reach[s]
        BY <1>6, <3>3, <3>4, <3>8
      <4> QED BY <1>1, <1>4, <1>5, <3>8, <4>1, DrainedLast
    <3>12. s \notin P
      BY <3>4, <3>5, BeforePosition
    <3>13. SumOf(D, P \cup {s}) = r + D[s]
      BY <3>6, <3>7, <3>9, <3>11, <3>12, SumInsert
    <3>14. SumOf(D, P \cup {s}) <= SumOf(D, R)
      <4>1. P \cup {s} \in SUBSET R /\ \A x \in R : D[x] \in Nat
        BY <1>5
      <4> QED BY <1>2, <4>1, SumPart
    <3>15. PICK a \in Nat, b \in Nat : a = D[s] /\ b = SumOf(D, R)
      BY <1>9, <3>11
    <3>16. a >= needed - idle - r /\ r + a <= b
      BY <3>10, <3>11, <3>13, <3>14, <3>15
    <3>17. idle + b >= needed
      BY <1>9, <3>16
    <3> QED BY <3>15, <3>17
  <2> QED BY <2>1, <2>2
<1> QED BY <1>4, <1>8, <1>11 DEF Covered

\* A holder's exit is refused only when a balance cannot be read or the
\* strategies that still pay do not hold the payout: neither the pause, nor
\* the lifeboat, nor a strategy that traps stands in the way, whatever the
\* order of the registry (redeem, ensure_idle).
THEOREM ExitsAlwaysOpen == Spec => []ExitsStayOpen
<1>1. MoneyInv => ExitsStayOpen
  <2>1. SUFFICES ASSUME MoneyInv, NEW h \in Holders, NavReadable,
                        shares[h] > 0, Payout(shares[h]) > 0,
                        Payout(shares[h])
                          <= idle + SumOf(pos, {s \in Registered :
                                                  Withdrawable(s)})
                 PROVE  RedeemAllowed(h, shares[h])
    BY DEF ExitsStayOpen
  <2>2. shares[h] \in Nat /\ shares[h] <= shares[h]
    BY <2>1, TypeParts DEF MoneyInv, ShareTypes
  <2>3. Payout(shares[h]) \in Nat
    BY <2>1, <2>2, PayoutFacts
  <2>4. Covered(Payout(shares[h]))
    BY <2>1, <2>3, DrainCovers DEF MoneyInv
  <2> QED BY <2>1, <2>2, <2>4 DEF RedeemAllowed
<1> QED BY <1>1, MoneyAlways, PTL
=============================================================================
