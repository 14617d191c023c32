--------------------------- MODULE MCAutofarmVault --------------------------
(***************************************************************************)
(* A small instance of AutofarmVault.  Money and control meet in           *)
(* derisked, paused and keeper only, so the run explores two corners of    *)
(* the state space: pools in trouble while no mandate and no upgrade is    *)
(* about, and mandates, settings and upgrades over one healthy strategy.   *)
(***************************************************************************)
EXTENDS AutofarmVault, TLC

Troubled == {s \in Strategies : pool[s] # "open" \/ blnd[s] > 0}
OffPar == {s \in Strategies : b_rate[s] # Scalar}

ControlAtRest ==
  /\ now = DefaultCooldown
  /\ mandate_authority = None
  /\ pending = None /\ wasm = None
  /\ cooldown_s = DefaultCooldown /\ max_move_bps = DefaultMoveBps
  /\ compound_cooldown_s = DefaultCompoundCooldown

MoneyAtRest ==
  /\ Troubled \cup OffPar = {} /\ yield = 0 /\ lost = 0
  /\ Len(strategies) <= 1 /\ ~paused
  /\ \A s \in Strategies : s \notin Registered => btok[s] = 0

\* In the first corner the supply is at most twice the first deposit, and at a
\* time one pool is off par and one fails or has paid out BLND; none if paused.
PoolsFail ==
  /\ supply <= 2 * InitialBalance
  /\ LET most == IF paused THEN 0 ELSE 1
     IN  Cardinality(Troubled) <= most /\ Cardinality(OffPar) <= most

\* The keeper is named before there is anything to keep.
Corners ==
  /\ keeper = None => supply = 0 /\ strategies = <<>>
  /\ (ControlAtRest /\ PoolsFail) \/ MoneyAtRest

\* Strategies are interchangeable, and so are the hashes of an upgrade.
MCSymmetry == Permutations(Strategies) \cup Permutations(Hashes)
=============================================================================
