--------------------------- MODULE MCFundingRouter --------------------------
(* Small instances of FundingRouter. *)
EXTENDS FundingRouter, TLC

\* A vault agent: cap 2 per period of one second, alive for three seconds.
VaultInit == [target |-> "vault", token |-> "usdc", kind |-> 0,
              route |-> NoRoute, cap |-> 2, period_duration |-> 1,
              expiry |-> 3]
\* A bridge agent pinned to one Base recipient.
BridgeInit == [target |-> "messenger", token |-> "usdc", kind |-> 1,
               route |-> "base", cap |-> 2, period_duration |-> 2,
               expiry |-> 2]

\* Raw salts and execution ids are opaque hashes, and so are owners' addresses.
MCSymmetry ==
  Permutations(Salts) \cup Permutations(Execs) \cup Permutations(Owners)

MCVaultInits == {VaultInit}
MCTwoKinds == {[VaultInit EXCEPT !.cap = 1], BridgeInit}
=============================================================================
