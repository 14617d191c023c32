--------------------------- MODULE MCBaseDeposits --------------------------
(* Small instances of BaseDeposits. *)
EXTENDS BaseDeposits, TLC

CONSTANTS c1, c2, j1, j2

\* Two jobs of one child each: they run at once at boot.
TwoJobs == [j \in Jobs |-> IF j = j1 THEN <<c1>> ELSE <<c2>>]
\* One job of two children: the second waits for the first.
OneJob == [j \in Jobs |-> <<c1, c2>>]

OneKid == [j \in Jobs |-> <<c1>>]

\* Deposits of different pools or amounts, and of the same.
Different == [c \in Children |-> c]
Same == [c \in Children |-> "same"]

AnyWorker == Permutations(Workers)
=============================================================================
