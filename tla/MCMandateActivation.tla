------------------------- MODULE MCMandateActivation ------------------------
(* A small instance of MandateActivation. *)
EXTENDS MandateActivation, TLC

Interchangeable == Permutations(Mandates)
=============================================================================
