------------------------------ MODULE MCKeeper ------------------------------
(* A small instance of Keeper; the constants in its .cfg need no definition. *)
EXTENDS Keeper
=============================================================================
