---------------------------- MODULE MCWorkQueue -----------------------------
(* Small instance of WorkQueue: more items than the queue can hold. *)
EXTENDS WorkQueue
=============================================================================
