----------------------------- MODULE MCVarray -----------------------------
(* A ring of four entries, so that a handful of groups wraps it.           *)
EXTENDS Varray
=============================================================================
