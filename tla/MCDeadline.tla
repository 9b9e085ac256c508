----------------------------- MODULE MCDeadline -----------------------------
(* Deadline for TLC: the configuration gives all constants.                *)
EXTENDS Deadline
=============================================================================
