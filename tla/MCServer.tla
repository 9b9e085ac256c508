------------------------------ MODULE MCServer ------------------------------
(***************************************************************************)
(* Model values for Server.tla.                                           *)
(***************************************************************************)
EXTENDS Server

CONSTANTS a, b, c1, c2, c3
=============================================================================
