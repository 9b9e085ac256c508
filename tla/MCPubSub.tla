------------------------------ MODULE MCPubSub ------------------------------
(***************************************************************************)
(* Model values for PubSub.tla.                                           *)
(***************************************************************************)
EXTENDS PubSub

CONSTANTS a, b, c1, c2

\* SUBSCRIBE and UNSUBSCRIBE of two channels at once.
MCArgs == {<<b, a>>}
=============================================================================
