----------------------------- MODULE MCServer -----------------------------
(* The child of Server with four slots, which admits two connections, three  *)
(* events of clients and of accept(), one file of three parts, a timeout of  *)
(* one tick and bursts of two; requests come without a bound.                *)
EXTENDS Server
=============================================================================
