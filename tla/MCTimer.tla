------------------------------ MODULE MCTimer ------------------------------
(* Alarms of one and two ticks, and one of two that ties with it.            *)
EXTENDS Timer

CONSTANTS a1, a2, a3

Periods == [a \in Alarms |-> IF a = a1 THEN 1 ELSE 2]
=============================================================================
