------------------------------ MODULE MCLock ------------------------------
(* Instances of Lock for TLC: two or three children, of which two may die.  *)
EXTENDS Lock
=============================================================================
