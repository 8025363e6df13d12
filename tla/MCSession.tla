----------------------------- MODULE MCSession -----------------------------
(* Instances of SessionManager for TLC: the inputs, and the notice of one  *)
(* background task, as model values.                                       *)
EXTENDS SessionManager, TLC

CONSTANTS t1, t2, t3, n1
=============================================================================
