----------------------------- MODULE MCSteering -----------------------------
(* Instances of Steering for TLC. *)
EXTENDS Steering

CONSTANTS i1, i2, i3

\* Every setup in which the mirror can be trusted, and the one in which it cannot.
LossySetup == [mode |-> "discard", hooks |-> TRUE]
SafeSetups == AllSetups \ {LossySetup}
LossySetups == {LossySetup}
=============================================================================
