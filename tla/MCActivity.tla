----------------------------- MODULE MCActivity -----------------------------
(***************************************************************************)
(* One Activity with two runs, for TLC.                                    *)
(***************************************************************************)
EXTENDS ActivityRuns, TLC

Helper == [place |-> "helper", use |-> "offer"]

\* Each place once,
EachPlace == {[place |-> "session", use |-> "apply"], [place |-> "work", use |-> "none"],
              Helper, [place |-> "caller", use |-> "offer"]}

\* and besides, what an agent's Session made offered for acceptance.
AnyKind == [r \in Runs |-> EachPlace \cup {[place |-> "session", use |-> "offer"]}]

\* One run at any place; the other, which competes with it, is a helper's.
AnyAgainstHelper ==
    LET one == CHOOSE r \in Runs : TRUE
    IN [r \in Runs |-> IF r = one THEN EachPlace ELSE {Helper}]

Symmetry == Permutations(Runs)
=============================================================================
