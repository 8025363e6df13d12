----------------------------- MODULE Deployment -----------------------------
(***************************************************************************)
(* What the hot-update mechanism promises of versions: a version runs as   *)
(* one unit, its platform with its web dist, and takes over in one step;   *)
(* what is durable is a version that ran; and a process that starts        *)
(* resumes the durable version, or the packaged one, and no mixture.       *)
(***************************************************************************)
CONSTANTS Versions, Packaged

VARIABLES
  running,   \* the platform and the web dist that serve, or <<>>
  durable    \* the version a restart would resume

Unit(v) == <<v, v>>

Init == running = <<>> /\ durable \in Versions \union {Packaged}

Land ==
  /\ running /= <<>>
  /\ \E v \in Versions : running' = Unit(v)
  /\ UNCHANGED durable

Commit ==
  /\ \E v \in Versions : running = Unit(v) /\ durable' = v
  /\ UNCHANGED running

Stop == running' = <<>> /\ UNCHANGED durable

Start ==
  /\ running = <<>>
  /\ running' \in {Unit(durable), Unit(Packaged)}
  /\ UNCHANGED durable

Next == Land \/ Commit \/ Stop \/ Start

Spec == Init /\ [][Next]_<<running, durable>>
=============================================================================
