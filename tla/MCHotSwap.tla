----------------------------- MODULE MCHotSwap -----------------------------
(***************************************************************************)
(* HotSwap on small instances: versions that share parts with one another, *)
(* one of them without native assets.                                      *)
(***************************************************************************)
EXTENDS HotSwap, TLC

CONSTANTS v1, v2, v3, a, b, c

\* v1 and v2 come with the same web dist, v2 and v3 with the same CLI; v3 has no
\* native assets, the other two have one set each.
MCPart ==
  [platform |-> (v1 :> a) @@ (v2 :> b) @@ (v3 :> c),
   cli      |-> (v1 :> a) @@ (v2 :> b) @@ (v3 :> b),
   web      |-> (v1 :> a) @@ (v2 :> a) @@ (v3 :> c),
   assets   |-> (v1 :> a) @@ (v2 :> b) @@ (v3 :> NoPart)]
=============================================================================
