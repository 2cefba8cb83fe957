------------------------- MODULE MCPolicyLifecycle -------------------------
(***************************************************************************)
(* Instances of PolicyLifecycle for TLC.                                   *)
(***************************************************************************)
EXTENDS PolicyLifecycle, TLC

CONSTANTS c1, c2, v1, v2, p1, x1

\* Two versions of one policy.
OnePolicy == v1 :> p1 @@ v2 :> p1

\* Clients are alike, and so are the ids of the versions of one policy.
Symmetry == Permutations({c1, c2}) \cup Permutations({v1, v2})
=============================================================================
