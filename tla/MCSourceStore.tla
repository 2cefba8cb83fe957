--------------------------- MODULE MCSourceStore ---------------------------
(***************************************************************************)
(* An instance of SourceStore for TLC.                                     *)
(***************************************************************************)
EXTENDS SourceStore, TLC

CONSTANTS c1, c2, h1, h2

Symmetry == Permutations({c1, c2}) \cup Permutations({h1, h2})
=============================================================================
