------------------------- MODULE MCIndexGeneration -------------------------
(***************************************************************************)
(* Instances of IndexGeneration for TLC.                                   *)
(***************************************************************************)
EXTENDS IndexGeneration, TLC

CONSTANTS w1, w2, r1, r2, b1, b2, c1, c2

\* Two runs of one binding, as after a new version of the parser, with the chunk hash
\* c2 in common.
TwoRunsOneBinding == r1 :> b1 @@ r2 :> b1
OneSharedChunk == r1 :> {c1, c2} @@ r2 :> {c2}

\* Two bindings of one document.
OneRunPerBinding == r1 :> b1 @@ r2 :> b2
=============================================================================
