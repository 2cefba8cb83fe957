------------------------ MODULE MCEvidenceRetrieval ------------------------
(***************************************************************************)
(* Instances of EvidenceRetrieval for TLC.                                 *)
(***************************************************************************)
EXTENDS EvidenceRetrieval, TLC

CONSTANTS w1, q1, r1, r2, b1, c1, c2, p1

\* One binding with two runs, with the chunk hash c2 in common.
TwoRuns == r1 :> b1 @@ r2 :> b1
OneShared == r1 :> {c1, c2} @@ r2 :> {c2}
OnePolicy == b1 :> p1

\* The same without a common chunk.
TwoContents == r1 :> {c1} @@ r2 :> {c2}
=============================================================================
