--------------------------- MODULE MCRecruitment ---------------------------
(***************************************************************************)
(* Instances of Recruitment for TLC.                                       *)
(***************************************************************************)
EXTENDS Recruitment, TLC

CONSTANTS c1, c2, k1, x1, d1, m1
=============================================================================
