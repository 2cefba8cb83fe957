------------------------- MODULE MCIngestionQueue -------------------------
(***************************************************************************)
(* An instance of IngestionQueue for TLC.                                  *)
(***************************************************************************)
EXTENDS IngestionQueue, TLC

CONSTANT k1

\* Two runs that are asked for with one key.
TwoForOneKey == 1 :> k1 @@ 2 :> k1

\* A worker finds one chunk or two in what it reads.
FirstOrBoth == {{0}, {0, 1}}
=============================================================================
