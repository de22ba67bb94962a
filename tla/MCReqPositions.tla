--------------------------- MODULE MCReqPositions ---------------------------
(***************************************************************************)
(* Model values for checking ReqPositions with TLC.                        *)
(***************************************************************************)
EXTENDS ReqPositions

CONSTANTS k1, k2, k3

MCKeys == {k1, k2, k3}
=============================================================================
