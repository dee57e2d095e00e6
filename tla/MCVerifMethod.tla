--------------------------- MODULE MCVerifMethod ---------------------------
(* Instance of VerifMethod: one named proxy beside the default one.        *)
EXTENDS VerifMethod

CONSTANTS p1, default
=============================================================================
