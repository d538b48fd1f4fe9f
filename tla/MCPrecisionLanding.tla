------------------------- MODULE MCPrecisionLanding -------------------------
(***************************************************************************)
(* PrecisionLanding with two pads of different height.                      *)
(***************************************************************************)
EXTENDS PrecisionLanding

CONSTANTS pad1, pad2

TwoPads == {[at |-> pad1, level |-> 0], [at |-> pad2, level |-> 1]}
=============================================================================
