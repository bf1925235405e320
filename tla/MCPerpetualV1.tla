--------------------------- MODULE MCPerpetualV1 ---------------------------
(***************************************************************************)
(* An instance of PerpetualV1 for TLC.                                      *)
(***************************************************************************)
EXTENDS PerpetualV1, TLC

CONSTANTS trader, spot, backup, funderA, funderB

TwoFeeds == spot :> {2, 3} @@ backup :> {0, 2}
TwoFunders == funderA :> {1} @@ funderB :> {-1}
=============================================================================
