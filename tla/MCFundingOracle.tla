----------------------------- MODULE MCFundingOracle -----------------------------
(* An instance of FundingOracle for TLC. *)
EXTENDS FundingOracle

MCAsked == {-100, -15, -4, 5, 100}
MCPrices == {1, 3}
=============================================================================
