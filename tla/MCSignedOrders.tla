----------------------------- MODULE MCSignedOrders -----------------------------
(* An instance of SignedOrders for TLC. *)
EXTENDS SignedOrders

\* Tenths of a unit: besides the library's own fees, one that rounds up to a unit,
\* and a rebate that rounds to nothing but keeps its sign.
RoundingFees == {Positive(5), Decimal(4, TRUE)}
MCRebate == Decimal(14, TRUE)
MCSmallFee == Positive(15)
MCLargeFee == Positive(10)
=============================================================================
