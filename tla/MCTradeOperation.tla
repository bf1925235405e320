--------------------------- MODULE MCTradeOperation ---------------------------
(***************************************************************************)
(* An instance of TradeOperation for TLC.                                  *)
(***************************************************************************)
EXTENDS TradeOperation

\* 0x9, 0xa, 0xB and 0xb: texts whose order differs from that of their values.
SomeAddresses == {[value |-> v, upper |-> 0] : v \in {9, 10, 11}}
                   \cup {[value |-> 11, upper |-> 1]}
=============================================================================
