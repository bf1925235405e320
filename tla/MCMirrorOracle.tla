---------------------------- MODULE MCMirrorOracle ----------------------------
(* An instance of P1MirrorOracle for TLC: two signers share a first byte. *)
EXTENDS P1MirrorOracle, TLC

CONSTANTS alice, anne, bob, carl

FirstBytes == alice :> 1 @@ anne :> 1 @@ bob :> 2 @@ carl :> 3
=============================================================================
