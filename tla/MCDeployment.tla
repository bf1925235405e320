------------------------------ MODULE MCDeployment ------------------------------
(* An instance of Deployment for TLC. *)
EXTENDS Deployment, TLC

CONSTANTS okc, hardhat, first, second

\* Two runs, on the chain of the developers and on another.
TwoChains == first :> hardhat @@ second :> okc
=============================================================================
