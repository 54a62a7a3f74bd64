------------------------------ MODULE MCGateway -----------------------------
(* Instances of Gateway for TLC: requests competing for one key.           *)
EXTENDS Gateway
=============================================================================
