------------------------------ MODULE MCGateway ------------------------------
(* Instances of Gateway for TLC. *)
EXTENDS Gateway, Deliveries, TLC

Symmetric == Permutations(Worker)

=============================================================================
