------------------------------ MODULE MCSystem ------------------------------
(* Instances of System for TLC. *)
EXTENDS System, Deliveries, TLC

CONSTANTS alice

(* The maintainer holds the tokens. *)
MCSupply == [a \in Address |-> IF a = alice THEN 2 ELSE 0]

(* The two wallets a contributor may register. *)
Symmetric == Permutations(Account)

=============================================================================
