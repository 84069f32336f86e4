------------------------------ MODULE MCEscrow ------------------------------
(* Instances of Escrow for TLC: who there is, and what they start with. *)
EXTENDS Escrow

CONSTANTS alice, bob, oracle, escrow, Rich

(* The maintainers hold the tokens. *)
MCSupply == [a \in Address |-> IF a \in Rich THEN 2 ELSE 0]

=============================================================================
