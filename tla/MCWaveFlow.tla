----------------------------- MODULE MCWaveFlow -----------------------------
(* Instances of WaveFlow for TLC. *)
EXTENDS WaveFlow, Deliveries, TLC

CONSTANTS alice

(* The maintainer holds the tokens. *)
MCSupply == [a \in Address |-> IF a = alice THEN 2 ELSE 0]

Symmetric == Permutations(Worker)

=============================================================================
