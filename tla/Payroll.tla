------------------------------ MODULE Payroll ------------------------------
(***************************************************************************)
(* What WaveFlow promises about one merge: it is paid at most once, it is  *)
(* recorded only after it was paid, and neither is ever undone.            *)
(***************************************************************************)

CONSTANT Merge

VARIABLES
    paid,     \* the merges paid on chain
    recorded  \* the merges the database reports as paid

Init == paid = {} /\ recorded = {}

Pay(m) ==
    /\ m \notin paid
    /\ paid' = paid \cup {m}
    /\ UNCHANGED recorded

Record(m) ==
    /\ m \in paid \ recorded
    /\ recorded' = recorded \cup {m}
    /\ UNCHANGED paid

Next == \E m \in Merge : Pay(m) \/ Record(m)

Spec == Init /\ [][Next]_<<paid, recorded>>

=============================================================================
