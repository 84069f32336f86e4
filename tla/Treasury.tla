------------------------------ MODULE Treasury ------------------------------
(***************************************************************************)
(* What the escrow contract promises, without ids, tokens calls or error   *)
(* codes: pots of money that belong to owners.  An open pot pays for jobs, *)
(* each job once; a closed pot can only be refunded, whole and to its      *)
(* owner.  Money moves between wallets and pots and is never created.      *)
(***************************************************************************)
EXTENDS Integers

CONSTANTS
    Holder,  \* who can have a wallet
    House,   \* the holder that keeps the pots
    Pot,
    Job

VARIABLES
    wallet,   \* Holder -> money that is in no pot
    pot,      \* Pot -> money in it
    owner,    \* opened pots -> Holder
    open,     \* the pots that pay
    settled   \* {<<pot, job>>} already paid for

tvars == <<wallet, pot, owner, open, settled>>

Init ==
    /\ wallet \in [Holder -> Nat]
    /\ pot = [p \in Pot |-> 0]
    /\ owner = [p \in {} |-> p]
    /\ open = {}
    /\ settled = {}

(* A holder opens an unused pot, empty. *)
Open(p, h) ==
    /\ p \notin DOMAIN owner
    /\ owner' = [q \in DOMAIN owner \cup {p} |-> IF q = p THEN h ELSE owner[q]]
    /\ open' = open \cup {p}
    /\ UNCHANGED <<wallet, pot, settled>>

(* Its owner, and nobody else, moves a positive amount into a pot. *)
Deposit(p, a) ==
    /\ p \in DOMAIN owner
    /\ a \in 1..wallet[owner[p]]
    /\ wallet' = [wallet EXCEPT ![owner[p]] = @ - a]
    /\ pot' = [pot EXCEPT ![p] = @ + a]
    /\ UNCHANGED <<owner, open, settled>>

(* An open pot pays h for a job it has not paid for yet. *)
Award(p, h, job, a) ==
    /\ p \in open
    /\ <<p, job>> \notin settled
    /\ a \in 1..pot[p]
    /\ wallet' = [wallet EXCEPT ![h] = @ + a]
    /\ pot' = [pot EXCEPT ![p] = @ - a]
    /\ settled' = settled \cup {<<p, job>>}
    /\ UNCHANGED <<owner, open>>

(* A closed pot goes back to its owner, all of it. *)
Refund(p) ==
    /\ p \in DOMAIN owner \ open
    /\ wallet' = [wallet EXCEPT ![owner[p]] = @ + pot[p]]
    /\ pot' = [pot EXCEPT ![p] = 0]
    /\ UNCHANGED <<owner, open, settled>>

Close(p) ==
    /\ open' = open \ {p}
    /\ UNCHANGED <<wallet, pot, owner, settled>>

Reopen(p) ==
    /\ p \in DOMAIN owner
    /\ open' = open \cup {p}
    /\ UNCHANGED <<wallet, pot, owner, settled>>

(* Holders, other than the house, pay each other and the house. *)
Pay(h, g, a) ==
    /\ a \in 1..wallet[h] /\ h # g /\ h # House
    /\ wallet' = [wallet EXCEPT ![h] = @ - a, ![g] = @ + a]
    /\ UNCHANGED <<pot, owner, open, settled>>

Next ==
    \/ \E p \in Pot :
        \/ \E h \in Holder \ {House} : Open(p, h)
        \/ \E h \in Holder : \E a \in 1..wallet[h] : Deposit(p, a)
        \/ \E h \in Holder, job \in Job : \E a \in 1..pot[p] : Award(p, h, job, a)
        \/ Refund(p)
        \/ Close(p)
        \/ Reopen(p)
    \/ \E h, g \in Holder : \E a \in 1..wallet[h] : Pay(h, g, a)

Spec == Init /\ [][Next]_tvars

=============================================================================
