------------------------------ MODULE WaveFlow ------------------------------
(***************************************************************************)
(* The system: the gateway and the admin API over Postgres, next to the    *)
(* escrow contract, which maintainers call on their own.  Database and     *)
(* contract meet in submit_attestation only; each keeps a status, a ratio  *)
(* and registrations of its own.                                           *)
(*                                                                         *)
(* The submission is modelled as a deployment wires it in                  *)
(* (docs/gateway/chain-submission-modes.md: the placeholder is replaced by *)
(* a signed record_merge transaction): the code hands over the attestation *)
(* and goes on with Ok or returns the error.  The client itself is         *)
(* external: its answer may be lost, the transaction executed or not.      *)
(***************************************************************************)
EXTENDS Gateway

CONSTANTS
    Address, Contract, Token, Absent,         \* as in Escrow ...
    Maintainer,                               \* who calls the contract
    Oracle,                                   \* the gateway's key on chain
    Funding,                                  \* amounts a maintainer funds
    MaxI128, MaxPrograms, MaxFunded, Supply   \* ... as in Escrow

VARIABLES
    instance, counter, chain_programs, chain_contributors, processed,
    balances, events, result

chain == <<instance, counter, chain_programs, chain_contributors, processed,
           balances, events, result>>
wvars == <<gvars, chain>>

points == 1  \* parse_merge_event attests one point per merge

Escrow == INSTANCE Escrow WITH
    programs <- chain_programs, contributors <- chain_contributors,
    Username <- User, Payees <- Account, Admins <- Maintainer,
    Gateways <- {Oracle}, Points <- {points}, Amount <- Reward \cup Funding

ASSUME WaveFlowAssumption == Escrow!EscrowAssumption

-----------------------------------------------------------------------------
(* Maintainers call the contract; a call it refuses changes nothing there. *)
maintain ==
    /\ \E caller \in Maintainer :
        \/ \E repo \in Repo, reward \in Reward, cap \in Cap \cup {NoCap} :
               Escrow!create_program(caller, repo, reward, cap)
        \/ \E p \in Escrow!ProgramId :
            \/ \E amount \in Funding : Escrow!fund(p, caller, amount)
            \/ \E user \in User, payee \in Account :
                   Escrow!register_contributor(p, caller, user, payee)
            \/ Escrow!pause(p, caller)
            \/ Escrow!resume(p, caller)
            \/ \E reward \in Reward : Escrow!set_ratio(p, caller, reward)
            \/ Escrow!withdraw_remaining(p, caller)
    /\ result' = Escrow!Ok
    /\ UNCHANGED gvars

build_attestation(w) ==
    [program_id |-> programs[RepoOf(w)].on_chain_program_id,
     github_username |-> DeliveryOf(w).user, pr_number |-> PrOf(w), points |-> points]

(* The transaction that carries the attestation is executed. *)
record_merge(w) ==
    LET a == build_attestation(w)
    IN  Escrow!record_merge(Oracle, a.program_id, a.github_username, a.pr_number, a.points)

(* process_merge goes on with a hash and returns an error. *)
MutantIgnored(w) == Goto(w, "price")
Outcome(w) ==
    \/ result' = Escrow!Ok /\ Goto(w, "price")
    \/ result' # Escrow!Ok /\ Fail(w, "Chain")

(* The answer is lost: an error, or the handler stops while it waits. *)
AnswerLost(w) ==
    /\ DbError
    /\ \/ Fail(w, "Chain")
       \/ jobs' = [jobs EXCEPT ![w] = Idle] /\ UNCHANGED answers

submit(w) ==
    /\ jobs[w].pc = "submit"
    /\ attested' = [attested EXCEPT ![DeliveryOf(w)] = @ + 1]
    /\ \/ record_merge(w) /\ Outcome(w) /\ UNCHANGED faults
       \/ record_merge(w) /\ AnswerLost(w)
       \/ AnswerLost(w) /\ UNCHANGED chain
    /\ UNCHANGED <<tables, sent>>

WaveFlowInit == Init /\ Escrow!InitDeployed

WaveFlowNext ==
    \/ Serve /\ UNCHANGED chain
    \/ \E w \in Worker : submit(w)
    \/ maintain

WaveFlowSpec == WaveFlowInit /\ [][WaveFlowNext]_wvars

-----------------------------------------------------------------------------
(* The merges the database reports as paid, by the program on chain. *)
Recorded ==
    {<<programs[key[1]].on_chain_program_id, key[2]>> : key \in DOMAIN payouts}

Promise == INSTANCE Payroll WITH
    Merge <- Escrow!ProgramId \X PrNumber, paid <- processed, recorded <- Recorded

(* The database never reports a payment the contract did not make, however *)
(* deliveries race and whatever fails or is paused on either side: a       *)
(* submission that is refused or not answered ends process_merge.          *)
PayrollImplemented == Promise!Spec

(* Without faults the database reports every payment once the handlers are *)
(* done (docs/operations/monitoring.md compares the two), although status, *)
(* ratio and registrations may change after the submission: the queries    *)
(* that follow it cannot refuse the merge any more.                        *)
PaymentsRecorded == faults = 0 /\ Quiescent => processed \subseteq Recorded

(* What the audit of docs/operations/monitoring.md compares, program by    *)
(* program: the payout rows, and the payments the contract's events        *)
(* announce for the program's on-chain id.  There is never a row too many; *)
(* without faults none is missing once the handlers are done.              *)
Announced(on_chain_id) ==
    IF on_chain_id \in Escrow!ProgramId THEN events[on_chain_id].merges ELSE 0
AuditReconciles ==
    \A repo \in DOMAIN programs :
        LET rows == Cardinality(PayoutsOf(repo))
            payments == Announced(programs[repo].on_chain_program_id)
        IN  rows <= payments /\ (faults = 0 /\ Quiescent => rows = payments)

(* Of the handlers that race for one merge, record_merge lets one through: *)
(* between the submission and the payout row a payment that the database   *)
(* does not report yet is in the hands of one handler, and persist_payout  *)
(* never meets a conflict.                                                 *)
Unreported(w) == jobs[w].pc \in {"price", "payout"}
PaymentInHand ==
    \A w \in Worker : Unreported(w) =>
        /\ <<build_attestation(w).program_id, PrOf(w)>> \in processed \ Recorded
        /\ \A v \in Worker \ {w} :
               Unreported(v) => <<RepoOf(v), PrOf(v)>> # <<RepoOf(w), PrOf(w)>>

=============================================================================
