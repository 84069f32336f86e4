------------------------------ MODULE Gateway ------------------------------
(***************************************************************************)
(* The webhook gateway (crates/gateway): what github_webhook and           *)
(* process_merge do with the deliveries GitHub sends, over the tables of   *)
(* Store, while the admin API changes them.                                *)
(*                                                                         *)
(* A worker is a request being handled: a tokio task that runs without     *)
(* interruption from one await to the next, so an action is one database   *)
(* query and what follows it up to the next query.  A query may fail, with *)
(* its statement executed or not, and a handler may stop at any await: the *)
(* server drops the future of a request whose connection closes, and a     *)
(* crash drops all of them.  MaxFaults bounds both.                        *)
(*                                                                         *)
(* Operators named Mutant... are faulty variants of the operator after     *)
(* them; no action uses them.                                              *)
(***************************************************************************)
EXTENDS AdminApi, Functions

CONSTANTS
    Worker,     \* requests that can be handled at the same time
    MaxSends,   \* bound: how often GitHub sends one delivery
    MaxFaults,  \* bound: failed queries and dropped handlers
    NoDelivery  \* what an idle worker handles

(* A delivery: its x-github-delivery id, its x-github-event type, what its *)
(* body parses as, and the payload fields parse_merge_event looks at.      *)
DeliveryShape(d) ==
    /\ d.type \in {"pull_request", "other"}
    /\ d.body \in {"pull_request", "json", "garbage"}
    /\ {d.closed, d.merged, d.on_default_branch} \subseteq BOOLEAN
    /\ d.repo \in Repo /\ d.user \in User /\ d.pr \in PrNumber

ASSUME GatewayAssumption ==
    /\ \A d \in Delivery : DeliveryShape(d)
    /\ \A d, e \in Delivery : d.id = e.id /\ d.id # NoId => d = e
    /\ NoDelivery \notin Delivery
    /\ MaxSends \in Nat /\ MaxFaults \in Nat

VARIABLES
    jobs,      \* Worker -> the state of its handler
    sent,      \* Delivery -> how often GitHub sent it
    attested,  \* Delivery -> attestations submitted for it
    answers,   \* Delivery -> the responses it was given: {<<code, body>>}
    faults     \* failed queries and dropped handlers so far

gateway == <<jobs, sent, attested, answers, faults>>
gvars == <<tables, gateway>>

Step == {"idle", "reject", "seen", "claim", "ignore", "resolve", "status",
         "exists", "contributor", "submit", "price", "payout", "spent",
         "audit", "fail"}
Error == {"Unauthorized", "Validation", "Webhook", "NotFound", "Conflict",
          "Database", "Chain"}
Idle == [pc |-> "idle", delivery |-> NoDelivery, amount |-> 0, error |-> "Webhook"]

http_status_code(error) ==
    CASE error = "Unauthorized" -> 401
      [] error \in {"Validation", "Webhook"} -> 400
      [] error = "NotFound" -> 404
      [] error = "Conflict" -> 409
      [] error \in {"Database", "Chain"} -> 500

Body == Error \cup {"processed", "already_processed", "duplicate_delivery", "ignored"}
Answer == {200, 400, 401, 404, 409, 500} \X Body

TypeOK ==
    /\ TablesOK
    /\ jobs \in [Worker -> [pc: Step, delivery: Delivery \cup {NoDelivery},
                            amount: Nat, error: Error]]
    /\ \A w \in Worker : jobs[w].delivery = NoDelivery <=> jobs[w].pc = "idle"
    /\ sent \in [Delivery -> 0..MaxSends]
    /\ attested \in [Delivery -> 0..MaxSends]
    /\ answers \in [Delivery -> SUBSET Answer]
    /\ faults \in 0..MaxFaults

-----------------------------------------------------------------------------
(* How a handler goes on. *)

DeliveryOf(w) == jobs[w].delivery

Begin(w, d, pc) == jobs' = [jobs EXCEPT ![w] = [Idle EXCEPT !.pc = pc, !.delivery = d]]

Goto(w, pc) ==
    /\ jobs' = [jobs EXCEPT ![w].pc = pc]
    /\ UNCHANGED answers

Fail(w, error) ==
    /\ jobs' = [jobs EXCEPT ![w].pc = "fail", ![w].error = error]
    /\ UNCHANGED answers

Respond(w, d, code, body) ==
    /\ jobs' = [jobs EXCEPT ![w] = Idle]
    /\ answers' = [answers EXCEPT ![d] = @ \cup {<<code, body>>}]

(* A query fails. *)
DbError == faults < MaxFaults /\ faults' = faults + 1

(* INSERT INTO webhook_events; a violated unique index leaves it as it is. *)
Logged(d, status) ==
    IF EventConflict(d) THEN webhook_events
    ELSE webhook_events \cup {[delivery |-> d, status |-> status]}

-----------------------------------------------------------------------------
(* github_webhook. *)

MutantAnyClosed(d) == d.closed
parse_merge_event(d) == d.closed /\ d.merged /\ d.on_default_branch

(* The body is JSON, and that of a pull_request event has its fields. *)
Parses(d) ==
    /\ d.body # "garbage"
    /\ d.type = "pull_request" => d.body = "pull_request"

(* What follows the claim, up to the next query. *)
Dispatch(w, d) ==
    \/ /\ ~Parses(d)
       /\ Respond(w, d, 400, "Webhook")
    \/ /\ Parses(d)
       /\ Begin(w, d, IF d.type = "pull_request" /\ parse_merge_event(d)
                      THEN "resolve" ELSE "ignore")
       /\ UNCHANGED answers

(* GitHub sends a delivery, or sends it again.  What                       *)
(* verify_github_signature says depends on the secret, which is configured *)
(* on both sides, so it is an input.                                       *)
receive(w, d, signature) ==
    /\ jobs[w].pc = "idle"
    /\ sent[d] < MaxSends
    /\ sent' = [sent EXCEPT ![d] = @ + 1]
    /\ \/ /\ signature \in {"Unauthorized", "Webhook"}
          /\ jobs' = [jobs EXCEPT ![w] =
                 [Idle EXCEPT !.pc = "reject", !.delivery = d, !.error = signature]]
          /\ UNCHANGED answers
       \/ /\ signature = "verified" /\ d.id # NoId
          /\ Begin(w, d, "seen") /\ UNCHANGED answers
       \/ /\ signature = "verified" /\ d.id = NoId
          /\ Dispatch(w, d)
    /\ UNCHANGED <<tables, attested, faults>>

(* The audit row is written on a best-effort basis, its failure ignored. *)
Conclude(w, status, code, body) ==
    /\ \/ webhook_events' = Logged(DeliveryOf(w), status) /\ UNCHANGED faults
       \/ webhook_events' = webhook_events /\ DbError
    /\ Respond(w, DeliveryOf(w), code, body)
    /\ UNCHANGED <<programs, contributors, payouts, sent, attested>>

reject(w) ==
    /\ jobs[w].pc = "reject"
    /\ Conclude(w, "rejected", http_status_code(jobs[w].error), jobs[w].error)
ignore(w) == jobs[w].pc = "ignore" /\ Conclude(w, "ignored", 200, "ignored")
fail(w) ==
    /\ jobs[w].pc = "fail"
    /\ Conclude(w, "failed", http_status_code(jobs[w].error), jobs[w].error)

(* A failed look-up counts as "not seen". *)
delivery_id_seen(w) ==
    /\ jobs[w].pc = "seen"
    /\ \/ /\ EventConflict(DeliveryOf(w))
          /\ Respond(w, DeliveryOf(w), 200, "duplicate_delivery")
          /\ UNCHANGED faults
       \/ ~EventConflict(DeliveryOf(w)) /\ Goto(w, "claim") /\ UNCHANGED faults
       \/ DbError /\ Goto(w, "claim")
    /\ UNCHANGED <<tables, sent, attested>>

MutantClaimAnyway(w) ==
    /\ jobs[w].pc = "claim"
    /\ webhook_events' = Logged(DeliveryOf(w), "processing")
    /\ Dispatch(w, DeliveryOf(w))
    /\ UNCHANGED <<programs, contributors, payouts, sent, attested, faults>>
claim_delivery_id(w) ==
    /\ jobs[w].pc = "claim"
    /\ \/ /\ EventConflict(DeliveryOf(w))
          /\ Respond(w, DeliveryOf(w), 409, "Conflict")
          /\ UNCHANGED <<webhook_events, faults>>
       \/ /\ ~EventConflict(DeliveryOf(w))
          /\ webhook_events' = Logged(DeliveryOf(w), "processing")
          /\ Dispatch(w, DeliveryOf(w))
          /\ UNCHANGED faults
       \/ /\ DbError
          /\ webhook_events' \in {webhook_events, Logged(DeliveryOf(w), "processing")}
          /\ Respond(w, DeliveryOf(w), 500, "Database")
    /\ UNCHANGED <<programs, contributors, payouts, sent, attested>>

-----------------------------------------------------------------------------
(* process_merge. *)

RepoOf(w) == DeliveryOf(w).repo
PrOf(w) == DeliveryOf(w).pr

(* A query of process_merge that fails ends it. *)
QueryFails(w) == DbError /\ Fail(w, "Database")

resolve_program_id(w) ==
    /\ jobs[w].pc = "resolve"
    /\ LET active == RepoOf(w) \in DOMAIN programs /\ programs[RepoOf(w)].status = "active"
       IN  \/ active /\ Goto(w, "status") /\ UNCHANGED faults
           \/ ~active /\ Fail(w, "NotFound") /\ UNCHANGED faults
           \/ QueryFails(w)
    /\ UNCHANGED <<tables, sent, attested>>

load_program_status(w) ==
    /\ jobs[w].pc = "status"
    /\ \/ programs[RepoOf(w)].status = "paused" /\ Goto(w, "ignore") /\ UNCHANGED faults
       \/ programs[RepoOf(w)].status # "paused" /\ Goto(w, "exists") /\ UNCHANGED faults
       \/ QueryFails(w)
    /\ UNCHANGED <<tables, sent, attested>>

(* fetch_payout_id reads the same row once more; rows are never deleted. *)
payout_exists(w) ==
    /\ jobs[w].pc = "exists"
    /\ \/ /\ PayoutConflict(RepoOf(w), PrOf(w))
          /\ Respond(w, DeliveryOf(w), 200, "already_processed")
          /\ UNCHANGED faults
       \/ ~PayoutConflict(RepoOf(w), PrOf(w)) /\ Goto(w, "contributor") /\ UNCHANGED faults
       \/ QueryFails(w)
    /\ UNCHANGED <<tables, sent, attested>>

IsRegistered(w) == <<RepoOf(w), DeliveryOf(w).user>> \in DOMAIN contributors

resolve_contributor_address(w) ==
    /\ jobs[w].pc = "contributor"
    /\ \/ IsRegistered(w) /\ Goto(w, "submit") /\ UNCHANGED faults
       \/ ~IsRegistered(w) /\ Fail(w, "NotFound") /\ UNCHANGED faults
       \/ QueryFails(w)
    /\ UNCHANGED <<tables, sent, attested>>

(* Always succeeds: the RPC client is not wired in. *)
submit_attestation(w) ==
    /\ jobs[w].pc = "submit"
    /\ attested' = [attested EXCEPT ![DeliveryOf(w)] = @ + 1]
    /\ Goto(w, "price")
    /\ UNCHANGED <<tables, sent, faults>>

MutantActiveOnly(w) ==
    /\ jobs[w].pc = "price"
    /\ \/ /\ programs[RepoOf(w)].status = "active"
          /\ jobs' = [jobs EXCEPT ![w].pc = "payout",
                                  ![w].amount = programs[RepoOf(w)].reward_per_point]
          /\ UNCHANGED <<answers, faults>>
       \/ programs[RepoOf(w)].status # "active" /\ Fail(w, "NotFound") /\ UNCHANGED faults
       \/ QueryFails(w)
    /\ UNCHANGED <<tables, sent, attested>>
load_reward_per_point(w) ==
    /\ jobs[w].pc = "price"
    /\ \/ /\ jobs' = [jobs EXCEPT ![w].pc = "payout",
                                  ![w].amount = programs[RepoOf(w)].reward_per_point]
          /\ UNCHANGED <<answers, faults>>
       \/ QueryFails(w)
    /\ UNCHANGED <<tables, sent, attested>>

Paid(w) ==
    Inserted(payouts, <<RepoOf(w), PrOf(w)>>,
        [stellar_address |-> contributors[<<RepoOf(w), DeliveryOf(w).user>>],
         amount |-> jobs[w].amount])

MutantConflictIsPaid(w) ==
    /\ jobs[w].pc = "payout"
    /\ payouts' = IF PayoutConflict(RepoOf(w), PrOf(w)) THEN payouts ELSE Paid(w)
    /\ Goto(w, "spent")
    /\ UNCHANGED <<programs, contributors, webhook_events, sent, attested, faults>>
MutantErrorIgnored(w) ==
    /\ jobs[w].pc = "payout"
    /\ \/ ~PayoutConflict(RepoOf(w), PrOf(w)) /\ payouts' = Paid(w) /\ UNCHANGED faults
       \/ payouts' = payouts /\ DbError
    /\ Goto(w, "spent")
    /\ UNCHANGED <<programs, contributors, webhook_events, sent, attested>>
persist_payout(w) ==
    /\ jobs[w].pc = "payout"
    /\ \/ /\ PayoutConflict(RepoOf(w), PrOf(w))
          /\ Fail(w, "Conflict") /\ UNCHANGED <<payouts, faults>>
       \/ /\ ~PayoutConflict(RepoOf(w), PrOf(w))
          /\ payouts' = Paid(w)
          /\ Goto(w, "spent") /\ UNCHANGED faults
       \/ payouts' = payouts /\ QueryFails(w)
       \/ /\ ~PayoutConflict(RepoOf(w), PrOf(w))
          /\ payouts' = Paid(w)
          /\ QueryFails(w)
    /\ UNCHANGED <<programs, contributors, webhook_events, sent, attested>>

(* UPDATE programs SET milestone_spent = ..., escrow_balance = GREATEST(...) *)
MutantNoGreatest(w) ==
    [programs EXCEPT ![RepoOf(w)].milestone_spent = @ + jobs[w].amount,
                     ![RepoOf(w)].escrow_balance = @ - jobs[w].amount]
Spent(w) ==
    LET left == programs[RepoOf(w)].escrow_balance - jobs[w].amount
    IN  [programs EXCEPT ![RepoOf(w)].milestone_spent = @ + jobs[w].amount,
                         ![RepoOf(w)].escrow_balance = IF left > 0 THEN left ELSE 0]

increment_milestone_spent(w) ==
    /\ jobs[w].pc = "spent"
    /\ \/ programs' = Spent(w) /\ Goto(w, "audit") /\ UNCHANGED faults
       \/ programs' \in {programs, Spent(w)} /\ QueryFails(w)
    /\ UNCHANGED <<contributors, payouts, webhook_events, sent, attested>>

(* The row `claim` inserted holds the delivery id already. *)
persist_webhook_event(w) ==
    /\ jobs[w].pc = "audit"
    /\ \/ /\ EventConflict(DeliveryOf(w))
          /\ Fail(w, "Database") /\ UNCHANGED <<webhook_events, faults>>
       \/ /\ ~EventConflict(DeliveryOf(w))
          /\ webhook_events' = Logged(DeliveryOf(w), "processed")
          /\ Respond(w, DeliveryOf(w), 200, "processed")
          /\ UNCHANGED faults
       \/ /\ webhook_events' \in {webhook_events, Logged(DeliveryOf(w), "processed")}
          /\ QueryFails(w)
    /\ UNCHANGED <<programs, contributors, payouts, sent, attested>>

-----------------------------------------------------------------------------
(* The connection of a request closes, or the process stops. *)
drop(w) ==
    /\ jobs[w].pc # "idle"
    /\ DbError
    /\ jobs' = [jobs EXCEPT ![w] = Idle]
    /\ UNCHANGED <<tables, sent, attested, answers>>

Init ==
    /\ EmptyTables
    /\ jobs = [w \in Worker |-> Idle]
    /\ sent = [d \in Delivery |-> 0]
    /\ attested = [d \in Delivery |-> 0]
    /\ answers = [d \in Delivery |-> {}]
    /\ faults = 0

Query(w) ==
    \/ reject(w) \/ delivery_id_seen(w) \/ claim_delivery_id(w)
    \/ ignore(w) \/ fail(w)
    \/ resolve_program_id(w) \/ load_program_status(w) \/ payout_exists(w)
    \/ resolve_contributor_address(w)
    \/ load_reward_per_point(w) \/ persist_payout(w)
    \/ increment_milestone_spent(w) \/ persist_webhook_event(w)

Handle(w) == Query(w) \/ submit_attestation(w)

(* Everything but the submission. *)
Serve ==
    \/ \E w \in Worker, d \in Delivery,
           signature \in {"verified", "Unauthorized", "Webhook"} : receive(w, d, signature)
    \/ \E w \in Worker : Query(w) \/ drop(w)
    \/ AdminNext /\ UNCHANGED gateway

Next == Serve \/ \E w \in Worker : submit_attestation(w)

Spec == Init /\ [][Next]_gvars

(* The runtime polls every task that is ready, and every query ends. *)
FairSpec == Spec /\ \A w \in Worker : WF_gvars(Handle(w))

-----------------------------------------------------------------------------
(* Safety. *)

IsMerge(d) == d.closed /\ d.merged /\ d.on_default_branch
Eligible(d) ==
    /\ d.repo \in DOMAIN programs /\ programs[d.repo].status = "active"
    /\ <<d.repo, d.user>> \in DOMAIN contributors
HasPayout(d) == <<d.repo, d.pr>> \in DOMAIN payouts

PayoutsOf(repo) == {key \in DOMAIN payouts : key[1] = repo}
PaidAmounts == [key \in DOMAIN payouts |-> payouts[key].amount]
Spendings(repo) == SumFunctionOnSet(PaidAmounts, PayoutsOf(repo))
Pending(repo) == {w \in Worker : jobs[w].pc = "spent" /\ RepoOf(w) = repo}
JobAmounts == [w \in Worker |-> jobs[w].amount]
PendingSpendings(repo) == SumFunctionOnSet(JobAmounts, Pending(repo))

(* A delivery that carries an id reaches the chain at most once, however   *)
(* often and however concurrently it is sent, and also when the look-up of *)
(* delivery_id_seen fails: claim_delivery_id decides.                      *)
SubmittedOncePerDelivery ==
    \A d \in Delivery : d.id # NoId => attested[d] <= 1

(* A payout row stands for a merge to the default branch that was attested *)
(* on chain before, and names the wallet its author has registered.        *)
PaidWasAttested ==
    \A key \in DOMAIN payouts : \E d \in Delivery :
        /\ key = <<d.repo, d.pr>> /\ IsMerge(d) /\ attested[d] > 0
        /\ <<d.repo, d.user>> \in DOMAIN contributors
        /\ payouts[key].stellar_address = contributors[<<d.repo, d.user>>]

(* Whoever is told that a pull request is paid, by the answer to a         *)
(* delivery or by a "processed" audit row, finds its payout row.           *)
AcknowledgedIsPaid ==
    \A d \in Delivery :
        \/ <<200, "processed">> \in answers[d]
        \/ <<200, "already_processed">> \in answers[d]
        \/ [delivery |-> d, status |-> "processed"] \in webhook_events
        => HasPayout(d)

(* milestone_spent counts each payout once, up to what a handler is about  *)
(* to add, whichever handlers raced for it: never twice, never one that    *)
(* has no row, and never too little but for a statement that failed.       *)
SpentReconciles ==
    \A repo \in DOMAIN programs :
        LET counted == programs[repo].milestone_spent + PendingSpendings(repo)
        IN  counted <= Spendings(repo) /\ (faults = 0 => counted = Spendings(repo))

-----------------------------------------------------------------------------
(* Liveness. *)

(* Without faults, a merge whose handling began is paid if its program     *)
(* stays active and its author registered, whatever else is delivered.     *)
MergePaid ==
    \A d \in Delivery :
        []((\E w \in Worker : jobs[w].pc = "resolve" /\ DeliveryOf(w) = d)
              /\ []Eligible(d) => <>HasPayout(d))

-----------------------------------------------------------------------------
(* What the docs and comments say and the code does not do. *)

Quiescent == \A w \in Worker : jobs[w].pc = "idle"

(* docs/gateway/webhook-response-matrix.md: "Payout recorded" is answered  *)
(* with 200.  The row of claim_delivery_id makes the INSERT that ends      *)
(* process_merge fail, and the answer is a 500.                            *)
PayoutAcknowledged ==
    Quiescent => \A key \in DOMAIN payouts : \E d \in Delivery :
        key = <<d.repo, d.pr>> /\ \E body \in Body : <<200, body>> \in answers[d]

(* docs/database/schema.md: milestone_spent is the running total toward    *)
(* the cap.  A failure between the two statements of a payout leaves the   *)
(* payout out of the total for ever.                                       *)
MilestoneTotal ==
    Quiescent => \A repo \in DOMAIN programs :
        programs[repo].milestone_spent = Spendings(repo)

=============================================================================
