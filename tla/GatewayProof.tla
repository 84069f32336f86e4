---------------------------- MODULE GatewayProof ----------------------------
(* Theorems about the webhook gateway, for every value of the constants:   *)
(* any deliveries, any number of concurrent handlers, any faults.          *)
EXTENDS Gateway, FiniteSetTheorems, TLAPS

-----------------------------------------------------------------------------
(* The steps of process_merge; those before the chain is called, and those *)
(* after; and the handlers that may still call it.                         *)
Unsubmitted == {"resolve", "status", "exists", "contributor", "submit"}
Submitted == {"price", "payout", "spent", "audit"}
MayAttest == {"seen", "claim"} \cup Unsubmitted

(* What a handler has found out by the time it is at a step. *)
HandlerOK(w) ==
    LET d == DeliveryOf(w)
        pc == jobs[w].pc
    IN  /\ pc \in Unsubmitted \cup Submitted => IsMerge(d)
        /\ pc \in (Unsubmitted \cup Submitted) \ {"resolve"} => d.repo \in DOMAIN programs
        /\ pc \in {"submit"} \cup Submitted => <<d.repo, d.user>> \in DOMAIN contributors
        /\ pc \in Submitted => attested[d] > 0
        /\ pc \in {"payout", "spent"} => jobs[w].amount > 0
        /\ pc \in {"spent", "audit"} => HasPayout(d)
HandlersOK == \A w \in Worker : HandlerOK(w)

(* Each time a delivery is sent, its handler submits at most once. *)
Attesting(d) == {w \in Worker : DeliveryOf(w) = d /\ jobs[w].pc \in MayAttest}
AttestedOK ==
    \A d \in Delivery :
        /\ IsFiniteSet(Attesting(d))
        /\ attested[d] + Cardinality(Attesting(d)) <= sent[d]

(* A delivery with an id has a row from its claim on, and one handler at   *)
(* most is between that claim and the submission, which comes once.        *)
Holds(w, d) == DeliveryOf(w) = d /\ jobs[w].pc \in Unsubmitted
ClaimOK(d) ==
    /\ attested[d] <= 1
    /\ attested[d] > 0 => EventConflict(d)
    /\ \A w \in Worker : Holds(w, d) =>
          /\ EventConflict(d) /\ attested[d] = 0
          /\ \A v \in Worker : Holds(v, d) => v = w
ClaimsOK == \A d \in Delivery : d.id # NoId => ClaimOK(d)

(* Every payout row belongs to a program. *)
PayoutsOK == \A key \in DOMAIN payouts : key[1] \in DOMAIN programs

GatewayInv ==
    /\ TypeOK /\ HandlersOK /\ AttestedOK /\ ClaimsOK
    /\ PayoutsOK /\ PaidWasAttested /\ AcknowledgedIsPaid

-----------------------------------------------------------------------------
(* What one step does, whichever query, request or fault it is. *)

Job == [pc: Step, delivery: Delivery \cup {NoDelivery}, amount: Nat, error: Error]

(* Rows are never deleted, and what identifies them never changes. *)
Grown ==
    /\ \A r \in DOMAIN programs :
          /\ r \in DOMAIN programs'
          /\ programs'[r].on_chain_program_id = programs[r].on_chain_program_id
    /\ \A key \in DOMAIN contributors :
          key \in DOMAIN contributors' /\ contributors'[key] = contributors[key]
    /\ \A key \in DOMAIN payouts :
          key \in DOMAIN payouts' /\ payouts'[key] = payouts[key]
    /\ webhook_events \subseteq webhook_events'

Typed ==
    /\ TablesOK
    /\ answers \in [Delivery -> SUBSET Answer]
    /\ faults \in 0..MaxFaults

(* Worker w, and no other, changes what it does. *)
Works(w) ==
    /\ jobs' = [jobs EXCEPT ![w] = jobs'[w]]
    /\ jobs'[w] \in Job

Administers == UNCHANGED <<gateway, payouts, webhook_events>>

Arrives(w, d) ==
    LET k == jobs'[w]
    IN  /\ Works(w)
        /\ jobs[w].pc = "idle" /\ sent[d] < MaxSends
        /\ sent' = [sent EXCEPT ![d] = @ + 1]
        /\ UNCHANGED <<tables, attested>>
        /\ \/ k = Idle
           \/ k.delivery = d /\ k.pc \in {"reject", "seen", "ignore", "resolve"}
        /\ k.pc = "resolve" => IsMerge(d) /\ d.id = NoId
        /\ \A e \in Delivery : answers'[e] \subseteq answers[e] \cup {<<400, "Webhook">>}

(* How a handler goes on: each step of process_merge is reached from the   *)
(* one before it only.                                                     *)
GoesOn(w) ==
    LET d == DeliveryOf(w)
        j == jobs[w]
        k == jobs'[w]
    IN  /\ Works(w) /\ j.pc # "idle"
        /\ k = Idle \/ (k.delivery = d /\ k.pc # "idle")
        /\ k.pc \notin {"reject", "seen", "price"}
        /\ k.pc = "claim" => j.pc = "seen"
        /\ k.pc = "resolve" =>
              /\ j.pc = "claim" /\ IsMerge(d)
              /\ d.id # NoId => /\ ~EventConflict(d)
                                /\ \E row \in webhook_events' : row.delivery.id = d.id
        /\ k.pc = "status" => j.pc = "resolve" /\ d.repo \in DOMAIN programs
        /\ k.pc = "exists" => j.pc = "status"
        /\ k.pc = "contributor" => j.pc = "exists"
        /\ k.pc = "submit" => j.pc = "contributor" /\ IsRegistered(w)
        /\ k.pc = "payout" => j.pc = "price" /\ k.amount > 0
        /\ k.pc = "spent" => j.pc = "payout" /\ k.amount = j.amount
        /\ k.pc = "audit" => j.pc = "spent"

Handles(w) ==
    LET d == DeliveryOf(w)
        j == jobs[w]
    IN  /\ GoesOn(w)
        /\ UNCHANGED <<sent, attested, contributors>>
        /\ \/ UNCHANGED payouts /\ jobs'[w].pc # "spent"
           \/ /\ j.pc = "payout" /\ ~HasPayout(d)
              /\ payouts' = Paid(w) /\ jobs'[w].pc \in {"spent", "fail"}
        /\ \A row \in webhook_events' \ webhook_events :
              row.delivery = d /\ (row.status = "processed" => j.pc = "audit")
        /\ \A e \in Delivery : \A a \in answers'[e] \ answers[e] :
              /\ e = d
              /\ a = <<200, "processed">> => j.pc = "audit"
              /\ a = <<200, "already_processed">> => HasPayout(d)

Submits(w) ==
    LET d == DeliveryOf(w)
        k == jobs'[w]
    IN  /\ Works(w) /\ jobs[w].pc = "submit"
        /\ k = Idle \/ (k.delivery = d /\ k.pc \in {"price", "fail"})
        /\ attested' = [attested EXCEPT ![d] = @ + 1]
        /\ UNCHANGED <<tables, sent, answers>>

Effect ==
    /\ Typed' /\ Grown
    /\ \/ Administers
       \/ \E w \in Worker, d \in Delivery : Arrives(w, d)
       \/ \E w \in Worker : Handles(w)
       \/ \E w \in Worker : Submits(w)

-----------------------------------------------------------------------------
(* How a handler goes on, in the terms of Gateway. *)

LEMMA JobType ==
    ASSUME TypeOK, NEW w \in Worker
    PROVE  /\ jobs[w] \in Job /\ (DeliveryOf(w) = NoDelivery <=> jobs[w].pc = "idle")
           /\ Idle \in Job /\ Idle.pc = "idle" /\ Idle.delivery = NoDelivery
           /\ jobs[w].pc # "idle" => DeliveryOf(w) \in Delivery
BY DEF TypeOK, Job, DeliveryOf, Idle, Step, Error

LEMMA GotoJob ==
    ASSUME TypeOK, NEW w \in Worker, NEW pc \in Step, Goto(w, pc)
    PROVE  /\ Works(w) /\ UNCHANGED answers
           /\ jobs'[w].pc = pc /\ jobs'[w].delivery = DeliveryOf(w)
           /\ jobs'[w].amount = jobs[w].amount
BY JobType DEF TypeOK, Goto, Works, Job, DeliveryOf

LEMMA FailJob ==
    ASSUME TypeOK, NEW w \in Worker, NEW error \in Error, Fail(w, error)
    PROVE  /\ Works(w) /\ UNCHANGED answers
           /\ jobs'[w].pc = "fail" /\ jobs'[w].delivery = DeliveryOf(w)
BY JobType DEF TypeOK, Fail, Works, Job, DeliveryOf, Step

LEMMA BeginJob ==
    ASSUME TypeOK, NEW w \in Worker, NEW d \in Delivery, NEW pc \in Step, Begin(w, d, pc)
    PROVE  Works(w) /\ jobs'[w].pc = pc /\ jobs'[w].delivery = d
BY JobType DEF TypeOK, Begin, Works, Job, Idle

LEMMA RespondJob ==
    ASSUME TypeOK, NEW w \in Worker, NEW d \in Delivery,
           NEW code \in {200, 400, 401, 404, 409, 500}, NEW body \in Body,
           Respond(w, d, code, body)
    PROVE  /\ Works(w) /\ jobs'[w] = Idle
           /\ <<code, body>> \in Answer
           /\ \A e \in Delivery : \A a \in answers'[e] \ answers[e] :
                 e = d /\ a = <<code, body>>
           /\ answers' \in [Delivery -> SUBSET Answer]
<1>1. <<code, body>> \in Answer
  BY DEF Answer
<1> QED BY <1>1, JobType DEF TypeOK, Respond, Works, Job

-----------------------------------------------------------------------------
(* The steps, one by one. *)

LEMMA SameTables ==
    ASSUME TypeOK, UNCHANGED tables
    PROVE  /\ TablesOK' /\ Grown
           /\ UNCHANGED <<programs, contributors, payouts, webhook_events>>
BY DEF TypeOK, TablesOK, tables, Grown

LEMMA FaultType ==
    ASSUME TypeOK, UNCHANGED faults \/ DbError
    PROVE  faults' \in 0..MaxFaults
BY GatewayAssumption DEF TypeOK, DbError

LEMMA LoggedType ==
    ASSUME TypeOK, NEW d \in Delivery, NEW status \in EventStatus
    PROVE  /\ Logged(d, status) \subseteq EventRow
           /\ webhook_events \subseteq Logged(d, status)
           /\ \A row \in Logged(d, status) \ webhook_events :
                 row = [delivery |-> d, status |-> status]
BY DEF TypeOK, TablesOK, Logged, EventRow

(* A step that writes no table but the audit rows. *)
LEMMA AuditRows ==
    ASSUME TypeOK, NEW d \in Delivery, NEW status \in EventStatus,
           webhook_events' \in {webhook_events, Logged(d, status)},
           UNCHANGED <<programs, contributors, payouts>>
    PROVE  /\ TablesOK' /\ Grown
           /\ \A row \in webhook_events' \ webhook_events :
                 row.delivery = d /\ row.status = status
BY LoggedType DEF TypeOK, TablesOK, Grown

LEMMA ConcludeHandles ==
    ASSUME TypeOK, NEW w \in Worker, jobs[w].pc # "idle",
           NEW status \in EventStatus \ {"processed"},
           NEW code \in {200, 400, 401, 404, 409, 500},
           NEW body \in Body \ {"processed", "already_processed"},
           Conclude(w, status, code, body)
    PROVE  Typed' /\ Grown /\ Handles(w)
<1> DEFINE d == DeliveryOf(w)
<1>1. d \in Delivery
  BY JobType
<1>2. /\ Respond(w, d, code, body) /\ UNCHANGED <<programs, contributors, payouts, sent, attested>>
      /\ webhook_events' \in {webhook_events, Logged(d, status)}
      /\ UNCHANGED faults \/ DbError
  BY DEF Conclude
<1>3. /\ Works(w) /\ jobs'[w] = Idle /\ <<code, body>> \in Answer
      /\ \A e \in Delivery : \A a \in answers'[e] \ answers[e] :
            e = d /\ a = <<code, body>>
      /\ answers' \in [Delivery -> SUBSET Answer]
  BY <1>1, <1>2, RespondJob
<1>4. TablesOK' /\ Grown /\ \A row \in webhook_events' \ webhook_events :
          row.delivery = d /\ row.status = status
  BY <1>1, <1>2, AuditRows
<1>5. faults' \in 0..MaxFaults
  BY <1>2, FaultType
<1>6. GoesOn(w)
  BY <1>3 DEF GoesOn, Idle
<1>7. <<code, body>> # <<200, "processed">> /\ <<code, body>> # <<200, "already_processed">>
  OBVIOUS
<1>8. jobs'[w].pc = "idle"
  BY <1>3 DEF Idle
<1> QED BY <1>2, <1>3, <1>4, <1>5, <1>6, <1>7, <1>8 DEF Typed, Handles

(* A step that writes no table at all. *)
LEMMA ReadHandles ==
    ASSUME TypeOK, NEW w \in Worker, GoesOn(w), jobs'[w].pc # "spent",
           UNCHANGED <<tables, sent, attested>>, UNCHANGED answers,
           UNCHANGED faults \/ DbError
    PROVE  Typed' /\ Grown /\ Handles(w)
BY SameTables, FaultType DEF Typed, Handles, TypeOK

LEMMA FailHandles ==
    ASSUME TypeOK, NEW w \in Worker, jobs[w].pc # "idle", NEW error \in Error,
           Fail(w, error), UNCHANGED <<tables, sent, attested>>,
           UNCHANGED faults \/ DbError
    PROVE  Typed' /\ Grown /\ Handles(w)
<1>1. Works(w) /\ UNCHANGED answers /\ jobs'[w].pc = "fail" /\ jobs'[w].delivery = DeliveryOf(w)
  BY FailJob
<1>2. GoesOn(w)
  BY <1>1 DEF GoesOn
<1> QED BY <1>1, <1>2, ReadHandles

(* The response to a request, other than "processed". *)
LEMMA RespondHandles ==
    ASSUME TypeOK, NEW w \in Worker, jobs[w].pc # "idle",
           NEW code \in {200, 400, 401, 404, 409, 500}, NEW body \in Body \ {"processed"},
           body = "already_processed" => HasPayout(DeliveryOf(w)),
           Respond(w, DeliveryOf(w), code, body),
           NEW status \in EventStatus \ {"processed"},
           webhook_events' \in {webhook_events, Logged(DeliveryOf(w), status)},
           UNCHANGED <<programs, contributors, payouts, sent, attested>>,
           UNCHANGED faults \/ DbError
    PROVE  Typed' /\ Grown /\ Handles(w)
<1> DEFINE d == DeliveryOf(w)
<1>1. d \in Delivery
  BY JobType
<1>2. /\ Works(w) /\ jobs'[w] = Idle /\ <<code, body>> \in Answer
      /\ \A e \in Delivery : \A a \in answers'[e] \ answers[e] :
            e = d /\ a = <<code, body>>
      /\ answers' \in [Delivery -> SUBSET Answer]
  BY <1>1, RespondJob
<1>3. TablesOK' /\ Grown /\ \A row \in webhook_events' \ webhook_events :
          row.delivery = d /\ row.status = status
  BY <1>1, AuditRows
<1>4. faults' \in 0..MaxFaults
  BY FaultType
<1>5. GoesOn(w) /\ jobs'[w].pc = "idle"
  BY <1>2 DEF GoesOn, Idle
<1>6. /\ <<code, body>> # <<200, "processed">>
      /\ <<code, body>> = <<200, "already_processed">> => HasPayout(d)
  OBVIOUS
<1> QED BY <1>2, <1>3, <1>4, <1>5, <1>6 DEF Typed, Handles

(* The steps outside process_merge. *)
LEMMA WebhookHandles ==
    ASSUME TypeOK, NEW w \in Worker,
           \/ reject(w) \/ ignore(w) \/ fail(w) \/ delivery_id_seen(w)
           \/ claim_delivery_id(w) \/ drop(w)
    PROVE  Typed' /\ Grown /\ Handles(w)
<1> DEFINE d == DeliveryOf(w)
<1>0. jobs[w].pc # "idle" => d \in Delivery
  BY JobType
<1>1. CASE reject(w) \/ ignore(w) \/ fail(w)
  <2>1. jobs[w].error \in Error
    BY JobType DEF Job
  <2>2. http_status_code(jobs[w].error) \in {200, 400, 401, 404, 409, 500}
    BY <2>1 DEF Error, http_status_code
  <2>3. /\ jobs[w].error \in Body \ {"processed", "already_processed"}
        /\ "ignored" \in Body \ {"processed", "already_processed"}
        /\ {"rejected", "ignored", "failed"} \subseteq EventStatus \ {"processed"}
    BY <2>1 DEF Error, Body, EventStatus
  <2> QED BY <1>1, <2>2, <2>3, ConcludeHandles DEF reject, ignore, fail
<1>2. CASE delivery_id_seen(w)
  <2>1. /\ jobs[w].pc = "seen" /\ UNCHANGED <<tables, sent, attested>>
        /\ UNCHANGED faults \/ DbError
    BY <1>2 DEF delivery_id_seen
  <2>2. CASE Respond(w, d, 200, "duplicate_delivery")
    BY <2>1, <2>2, SameTables, RespondHandles DEF Body, EventStatus
  <2>3. CASE Goto(w, "claim")
    <3>1. /\ Works(w) /\ UNCHANGED answers /\ jobs'[w].pc = "claim"
          /\ jobs'[w].delivery = d
      BY <2>3, GotoJob DEF Step
    <3>2. GoesOn(w)
      BY <2>1, <3>1 DEF GoesOn
    <3> QED BY <2>1, <3>1, <3>2, ReadHandles
  <2> QED BY <1>2, <2>2, <2>3 DEF delivery_id_seen
<1>3. CASE claim_delivery_id(w)
  <2>1. /\ jobs[w].pc = "claim" /\ d \in Delivery
        /\ UNCHANGED <<programs, contributors, payouts, sent, attested>>
        /\ UNCHANGED faults \/ DbError
        /\ webhook_events' \in {webhook_events, Logged(d, "processing")}
    BY <1>0, <1>3 DEF claim_delivery_id
  <2>2. ASSUME NEW code \in {400, 409, 500}, NEW body \in {"Conflict", "Database", "Webhook"},
               Respond(w, d, code, body)
        PROVE  Typed' /\ Grown /\ Handles(w)
    BY <2>1, <2>2, RespondHandles DEF Body, Error, EventStatus
  <2>3. CASE /\ ~EventConflict(d) /\ webhook_events' = Logged(d, "processing")
             /\ Dispatch(w, d) /\ UNCHANGED faults
    <3>1. /\ d.id # NoId => ~EventConflict(d)
          /\ \E row \in webhook_events' : row.delivery.id = d.id
      <4> DEFINE row == [delivery |-> d, status |-> "processing"]
      <4>1. row \in webhook_events' /\ row.delivery.id = d.id
        BY <2>3 DEF Logged
      <4> HIDE DEF row
      <4> QED BY <2>3, <4>1
    <3>2. CASE Respond(w, d, 400, "Webhook")
      BY <2>2, <3>2
    <3>3. CASE ~Respond(w, d, 400, "Webhook")
      <4> DEFINE pc == IF d.type = "pull_request" /\ parse_merge_event(d)
                       THEN "resolve" ELSE "ignore"
      <4>1. Begin(w, d, pc) /\ UNCHANGED answers
        BY <2>3, <3>3 DEF Dispatch
      <4>2. pc \in Step /\ pc \in {"resolve", "ignore"} /\ (pc = "resolve" => IsMerge(d))
        BY DEF Step, parse_merge_event, IsMerge
      <4> HIDE DEF pc
      <4>3. Works(w) /\ jobs'[w].pc = pc /\ jobs'[w].delivery = d
        BY <2>1, <4>1, <4>2, BeginJob
      <4>4. GoesOn(w)
        BY <2>1, <2>3, <3>1, <4>2, <4>3 DEF GoesOn
      <4>5. TablesOK' /\ Grown /\ \A row \in webhook_events' \ webhook_events :
                row.delivery = d /\ row.status = "processing"
        BY <2>1, AuditRows DEF EventStatus
      <4>6. faults' \in 0..MaxFaults
        BY <2>1, FaultType
      <4> QED BY <2>1, <4>1, <4>2, <4>3, <4>4, <4>5, <4>6 DEF Typed, Handles, TypeOK
    <3> QED BY <3>2, <3>3
  <2> QED BY <1>3, <2>2, <2>3 DEF claim_delivery_id
<1>4. CASE drop(w)
  <2>1. /\ jobs[w].pc # "idle" /\ jobs' = [jobs EXCEPT ![w] = Idle]
        /\ UNCHANGED <<tables, sent, attested>> /\ UNCHANGED answers /\ DbError
    BY <1>4 DEF drop
  <2>2. Works(w) /\ jobs'[w] = Idle
    BY <2>1, JobType DEF TypeOK, Works
  <2>3. GoesOn(w) /\ jobs'[w].pc # "spent"
    BY <2>1, <2>2 DEF GoesOn, Idle
  <2> QED BY <2>1, <2>3, ReadHandles
<1> QED BY <1>1, <1>2, <1>3, <1>4

(* The look-ups of process_merge: they go on to the next step or fail. *)
LEMMA LookupHandles ==
    ASSUME TypeOK, HandlersOK, NEW w \in Worker,
           \/ resolve_program_id(w) \/ load_program_status(w) \/ payout_exists(w)
           \/ resolve_contributor_address(w) \/ load_reward_per_point(w)
    PROVE  Typed' /\ Grown /\ Handles(w)
<1> DEFINE d == DeliveryOf(w)
<1>1. /\ UNCHANGED <<tables, sent, attested>> /\ (UNCHANGED faults \/ DbError)
      /\ jobs[w].pc \in {"resolve", "status", "exists", "contributor", "price"}
  BY DEF resolve_program_id, load_program_status, payout_exists,
         resolve_contributor_address, load_reward_per_point, QueryFails
<1>2. ASSUME NEW error \in {"Database", "NotFound"}, Fail(w, error)
      PROVE  Typed' /\ Grown /\ Handles(w)
  BY <1>1, <1>2, FailHandles DEF Error
<1>3. ASSUME NEW pc \in {"status", "exists", "contributor", "submit", "ignore"},
             Goto(w, pc),
             pc = "status" => jobs[w].pc = "resolve" /\ d.repo \in DOMAIN programs,
             pc = "exists" => jobs[w].pc = "status",
             pc = "contributor" => jobs[w].pc = "exists",
             pc = "submit" => jobs[w].pc = "contributor" /\ IsRegistered(w)
      PROVE  Typed' /\ Grown /\ Handles(w)
  <2>1. /\ Works(w) /\ UNCHANGED answers
        /\ jobs'[w].pc = pc /\ jobs'[w].delivery = d
    BY <1>3, GotoJob DEF Step
  <2>2. GoesOn(w)
    BY <1>1, <1>3, <2>1 DEF GoesOn
  <2> QED BY <1>1, <1>3, <2>1, <2>2, ReadHandles
<1>4. CASE resolve_program_id(w)
  BY <1>2, <1>3, <1>4 DEF resolve_program_id, RepoOf, QueryFails
<1>5. CASE load_program_status(w)
  BY <1>2, <1>3, <1>5 DEF load_program_status, QueryFails
<1>6. CASE payout_exists(w)
  <2>1. CASE PayoutConflict(RepoOf(w), PrOf(w)) /\ Respond(w, d, 200, "already_processed")
    <3>1. HasPayout(d)
      BY <2>1 DEF PayoutConflict, HasPayout, RepoOf, PrOf
    <3> QED BY <1>1, <2>1, <3>1, SameTables, RespondHandles DEF Body, EventStatus
  <2> QED BY <1>2, <1>3, <1>6, <2>1 DEF payout_exists, QueryFails
<1>7. CASE resolve_contributor_address(w)
  BY <1>2, <1>3, <1>7 DEF resolve_contributor_address, QueryFails
<1>8. CASE load_reward_per_point(w)
  <2>1. jobs[w].pc = "price" /\ RepoOf(w) \in DOMAIN programs
    BY <1>8 DEF load_reward_per_point, HandlersOK, HandlerOK, Submitted, RepoOf
  <2> DEFINE amount == programs[RepoOf(w)].reward_per_point
  <2>2. amount \in Nat \ {0}
    BY <2>1, StoreAssumption DEF TypeOK, TablesOK, ProgramRow
  <2> HIDE DEF amount
  <2>3. CASE /\ jobs' = [jobs EXCEPT ![w].pc = "payout", ![w].amount = amount]
             /\ UNCHANGED answers
    <3>1. /\ Works(w) /\ jobs'[w].pc = "payout" /\ jobs'[w].delivery = d
          /\ jobs'[w].amount = amount
      BY <2>2, <2>3, JobType DEF TypeOK, Works, Job, DeliveryOf, Step
    <3>2. GoesOn(w)
      BY <2>1, <2>2, <3>1 DEF GoesOn
    <3> QED BY <1>1, <2>3, <3>1, <3>2, ReadHandles
  <2> QED BY <1>2, <1>8, <2>3 DEF load_reward_per_point, QueryFails, amount
<1> QED BY <1>4, <1>5, <1>6, <1>7, <1>8

LEMMA PersistPayoutHandles ==
    ASSUME TypeOK, HandlersOK, NEW w \in Worker, persist_payout(w)
    PROVE  Typed' /\ Grown /\ Handles(w)
<1> DEFINE d == DeliveryOf(w)
<1>1. /\ jobs[w].pc = "payout" /\ d \in Delivery
      /\ UNCHANGED <<programs, contributors, webhook_events, sent, attested>>
      /\ UNCHANGED faults \/ DbError
  BY JobType DEF persist_payout, QueryFails
<1>2. HasPayout(d) <=> PayoutConflict(RepoOf(w), PrOf(w))
  BY DEF PayoutConflict, HasPayout, RepoOf, PrOf
<1>3. ASSUME NEW error \in {"Database", "Conflict"}, Fail(w, error), UNCHANGED payouts
      PROVE  Typed' /\ Grown /\ Handles(w)
  BY <1>1, <1>3, FailHandles DEF Error, tables
<1>4. ASSUME ~HasPayout(d), payouts' = Paid(w),
             Goto(w, "spent") \/ Fail(w, "Database")
      PROVE  Typed' /\ Grown /\ Handles(w)
  <2>1. /\ Works(w) /\ UNCHANGED answers /\ jobs'[w].delivery = d
        /\ jobs'[w].pc \in {"spent", "fail"}
        /\ jobs'[w].pc = "spent" => jobs'[w].amount = jobs[w].amount
    BY <1>4, GotoJob, FailJob DEF Step, Error
  <2>2. GoesOn(w)
    BY <1>1, <2>1 DEF GoesOn
  <2>3. /\ d.repo \in Repo /\ d.pr \in PrNumber
        /\ <<d.repo, d.user>> \in DOMAIN contributors
        /\ jobs[w].amount \in Nat \ {0}
    BY <1>1, JobType, GatewayAssumption
       DEF HandlersOK, HandlerOK, Submitted, DeliveryShape, Job
  <2> DEFINE key == <<d.repo, d.pr>>
             row == [stellar_address |-> contributors[<<d.repo, d.user>>],
                     amount |-> jobs[w].amount]
  <2>4. row \in PayoutRow /\ key \in Repo \X PrNumber
    BY <2>3 DEF PayoutRow, TypeOK, TablesOK
  <2>5. payouts' = Inserted(payouts, key, row) /\ key \notin DOMAIN payouts
    BY <1>4 DEF Paid, RepoOf, PrOf, HasPayout
  <2> HIDE DEF row, key
  <2>6. /\ DOMAIN payouts' \subseteq Repo \X PrNumber
        /\ payouts' \in [DOMAIN payouts' -> PayoutRow]
        /\ \A k \in DOMAIN payouts : k \in DOMAIN payouts' /\ payouts'[k] = payouts[k]
    BY <2>4, <2>5 DEF Inserted, TypeOK, TablesOK
  <2>7. TablesOK' /\ Grown
    BY <1>1, <2>6 DEF TypeOK, TablesOK, Grown
  <2>8. faults' \in 0..MaxFaults
    BY <1>1, FaultType
  <2> QED BY <1>1, <1>4, <2>1, <2>2, <2>7, <2>8 DEF Typed, Handles, TypeOK
<1> QED BY <1>2, <1>3, <1>4 DEF persist_payout, QueryFails

LEMMA SpentType ==
    ASSUME TypeOK, HandlersOK, NEW w \in Worker, jobs[w].pc = "spent"
    PROVE  /\ Spent(w) \in [DOMAIN programs -> ProgramRow]
           /\ \A r \in DOMAIN programs :
                 Spent(w)[r].on_chain_program_id = programs[r].on_chain_program_id
<1> DEFINE r == RepoOf(w)
           left == programs[r].escrow_balance - jobs[w].amount
           row == [programs[r] EXCEPT !.milestone_spent = @ + jobs[w].amount,
                                      !.escrow_balance = IF left > 0 THEN left ELSE 0]
<1>1. r \in DOMAIN programs /\ programs[r] \in ProgramRow /\ jobs[w].amount \in Nat
  BY JobType DEF HandlersOK, HandlerOK, Submitted, RepoOf, TypeOK, TablesOK, Job
<1> DEFINE total == programs[r].milestone_spent + jobs[w].amount
           balance == IF left > 0 THEN left ELSE 0
<1>2. row \in ProgramRow /\ row.on_chain_program_id = programs[r].on_chain_program_id
  <2>1. total \in Nat /\ balance \in Nat
    BY <1>1 DEF ProgramRow
  <2>2. row = [programs[r] EXCEPT !.milestone_spent = total, !.escrow_balance = balance]
    OBVIOUS
  <2> HIDE DEF total, balance, row
  <2> QED BY <1>1, <2>1, <2>2 DEF ProgramRow
<1>3. Spent(w) = [programs EXCEPT ![r] = row]
  BY <1>1 DEF Spent, ProgramRow
<1> HIDE DEF row
<1> QED BY <1>1, <1>2, <1>3 DEF TypeOK, TablesOK

LEMMA SpendingHandles ==
    ASSUME TypeOK, HandlersOK, NEW w \in Worker,
           increment_milestone_spent(w) \/ persist_webhook_event(w)
    PROVE  Typed' /\ Grown /\ Handles(w)
<1> DEFINE d == DeliveryOf(w)
<1>0. /\ jobs[w].pc \in {"spent", "audit"} /\ d \in Delivery
      /\ UNCHANGED <<contributors, payouts, sent, attested>>
      /\ UNCHANGED faults \/ DbError
  BY JobType DEF increment_milestone_spent, persist_webhook_event, QueryFails
<1>1. CASE increment_milestone_spent(w)
  <2>1. jobs[w].pc = "spent" /\ programs' \in {programs, Spent(w)} /\ UNCHANGED webhook_events
    BY <1>1 DEF increment_milestone_spent
  <2>2. TablesOK' /\ Grown
    BY <1>0, <2>1, SpentType DEF TypeOK, TablesOK, Grown
  <2>3. /\ Works(w) /\ UNCHANGED answers /\ jobs'[w].delivery = d
        /\ jobs'[w].pc \in {"audit", "fail"}
    BY <1>1, GotoJob, FailJob DEF increment_milestone_spent, QueryFails, Step, Error
  <2>4. GoesOn(w)
    BY <2>1, <2>3 DEF GoesOn
  <2>5. faults' \in 0..MaxFaults
    BY <1>0, FaultType
  <2> QED BY <1>0, <2>1, <2>2, <2>3, <2>4, <2>5 DEF Typed, Handles, TypeOK
<1>2. CASE persist_webhook_event(w)
  <2>1. /\ jobs[w].pc = "audit" /\ UNCHANGED programs
        /\ webhook_events' \in {webhook_events, Logged(d, "processed")}
    BY <1>2 DEF persist_webhook_event
  <2>2. TablesOK' /\ Grown /\ \A row \in webhook_events' \ webhook_events :
            row.delivery = d /\ row.status = "processed"
    BY <1>0, <2>1, AuditRows DEF EventStatus
  <2>3. faults' \in 0..MaxFaults
    BY <1>0, FaultType
  <2>4. CASE Respond(w, d, 200, "processed")
    <3>1. /\ Works(w) /\ jobs'[w] = Idle
          /\ \A e \in Delivery : \A a \in answers'[e] \ answers[e] :
                e = d /\ a = <<200, "processed">>
          /\ answers' \in [Delivery -> SUBSET Answer]
      <4> DEFINE code == 200  body == "processed"
      <4>1. body \in Body /\ code \in {200, 400, 401, 404, 409, 500} /\ Respond(w, d, code, body)
        BY <2>4 DEF Body
      <4> HIDE DEF code, body
      <4>2. /\ Works(w) /\ jobs'[w] = Idle /\ <<code, body>> \in Answer
            /\ \A e \in Delivery : \A a \in answers'[e] \ answers[e] :
                  e = d /\ a = <<code, body>>
            /\ answers' \in [Delivery -> SUBSET Answer]
        BY <1>0, <4>1, RespondJob
      <4> QED BY <4>2 DEF code, body
    <3>2. GoesOn(w) /\ jobs'[w].pc = "idle"
      BY <2>1, <3>1 DEF GoesOn, Idle
    <3> QED BY <1>0, <2>1, <2>2, <2>3, <3>1, <3>2 DEF Typed, Handles
  <2>5. CASE Fail(w, "Database")
    <3>1. /\ Works(w) /\ UNCHANGED answers /\ jobs'[w].delivery = d
          /\ jobs'[w].pc = "fail"
      BY <2>5, FailJob DEF Error
    <3>2. GoesOn(w)
      BY <2>1, <3>1 DEF GoesOn
    <3> QED BY <1>0, <2>1, <2>2, <2>3, <3>1, <3>2 DEF Typed, Handles, TypeOK
  <2> QED BY <1>2, <2>4, <2>5 DEF persist_webhook_event, QueryFails
<1> QED BY <1>1, <1>2

LEMMA QueryHandles ==
    ASSUME TypeOK, HandlersOK, NEW w \in Worker, Query(w) \/ drop(w)
    PROVE  Typed' /\ Grown /\ Handles(w)
BY WebhookHandles, LookupHandles, PersistPayoutHandles, SpendingHandles DEF Query

LEMMA ReceiveArrives ==
    ASSUME TypeOK, NEW w \in Worker, NEW d \in Delivery,
           NEW signature \in {"verified", "Unauthorized", "Webhook"},
           receive(w, d, signature)
    PROVE  Typed' /\ Grown /\ Arrives(w, d)
<1>0. /\ jobs[w].pc = "idle" /\ sent[d] < MaxSends
      /\ sent' = [sent EXCEPT ![d] = @ + 1]
      /\ UNCHANGED <<tables, attested, faults>>
  BY DEF receive
<1>1. TablesOK' /\ Grown /\ faults' \in 0..MaxFaults
  BY <1>0, SameTables, FaultType
<1>2. ASSUME Works(w), jobs'[w].delivery = d, UNCHANGED answers,
             \/ jobs'[w].pc \in {"reject", "seen", "ignore"}
             \/ jobs'[w].pc = "resolve" /\ IsMerge(d) /\ d.id = NoId
      PROVE  Typed' /\ Grown /\ Arrives(w, d)
  BY <1>0, <1>1, <1>2 DEF Typed, Arrives, TypeOK
<1>3. ASSUME signature \in {"Unauthorized", "Webhook"},
             jobs' = [jobs EXCEPT ![w] =
                 [Idle EXCEPT !.pc = "reject", !.delivery = d, !.error = signature]],
             UNCHANGED answers
      PROVE  Typed' /\ Grown /\ Arrives(w, d)
  <2>1. Works(w) /\ jobs'[w].pc = "reject" /\ jobs'[w].delivery = d
    BY <1>3, JobType DEF TypeOK, Works, Job, Idle, Step, Error
  <2> QED BY <1>2, <1>3, <2>1
<1>4. ASSUME Begin(w, d, "seen"), UNCHANGED answers
      PROVE  Typed' /\ Grown /\ Arrives(w, d)
  BY <1>2, <1>4, BeginJob DEF Step
<1>5. ASSUME d.id = NoId, Dispatch(w, d)
      PROVE  Typed' /\ Grown /\ Arrives(w, d)
  <2>1. CASE Respond(w, d, 400, "Webhook")
    <3>1. /\ Works(w) /\ jobs'[w] = Idle
          /\ \A e \in Delivery : \A a \in answers'[e] \ answers[e] :
                a = <<400, "Webhook">>
          /\ answers' \in [Delivery -> SUBSET Answer]
      <4> DEFINE code == 400  body == "Webhook"
      <4>1. body \in Body /\ code \in {200, 400, 401, 404, 409, 500} /\ Respond(w, d, code, body)
        BY <2>1 DEF Body, Error
      <4> HIDE DEF code, body
      <4>2. /\ Works(w) /\ jobs'[w] = Idle /\ <<code, body>> \in Answer
            /\ \A e \in Delivery : \A a \in answers'[e] \ answers[e] :
                  e = d /\ a = <<code, body>>
            /\ answers' \in [Delivery -> SUBSET Answer]
        BY <4>1, RespondJob
      <4> QED BY <4>2 DEF code, body
    <3>2. jobs'[w].pc = "idle"
      BY <3>1 DEF Idle
    <3>3. \A e \in Delivery : answers'[e] \subseteq answers[e] \cup {<<400, "Webhook">>}
      BY <3>1
    <3> QED BY <1>0, <1>1, <3>1, <3>2, <3>3 DEF Typed, Arrives
  <2>2. CASE ~Respond(w, d, 400, "Webhook")
    <3> DEFINE pc == IF d.type = "pull_request" /\ parse_merge_event(d)
                     THEN "resolve" ELSE "ignore"
    <3>1. Begin(w, d, pc) /\ UNCHANGED answers
      BY <1>5, <2>2 DEF Dispatch
    <3>2. pc \in Step /\ pc \in {"resolve", "ignore"} /\ (pc = "resolve" => IsMerge(d))
      BY DEF Step, parse_merge_event, IsMerge
    <3> HIDE DEF pc
    <3>3. Works(w) /\ jobs'[w].pc = pc /\ jobs'[w].delivery = d
      BY <3>1, <3>2, BeginJob
    <3> QED BY <1>2, <1>5, <3>1, <3>2, <3>3
  <2> QED BY <2>1, <2>2
<1> QED BY <1>3, <1>4, <1>5 DEF receive

LEMMA AdminAdministers ==
    ASSUME TypeOK, AdminNext, UNCHANGED gateway
    PROVE  Typed' /\ Grown /\ Administers
<1>0. /\ UNCHANGED <<jobs, sent, attested, answers, faults>>
      /\ UNCHANGED <<payouts, webhook_events>>
      /\ programs' = programs \/ contributors' = contributors
  BY DEF AdminNext, gateway, create_program, pause_program, resume_program, SwitchStatus,
         update_ratio, register_contributor
<1>1. ASSUME UNCHANGED contributors,
             DOMAIN programs' \subseteq Repo, programs' \in [DOMAIN programs' -> ProgramRow],
             \A r \in DOMAIN programs :
                /\ r \in DOMAIN programs'
                /\ programs'[r].on_chain_program_id = programs[r].on_chain_program_id
      PROVE  Typed' /\ Grown /\ Administers
  BY <1>0, <1>1 DEF TypeOK, Typed, TablesOK, Grown, Administers, gateway
<1>2. ASSUME NEW repo \in Repo, NEW on_chain_id \in OnChainId, NEW maintainer \in Account,
             NEW reward \in Reward, NEW cap \in Cap \cup {NoCap},
             create_program(repo, on_chain_id, maintainer, reward, cap)
      PROVE  Typed' /\ Grown /\ Administers
  <2> DEFINE row == [on_chain_program_id |-> on_chain_id, reward_per_point |-> reward,
                     escrow_balance |-> 0, milestone_cap |-> cap, milestone_spent |-> 0,
                     status |-> "active"]
  <2>1. /\ repo \notin DOMAIN programs /\ reward > 0 /\ UNCHANGED contributors
        /\ programs' = Inserted(programs, repo, row)
    BY <1>2 DEF create_program, ProgramConflict
  <2>2. row \in ProgramRow
    BY <2>1 DEF ProgramRow
  <2> HIDE DEF row
  <2> QED BY <1>1, <2>1, <2>2 DEF Inserted, TypeOK, TablesOK
<1>3. ASSUME NEW repo \in DOMAIN programs, NEW row \in ProgramRow,
             programs' = [programs EXCEPT ![repo] = row],
             row.on_chain_program_id = programs[repo].on_chain_program_id,
             UNCHANGED contributors
      PROVE  Typed' /\ Grown /\ Administers
  BY <1>1, <1>3 DEF TypeOK, TablesOK
<1>4. ASSUME NEW repo \in Repo, pause_program(repo) \/ resume_program(repo)
      PROVE  Typed' /\ Grown /\ Administers
  <2>1. PICK status \in {"active", "paused"} :
            /\ repo \in DOMAIN programs /\ UNCHANGED contributors
            /\ programs' = [programs EXCEPT ![repo].status = status]
    BY <1>4 DEF pause_program, resume_program, SwitchStatus
  <2> DEFINE row == [programs[repo] EXCEPT !.status = status]
  <2>2. row \in ProgramRow /\ row.on_chain_program_id = programs[repo].on_chain_program_id
    BY <2>1 DEF TypeOK, TablesOK, ProgramRow
  <2>3. programs' = [programs EXCEPT ![repo] = row]
    BY <2>1
  <2> HIDE DEF row
  <2> QED BY <1>3, <2>1, <2>2, <2>3
<1>5. ASSUME NEW repo \in Repo, NEW reward \in Reward, update_ratio(repo, reward)
      PROVE  Typed' /\ Grown /\ Administers
  <2>1. /\ repo \in DOMAIN programs /\ UNCHANGED contributors /\ reward > 0
        /\ programs' = [programs EXCEPT ![repo].reward_per_point = reward]
    BY <1>5 DEF update_ratio
  <2> DEFINE row == [programs[repo] EXCEPT !.reward_per_point = reward]
  <2>2. row \in ProgramRow /\ row.on_chain_program_id = programs[repo].on_chain_program_id
    BY <2>1 DEF TypeOK, TablesOK, ProgramRow
  <2>3. programs' = [programs EXCEPT ![repo] = row]
    BY <2>1
  <2> HIDE DEF row
  <2> QED BY <1>3, <2>1, <2>2, <2>3
<1>6. ASSUME NEW repo \in Repo, NEW user \in User, NEW account \in Account,
             register_contributor(repo, user, account)
      PROVE  Typed' /\ Grown /\ Administers
  <2>1. /\ <<repo, user>> \notin DOMAIN contributors /\ UNCHANGED programs
        /\ contributors' = Inserted(contributors, <<repo, user>>, account)
    BY <1>6 DEF register_contributor, ContributorConflict
  <2>2. /\ DOMAIN contributors' \subseteq Repo \X User
        /\ contributors' \in [DOMAIN contributors' -> Account]
        /\ \A key \in DOMAIN contributors :
              key \in DOMAIN contributors' /\ contributors'[key] = contributors[key]
    BY <2>1 DEF Inserted, TypeOK, TablesOK
  <2> QED BY <1>0, <2>1, <2>2 DEF TypeOK, Typed, TablesOK, Grown, Administers, gateway
<1> QED BY <1>2, <1>4, <1>5, <1>6 DEF AdminNext

LEMMA ServeEffect == TypeOK /\ HandlersOK /\ Serve => Effect
BY QueryHandles, ReceiveArrives, AdminAdministers DEF Serve, Effect

LEMMA SubmitEffect ==
    ASSUME TypeOK, NEW w \in Worker, submit_attestation(w)
    PROVE  Effect
<1>1. /\ jobs[w].pc = "submit" /\ Goto(w, "price")
      /\ attested' = [attested EXCEPT ![DeliveryOf(w)] = @ + 1]
      /\ UNCHANGED <<tables, sent, faults>>
  BY DEF submit_attestation
<1>2. Works(w) /\ UNCHANGED answers /\ jobs'[w].pc = "price" /\ jobs'[w].delivery = DeliveryOf(w)
  BY <1>1, GotoJob DEF Step
<1>3. Typed' /\ Grown
  BY <1>1, <1>2, SameTables DEF TypeOK, Typed
<1> QED BY <1>1, <1>2, <1>3 DEF Effect, Submits

-----------------------------------------------------------------------------
(* What every step leaves, for the handlers it does not concern. *)

LEMMA OthersStay ==
    ASSUME TypeOK, NEW w \in Worker, Works(w)
    PROVE  /\ \A v \in Worker : v # w => jobs'[v] = jobs[v]
           /\ jobs' \in [Worker -> Job]
BY DEF TypeOK, Works, Job

LEMMA TablesGrow ==
    ASSUME TypeOK, Effect
    PROVE  /\ \A d \in Delivery : attested'[d] \in Nat /\ attested[d] <= attested'[d]
           /\ \A d \in Delivery : EventConflict(d) =>
                 \E row \in webhook_events' : row.delivery.id = d.id
           /\ \A d \in Delivery : HasPayout(d) => <<d.repo, d.pr>> \in DOMAIN payouts'
<1>1. \A d \in Delivery : attested[d] \in Nat
  BY GatewayAssumption DEF TypeOK
<1>2. \A d \in Delivery : attested'[d] \in {attested[d], attested[d] + 1}
  <2>1. CASE UNCHANGED attested
    BY <2>1
  <2>2. ASSUME NEW w \in Worker, Submits(w)
        PROVE  \A d \in Delivery : attested'[d] \in {attested[d], attested[d] + 1}
    BY <2>2 DEF Submits, TypeOK
  <2> QED BY <2>1, <2>2 DEF Effect, Administers, gateway, Arrives, Handles
<1>3. \A d \in Delivery : attested'[d] \in Nat /\ attested[d] <= attested'[d]
  BY <1>1, <1>2
<1>4. Grown
  BY DEF Effect
<1> QED BY <1>3, <1>4 DEF Grown, EventConflict, HasPayout

(* A handler can submit only if it is sent, or could submit before. *)
LEMMA AttestingStep ==
    ASSUME TypeOK, Effect, NEW d \in Delivery
    PROVE  \/ Attesting(d)' \subseteq Attesting(d) /\ attested'[d] = attested[d]
                  /\ sent'[d] = sent[d]
           \/ \E w \in Worker :
                 /\ Attesting(d)' \subseteq Attesting(d) \cup {w}
                 /\ attested'[d] = attested[d] /\ sent'[d] = sent[d] + 1
           \/ \E w \in Attesting(d) :
                 /\ Attesting(d)' \subseteq Attesting(d) \ {w}
                 /\ attested'[d] = attested[d] + 1 /\ sent'[d] = sent[d]
<1>1. Attesting(d)' = {v \in Worker : jobs'[v].delivery = d /\ jobs'[v].pc \in MayAttest}
  BY DEF Attesting, DeliveryOf
<1>2. "idle" \notin MayAttest
  BY DEF MayAttest, Unsubmitted
<1>3. CASE Administers
  BY <1>3 DEF Administers, gateway, Attesting, DeliveryOf
<1>4. ASSUME NEW w \in Worker, NEW e \in Delivery, Arrives(w, e)
      PROVE  \/ Attesting(d)' \subseteq Attesting(d) /\ attested'[d] = attested[d]
                  /\ sent'[d] = sent[d]
             \/ \E v \in Worker :
                 /\ Attesting(d)' \subseteq Attesting(d) \cup {v}
                 /\ attested'[d] = attested[d] /\ sent'[d] = sent[d] + 1
  <2>1. /\ sent' = [sent EXCEPT ![e] = @ + 1] /\ attested'[d] = attested[d]
        /\ \A v \in Worker : v # w => jobs'[v] = jobs[v]
        /\ jobs'[w] = Idle \/ jobs'[w].delivery = e
    BY <1>4, OthersStay DEF Arrives
  <2>2. CASE d = e
    BY <1>1, <2>1, <2>2 DEF TypeOK, Attesting, DeliveryOf
  <2>3. CASE d # e
    BY <1>1, <1>2, <2>1, <2>3, JobType DEF TypeOK, Attesting, DeliveryOf
  <2> QED BY <2>2, <2>3
<1>5. ASSUME NEW w \in Worker, Handles(w)
      PROVE  Attesting(d)' \subseteq Attesting(d) /\ attested'[d] = attested[d]
                  /\ sent'[d] = sent[d]
  <2>1. /\ \A v \in Worker : v # w => jobs'[v] = jobs[v]
        /\ attested' = attested /\ sent' = sent
    BY <1>5, OthersStay DEF Handles, GoesOn
  <2>2. /\ jobs'[w] = Idle \/ jobs'[w].delivery = DeliveryOf(w)
        /\ jobs'[w].pc \in MayAttest => jobs[w].pc \in MayAttest
    BY <1>5, JobType DEF Handles, GoesOn, MayAttest, Unsubmitted, Idle
  <2> QED BY <1>1, <1>2, <2>1, <2>2, JobType DEF Attesting, DeliveryOf
<1>6. ASSUME NEW w \in Worker, Submits(w)
      PROVE  \/ Attesting(d)' \subseteq Attesting(d) /\ attested'[d] = attested[d]
                  /\ sent'[d] = sent[d]
             \/ \E v \in Attesting(d) :
                 /\ Attesting(d)' \subseteq Attesting(d) \ {v}
                 /\ attested'[d] = attested[d] + 1 /\ sent'[d] = sent[d]
  <2>1. /\ \A v \in Worker : v # w => jobs'[v] = jobs[v]
        /\ jobs[w].pc \in MayAttest /\ jobs'[w].pc \notin MayAttest
    BY <1>6, OthersStay, JobType DEF Submits, MayAttest, Unsubmitted, Idle
  <2>2. /\ attested' = [attested EXCEPT ![DeliveryOf(w)] = @ + 1] /\ sent' = sent
    BY <1>6 DEF Submits
  <2>3. Attesting(d)' \subseteq Attesting(d) \ {w}
    BY <1>1, <2>1 DEF Attesting, DeliveryOf
  <2>4. CASE DeliveryOf(w) = d
    BY <2>1, <2>2, <2>3, <2>4 DEF TypeOK, Attesting
  <2>5. CASE DeliveryOf(w) # d
    BY <2>2, <2>3, <2>5 DEF TypeOK
  <2> QED BY <2>4, <2>5
<1> QED BY <1>3, <1>4, <1>5, <1>6 DEF Effect

LEMMA AttestedStep == TypeOK /\ AttestedOK /\ Effect => AttestedOK'
<1> SUFFICES ASSUME TypeOK, AttestedOK, Effect, NEW d \in Delivery
             PROVE  /\ IsFiniteSet(Attesting(d)')
                    /\ attested'[d] + Cardinality(Attesting(d)') <= sent'[d]
  BY DEF AttestedOK, Attesting, DeliveryOf
<1> DEFINE S == Attesting(d)
           T == Attesting(d)'
<1>1. IsFiniteSet(S) /\ attested[d] + Cardinality(S) <= sent[d]
  BY DEF AttestedOK
<1>2. attested[d] \in Nat /\ sent[d] \in Nat /\ Cardinality(S) \in Nat
  BY <1>1, FS_CardinalityType, GatewayAssumption DEF TypeOK
<1>3. \/ T \subseteq S /\ attested'[d] = attested[d] /\ sent'[d] = sent[d]
      \/ \E w \in Worker : T \subseteq S \cup {w} /\ attested'[d] = attested[d]
                              /\ sent'[d] = sent[d] + 1
      \/ \E w \in S : T \subseteq S \ {w} /\ attested'[d] = attested[d] + 1
                              /\ sent'[d] = sent[d]
  BY AttestingStep
<1> HIDE DEF S, T
<1>4. CASE T \subseteq S /\ attested'[d] = attested[d] /\ sent'[d] = sent[d]
  <2>1. IsFiniteSet(T) /\ Cardinality(T) <= Cardinality(S)
    BY <1>1, <1>4, FS_Subset
  <2> QED BY <1>1, <1>2, <1>4, <2>1, FS_CardinalityType DEF S, T
<1>5. ASSUME NEW w \in Worker, T \subseteq S \cup {w}, attested'[d] = attested[d],
             sent'[d] = sent[d] + 1
      PROVE  IsFiniteSet(T) /\ attested'[d] + Cardinality(T) <= sent'[d]
  <2>1. /\ IsFiniteSet(S \cup {w})
        /\ Cardinality(S \cup {w}) \in {Cardinality(S), Cardinality(S) + 1}
    <3>1. /\ IsFiniteSet(S \cup {w})
          /\ Cardinality(S \cup {w}) =
                IF w \in S THEN Cardinality(S) ELSE Cardinality(S) + 1
      BY <1>1, FS_AddElement
    <3> QED BY <3>1
  <2>2. IsFiniteSet(T) /\ Cardinality(T) <= Cardinality(S \cup {w})
    BY <1>5, <2>1, FS_Subset
  <2>3. Cardinality(T) \in Nat /\ Cardinality(S \cup {w}) \in Nat
    BY <2>1, <2>2, FS_CardinalityType
  <2> QED BY <1>1, <1>2, <1>5, <2>1, <2>2, <2>3
<1>6. ASSUME NEW w \in S, T \subseteq S \ {w}, attested'[d] = attested[d] + 1,
             sent'[d] = sent[d]
      PROVE  IsFiniteSet(T) /\ attested'[d] + Cardinality(T) <= sent'[d]
  <2>1. IsFiniteSet(S \ {w}) /\ Cardinality(S \ {w}) = Cardinality(S) - 1
    BY <1>1, <1>6, FS_RemoveElement
  <2>2. IsFiniteSet(T) /\ Cardinality(T) <= Cardinality(S \ {w})
    BY <1>6, <2>1, FS_Subset
  <2>3. Cardinality(T) \in Nat
    BY <2>2, FS_CardinalityType
  <2> QED BY <1>1, <1>2, <1>6, <2>1, <2>2, <2>3
<1> QED BY <1>3, <1>4, <1>5, <1>6 DEF S, T

(* A submission is within the number of times the delivery was sent. *)
LEMMA TypeStep == TypeOK /\ AttestedOK /\ Effect => TypeOK'
<1> SUFFICES ASSUME TypeOK, AttestedOK, Effect PROVE TypeOK'
  OBVIOUS
<1>1. Typed'
  BY DEF Effect
<1>2. ASSUME jobs' \in [Worker -> Job],
             \A v \in Worker : jobs'[v].delivery = NoDelivery <=> jobs'[v].pc = "idle",
             sent' \in [Delivery -> 0..MaxSends]
      PROVE  TypeOK'
  <2>1. \A d \in Delivery : attested'[d] \in 0..MaxSends
    <3> TAKE d \in Delivery
    <3>1. /\ IsFiniteSet(Attesting(d)')
          /\ attested'[d] + Cardinality(Attesting(d)') <= sent'[d]
      BY AttestedStep DEF AttestedOK, Attesting, DeliveryOf
    <3>2. Cardinality(Attesting(d)') \in Nat
      BY <3>1, FS_CardinalityType
    <3>3. attested'[d] \in Nat
      BY TablesGrow
    <3> QED BY <1>2, <3>1, <3>2, <3>3, GatewayAssumption
  <2>2. DOMAIN attested' = Delivery /\ attested' = [d \in DOMAIN attested' |-> attested'[d]]
    BY DEF Effect, Administers, gateway, Arrives, Handles, Submits, TypeOK
  <2> QED BY <1>1, <1>2, <2>1, <2>2 DEF TypeOK, Typed, Job
<1>3. ASSUME NEW w \in Worker, Works(w), sent' \in [Delivery -> 0..MaxSends],
             jobs'[w] = Idle \/ (jobs'[w].delivery \in Delivery /\ jobs'[w].pc # "idle")
      PROVE  TypeOK'
  <2>1. jobs'[w].delivery = NoDelivery <=> jobs'[w].pc = "idle"
    BY <1>3, GatewayAssumption DEF Idle
  <2> QED BY <1>2, <1>3, <2>1, OthersStay DEF TypeOK
<1>4. CASE Administers
  BY <1>2, <1>4 DEF Administers, gateway, TypeOK, Job
<1>5. ASSUME NEW w \in Worker, NEW d \in Delivery, Arrives(w, d)
      PROVE  TypeOK'
  <2>1. sent' \in [Delivery -> 0..MaxSends]
    BY <1>5, GatewayAssumption DEF Arrives, TypeOK
  <2> QED BY <1>3, <1>5, <2>1 DEF Arrives
<1>6. ASSUME NEW w \in Worker, Handles(w) PROVE TypeOK'
  BY <1>3, <1>6, JobType DEF Handles, GoesOn, TypeOK
<1>7. ASSUME NEW w \in Worker, Submits(w) PROVE TypeOK'
  BY <1>3, <1>7, JobType DEF Submits, TypeOK
<1> QED BY <1>4, <1>5, <1>6, <1>7 DEF Effect

(* A handler that does not work keeps what it has found out. *)
LEMMA HandlersStep == TypeOK /\ HandlersOK /\ Effect => HandlersOK'
<1> SUFFICES ASSUME TypeOK, HandlersOK, Effect, NEW v \in Worker
             PROVE  HandlerOK(v)'
  BY DEF HandlersOK
<1>1. /\ \A r \in DOMAIN programs : r \in DOMAIN programs'
      /\ \A key \in DOMAIN contributors : key \in DOMAIN contributors'
      /\ \A key \in DOMAIN payouts : key \in DOMAIN payouts'
  BY DEF Effect, Grown
<1>2. \A d \in Delivery : attested[d] > 0 => attested'[d] > 0
  BY TablesGrow, GatewayAssumption DEF TypeOK
<1>3. HandlerOK(v) /\ jobs[v] \in Job
  BY JobType DEF HandlersOK
<1>4. ASSUME jobs'[v] = jobs[v] PROVE HandlerOK(v)'
  <2>1. jobs[v].pc \in Unsubmitted \cup Submitted => DeliveryOf(v) \in Delivery
    BY JobType DEF Unsubmitted, Submitted
  <2> QED BY <1>1, <1>2, <1>3, <1>4, <2>1
          DEF HandlerOK, DeliveryOf, HasPayout, IsMerge
<1>5. CASE Administers
  BY <1>4, <1>5 DEF Administers, gateway
<1>6. ASSUME NEW w \in Worker, NEW d \in Delivery, Arrives(w, d)
      PROVE  HandlerOK(v)'
  <2>1. CASE v = w
    BY <1>6, <2>1 DEF Arrives, HandlerOK, DeliveryOf, Idle, Unsubmitted, Submitted, IsMerge
  <2> QED BY <1>4, <1>6, <2>1, OthersStay DEF Arrives
<1>7. ASSUME NEW w \in Worker, Submits(w)
      PROVE  HandlerOK(v)'
  <2>1. CASE v = w
    <3> DEFINE d == DeliveryOf(w)
    <3>1. /\ jobs[w].pc = "submit" /\ d \in Delivery /\ attested[d] \in Nat
          /\ attested'[d] = attested[d] + 1
          /\ jobs'[w] = Idle \/ (jobs'[w].delivery = d /\ jobs'[w].pc \in {"price", "fail"})
      BY <1>7, JobType, GatewayAssumption DEF Submits, TypeOK
    <3>2. attested'[d] > 0
      BY <3>1
    <3> QED BY <1>1, <1>3, <2>1, <3>1, <3>2
            DEF HandlerOK, DeliveryOf, Idle, Unsubmitted, Submitted, IsMerge
  <2> QED BY <1>4, <1>7, <2>1, OthersStay DEF Submits
<1>8. ASSUME NEW w \in Worker, Handles(w)
      PROVE  HandlerOK(v)'
  <2>1. CASE v = w
    <3> DEFINE d == DeliveryOf(w)
               k == jobs'[w]
    <3>1. GoesOn(w) /\ d \in Delivery
      BY <1>8, JobType DEF Handles, GoesOn
    <3>2. k.pc \in Unsubmitted \cup Submitted => k.delivery = d
      BY <3>1 DEF GoesOn, Idle, Unsubmitted, Submitted
    <3>3. k.pc \in Unsubmitted \cup Submitted => IsMerge(d)
      BY <1>3, <2>1, <3>1, <3>2 DEF GoesOn, HandlerOK, Unsubmitted, Submitted
    <3>4. k.pc \in (Unsubmitted \cup Submitted) \ {"resolve"} => d.repo \in DOMAIN programs
      BY <1>3, <2>1, <3>1 DEF GoesOn, HandlerOK, Unsubmitted, Submitted
    <3>5. k.pc \in {"submit"} \cup Submitted => <<d.repo, d.user>> \in DOMAIN contributors
      BY <1>3, <2>1, <3>1 DEF GoesOn, HandlerOK, Unsubmitted, Submitted, IsRegistered, RepoOf
    <3>6. k.pc \in Submitted => attested[d] > 0
      BY <1>3, <2>1, <3>1 DEF GoesOn, HandlerOK, Unsubmitted, Submitted
    <3>7. k.pc \in {"payout", "spent"} => k.amount > 0
      BY <1>3, <2>1, <3>1 DEF GoesOn, HandlerOK
    <3>8. k.pc \in {"spent", "audit"} => <<d.repo, d.pr>> \in DOMAIN payouts'
      BY <1>1, <1>3, <1>8, <2>1, <3>1
         DEF Handles, GoesOn, HandlerOK, HasPayout, Paid, Inserted, RepoOf, PrOf
    <3> HIDE DEF d, k
    <3> QED BY <1>1, <1>2, <2>1, <3>1, <3>2, <3>3, <3>4, <3>5, <3>6, <3>7, <3>8
            DEF HandlerOK, DeliveryOf, HasPayout, IsMerge, k, Unsubmitted, Submitted
  <2> QED BY <1>4, <1>8, <2>1, OthersStay DEF Handles, GoesOn
<1> QED BY <1>5, <1>6, <1>7, <1>8 DEF Effect

(* A delivery with an id is claimed by one handler, before it is resolved. *)
LEMMA ClaimsStep == TypeOK /\ ClaimsOK /\ Effect => ClaimsOK'
<1> SUFFICES ASSUME TypeOK, ClaimsOK, Effect, NEW d \in Delivery, d.id # NoId
             PROVE  ClaimOK(d)'
  BY DEF ClaimsOK
<1> DEFINE Logs == \E row \in webhook_events' : row.delivery.id = d.id
<1>0. ClaimOK(d)' <=>
        /\ attested'[d] <= 1
        /\ attested'[d] > 0 => Logs
        /\ \A u \in Worker : jobs'[u].delivery = d /\ jobs'[u].pc \in Unsubmitted =>
              /\ Logs /\ attested'[d] = 0
              /\ \A v \in Worker :
                    jobs'[v].delivery = d /\ jobs'[v].pc \in Unsubmitted => v = u
  BY DEF ClaimOK, Holds, DeliveryOf, EventConflict
<1>1. ClaimOK(d) /\ attested[d] \in Nat
  BY GatewayAssumption DEF ClaimsOK, TypeOK
<1>2. EventConflict(d) => Logs
  BY TablesGrow
<1> HIDE DEF Logs
<1>3. ASSUME attested'[d] = attested[d],
             \A u \in Worker : jobs'[u].delivery = d /\ jobs'[u].pc \in Unsubmitted =>
                Holds(u, d)
      PROVE  ClaimOK(d)'
  BY <1>0, <1>1, <1>2, <1>3 DEF ClaimOK
<1>4. CASE Administers
  BY <1>3, <1>4 DEF Administers, gateway, Holds, DeliveryOf
<1>5. ASSUME NEW w \in Worker, NEW e \in Delivery, Arrives(w, e)
      PROVE  ClaimOK(d)'
  <2>1. /\ \A v \in Worker : v # w => jobs'[v] = jobs[v]
        /\ attested' = attested
        /\ ~ (jobs'[w].delivery = d /\ jobs'[w].pc \in Unsubmitted)
    BY <1>5, OthersStay DEF Arrives, Idle, Unsubmitted
  <2> QED BY <1>3, <2>1 DEF Holds, DeliveryOf
<1>6. ASSUME NEW w \in Worker, Handles(w)
      PROVE  ClaimOK(d)'
  <2>1. /\ \A v \in Worker : v # w => jobs'[v] = jobs[v]
        /\ attested' = attested /\ GoesOn(w)
    BY <1>6, OthersStay DEF Handles, GoesOn
  <2>2. CASE jobs'[w].delivery = d /\ jobs'[w].pc = "resolve"
    <3>1. /\ jobs[w].pc = "claim" /\ DeliveryOf(w) = d
          /\ ~EventConflict(d) /\ Logs
      BY <2>1, <2>2 DEF GoesOn, Idle, Logs
    <3>2. attested'[d] = 0 /\ \A v \in Worker : ~Holds(v, d)
      BY <1>1, <2>1, <3>1 DEF ClaimOK
    <3>3. \A v \in Worker : jobs'[v].delivery = d /\ jobs'[v].pc \in Unsubmitted => v = w
      BY <2>1, <3>2 DEF Holds, DeliveryOf
    <3> QED BY <1>0, <3>1, <3>2, <3>3
  <2>3. CASE ~(jobs'[w].delivery = d /\ jobs'[w].pc = "resolve")
    <3>1. jobs'[w].delivery = d /\ jobs'[w].pc \in Unsubmitted => Holds(w, d)
      BY <2>1, <2>3, GatewayAssumption DEF GoesOn, Idle, Unsubmitted, Holds
    <3> QED BY <1>3, <2>1, <3>1 DEF Holds, DeliveryOf
  <2> QED BY <2>2, <2>3
<1>7. ASSUME NEW w \in Worker, Submits(w)
      PROVE  ClaimOK(d)'
  <2>1. /\ \A v \in Worker : v # w => jobs'[v] = jobs[v]
        /\ jobs[w].pc \in Unsubmitted /\ jobs'[w].pc \notin Unsubmitted
        /\ attested' = [attested EXCEPT ![DeliveryOf(w)] = @ + 1]
    BY <1>7, OthersStay DEF Submits, Idle, Unsubmitted
  <2>2. CASE DeliveryOf(w) = d
    <3>1. /\ Holds(w, d) /\ EventConflict(d) /\ attested[d] = 0
          /\ \A v \in Worker : Holds(v, d) => v = w
      BY <1>1, <2>1, <2>2 DEF Holds, ClaimOK
    <3>2. attested'[d] = 1
      BY <2>1, <2>2, <3>1 DEF TypeOK
    <3>3. \A v \in Worker : ~(jobs'[v].delivery = d /\ jobs'[v].pc \in Unsubmitted)
      BY <2>1, <3>1 DEF Holds, DeliveryOf
    <3> QED BY <1>0, <1>2, <3>1, <3>2, <3>3
  <2>3. CASE DeliveryOf(w) # d
    <3>1. attested'[d] = attested[d]
      BY <2>1, <2>3 DEF TypeOK
    <3> QED BY <1>3, <2>1, <3>1 DEF Holds, DeliveryOf
  <2> QED BY <2>2, <2>3
<1> QED BY <1>4, <1>5, <1>6, <1>7 DEF Effect

(* A payout row is written by a handler that has submitted, for a program  *)
(* and a contributor that exist.                                           *)
LEMMA PayoutsStep ==
    ASSUME TypeOK, HandlersOK, Effect
    PROVE  /\ PayoutsOK => PayoutsOK'
           /\ PaidWasAttested => PaidWasAttested'
<1>1. /\ \A r \in DOMAIN programs : r \in DOMAIN programs'
      /\ \A key \in DOMAIN contributors :
            key \in DOMAIN contributors' /\ contributors'[key] = contributors[key]
  BY DEF Effect, Grown
<1>2. \A d \in Delivery : attested[d] > 0 => attested'[d] > 0
  BY TablesGrow, GatewayAssumption DEF TypeOK
<1>3. CASE payouts' = payouts
  BY <1>1, <1>2, <1>3 DEF PayoutsOK, PaidWasAttested, IsMerge
<1>4. ASSUME NEW w \in Worker, Handles(w), jobs[w].pc = "payout", payouts' = Paid(w)
      PROVE  /\ PayoutsOK => PayoutsOK'
             /\ PaidWasAttested => PaidWasAttested'
  <2> DEFINE d == DeliveryOf(w)
             key == <<d.repo, d.pr>>
  <2>1. /\ d \in Delivery /\ d.repo \in DOMAIN programs /\ IsMerge(d) /\ attested[d] > 0
        /\ <<d.repo, d.user>> \in DOMAIN contributors
    BY <1>4, JobType DEF HandlersOK, HandlerOK, Submitted
  <2>2. /\ DOMAIN payouts' = DOMAIN payouts \cup {key}
        /\ payouts'[key].stellar_address = contributors[<<d.repo, d.user>>]
        /\ \A k \in DOMAIN payouts \ {key} : payouts'[k] = payouts[k]
    BY <1>4 DEF Paid, Inserted, RepoOf, PrOf
  <2>3. /\ attested'[d] > 0 /\ <<d.repo, d.user>> \in DOMAIN contributors'
        /\ payouts'[key].stellar_address = contributors'[<<d.repo, d.user>>]
    BY <1>1, <1>2, <2>1, <2>2
  <2> HIDE DEF d
  <2>4. PayoutsOK => PayoutsOK'
    BY <1>1, <2>1, <2>2 DEF PayoutsOK
  <2>5. ASSUME PaidWasAttested, NEW k \in DOMAIN payouts'
        PROVE  \E e \in Delivery :
                  /\ k = <<e.repo, e.pr>> /\ IsMerge(e) /\ attested'[e] > 0
                  /\ <<e.repo, e.user>> \in DOMAIN contributors'
                  /\ payouts'[k].stellar_address = contributors'[<<e.repo, e.user>>]
    <3>1. CASE k = key
      BY <2>1, <2>3, <3>1
    <3>2. CASE k # key
      <4>1. k \in DOMAIN payouts /\ payouts'[k] = payouts[k]
        BY <2>2, <2>5, <3>2
      <4>2. PICK e \in Delivery :
                  /\ k = <<e.repo, e.pr>> /\ IsMerge(e) /\ attested[e] > 0
                  /\ <<e.repo, e.user>> \in DOMAIN contributors
                  /\ payouts[k].stellar_address = contributors[<<e.repo, e.user>>]
        BY <2>5, <4>1 DEF PaidWasAttested
      <4> QED BY <1>1, <1>2, <4>1, <4>2
    <3> QED BY <3>1, <3>2
  <2>6. PaidWasAttested => PaidWasAttested'
    BY <2>5 DEF PaidWasAttested, IsMerge
  <2> QED BY <2>4, <2>6
<1>5. \/ payouts' = payouts
      \/ \E w \in Worker : Handles(w) /\ jobs[w].pc = "payout" /\ payouts' = Paid(w)
  BY DEF Effect, Administers, Arrives, Submits, Handles, tables
<1> QED BY <1>3, <1>4, <1>5

(* "processed" is said at the end of process_merge, "already_processed"    *)
(* when the row is there.                                                  *)
LEMMA AcknowledgedStep ==
    TypeOK /\ HandlersOK /\ AcknowledgedIsPaid /\ Effect => AcknowledgedIsPaid'
<1> SUFFICES ASSUME TypeOK, HandlersOK, AcknowledgedIsPaid, Effect, NEW d \in Delivery
             PROVE  \/ <<200, "processed">> \in answers'[d]
                    \/ <<200, "already_processed">> \in answers'[d]
                    \/ [delivery |-> d, status |-> "processed"] \in webhook_events'
                    => <<d.repo, d.pr>> \in DOMAIN payouts'
  BY DEF AcknowledgedIsPaid, HasPayout
<1>1. HasPayout(d) => <<d.repo, d.pr>> \in DOMAIN payouts'
  BY TablesGrow
<1>2. ASSUME answers'[d] \subseteq answers[d] \cup {<<400, "Webhook">>},
             webhook_events' = webhook_events
      PROVE  \/ <<200, "processed">> \in answers'[d]
             \/ <<200, "already_processed">> \in answers'[d]
             \/ [delivery |-> d, status |-> "processed"] \in webhook_events'
             => HasPayout(d)
  BY <1>2 DEF AcknowledgedIsPaid
<1>3. CASE Administers
  BY <1>1, <1>2, <1>3 DEF Administers, gateway
<1>4. ASSUME NEW w \in Worker, NEW e \in Delivery, Arrives(w, e)
      PROVE  answers'[d] \subseteq answers[d] \cup {<<400, "Webhook">>}
             /\ webhook_events' = webhook_events
  BY <1>4 DEF Arrives, tables
<1>5. ASSUME NEW w \in Worker, Submits(w)
      PROVE  answers'[d] \subseteq answers[d] \cup {<<400, "Webhook">>}
             /\ webhook_events' = webhook_events
  BY <1>5 DEF Submits, tables
<1>6. ASSUME NEW w \in Worker, Handles(w)
      PROVE  \/ <<200, "processed">> \in answers'[d]
             \/ <<200, "already_processed">> \in answers'[d]
             \/ [delivery |-> d, status |-> "processed"] \in webhook_events'
             => HasPayout(d)
  <2>1. jobs[w].pc = "audit" => HasPayout(DeliveryOf(w))
    BY DEF HandlersOK, HandlerOK
  <2>2. /\ <<200, "processed">> \in answers'[d] \ answers[d] => HasPayout(d)
        /\ <<200, "already_processed">> \in answers'[d] \ answers[d] => HasPayout(d)
        /\ [delivery |-> d, status |-> "processed"] \in webhook_events' \ webhook_events
              => HasPayout(d)
    BY <1>6, <2>1 DEF Handles
  <2> QED BY <2>2 DEF AcknowledgedIsPaid
<1> QED BY <1>1, <1>2, <1>3, <1>4, <1>5, <1>6 DEF Effect

-----------------------------------------------------------------------------
(* The theorems. *)

LEMMA InvStep == GatewayInv /\ Effect => GatewayInv'
BY AttestedStep, TypeStep, HandlersStep, ClaimsStep, PayoutsStep, AcknowledgedStep
   DEF GatewayInv

LEMMA InvInit == Init => GatewayInv
<1> SUFFICES ASSUME Init PROVE GatewayInv
  OBVIOUS
<1>1. TypeOK
  <2>1. TablesOK
    BY DEF Init, EmptyTables, EmptyTable, TablesOK
  <2>2. \A w \in Worker : jobs[w] = Idle /\ Idle \in Job
    BY DEF Init, Idle, Job, Step, Error
  <2> QED BY <2>1, <2>2, GatewayAssumption DEF Init, TypeOK, Idle, Job
<1>2. \A w \in Worker : jobs[w].pc = "idle"
  BY DEF Init, Idle
<1>3. HandlersOK
  BY <1>2 DEF HandlersOK, HandlerOK, Unsubmitted, Submitted
<1>4. AttestedOK
  <2> SUFFICES ASSUME NEW d \in Delivery
               PROVE  /\ IsFiniteSet(Attesting(d))
                      /\ attested[d] + Cardinality(Attesting(d)) <= sent[d]
    BY DEF AttestedOK
  <2>1. Attesting(d) = {}
    BY <1>2 DEF Attesting, MayAttest, Unsubmitted
  <2>2. attested[d] = 0 /\ sent[d] = 0
    BY DEF Init
  <2> QED BY <2>1, <2>2, FS_EmptySet
<1>5. ClaimsOK
  BY <1>2 DEF Init, ClaimsOK, ClaimOK, Holds, Unsubmitted
<1>6. PayoutsOK /\ PaidWasAttested
  BY DEF Init, EmptyTables, EmptyTable, PayoutsOK, PaidWasAttested
<1>7. AcknowledgedIsPaid
  BY DEF Init, EmptyTables, AcknowledgedIsPaid
<1> QED BY <1>1, <1>3, <1>4, <1>5, <1>6, <1>7 DEF GatewayInv

LEMMA NextEffect == GatewayInv /\ [Next]_gvars => Effect
<1> SUFFICES ASSUME GatewayInv, [Next]_gvars PROVE Effect
  OBVIOUS
<1>0. TypeOK /\ HandlersOK
  BY DEF GatewayInv
<1>1. CASE UNCHANGED gvars
  BY <1>0, <1>1, SameTables DEF gvars, tables, gateway, Effect, Administers, Typed, TypeOK
<1>2. CASE Next
  BY <1>0, <1>2, ServeEffect, SubmitEffect DEF Next
<1> QED BY <1>1, <1>2

(* The strengthened invariant holds in every reachable state: each handler *)
(* of payout.rs and webhook.rs, at each of its awaits, agrees with the     *)
(* tables it read and with what the contract has paid.                     *)
THEOREM GatewayInvariant == Spec => []GatewayInv
<1>1. GatewayInv /\ [Next]_gvars => GatewayInv'
  BY InvStep, NextEffect
<1> QED BY <1>1, InvInit, PTL DEF Spec

(* The tables and handlers keep their types, whatever happens; in          *)
(* particular escrow_balance, which GREATEST keeps from going negative,    *)
(* and the submissions, of which there are no more than requests.          *)
THEOREM GatewayTyped == Spec => []TypeOK
BY GatewayInvariant, PTL DEF GatewayInv

(* A delivery that carries an id reaches the chain at most once: the row   *)
(* that claim_delivery_id inserts lets one handler through.                *)
THEOREM SubmittedOnce == Spec => []SubmittedOncePerDelivery
<1>1. GatewayInv => SubmittedOncePerDelivery
  BY DEF GatewayInv, ClaimsOK, ClaimOK, SubmittedOncePerDelivery
<1> QED BY <1>1, GatewayInvariant, PTL

(* Every payout row stands for an attested merge of a registered author.   *)
THEOREM PaidAttested == Spec => []PaidWasAttested
BY GatewayInvariant, PTL DEF GatewayInv

(* No answer and no audit row claims a payment that has no payout row.     *)
THEOREM AcknowledgedPaid == Spec => []AcknowledgedIsPaid
BY GatewayInvariant, PTL DEF GatewayInv

=============================================================================
