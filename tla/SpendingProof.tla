--------------------------- MODULE SpendingProof ---------------------------
(* Theorems about milestone_spent and the payout rows it counts: in the    *)
(* database (Gateway) and on a dashboard (ReadApi), for every value of the *)
(* constants.                                                              *)
EXTENDS ReadApi, GatewayProof, SumsProof

Counting(w) == jobs[w].pc = "spent"
PendingFinite == IsFiniteSet({w \in Worker : Counting(w)})

SpendingInv == GatewayInv /\ PendingFinite /\ SpentReconciles

-----------------------------------------------------------------------------
(* What a step means for the books. *)

Untouched(v) == jobs'[v] = jobs[v]

(* No payout is written or counted. *)
Balanced ==
    /\ payouts' = payouts
    /\ \A r \in DOMAIN programs' :
          programs'[r].milestone_spent =
              IF r \in DOMAIN programs THEN programs[r].milestone_spent ELSE 0
    /\ \A v \in Worker : Counting(v) \/ Counting(v)' => Untouched(v)

(* A payout is written; its handler is about to count it, or fails. *)
Writes(w) ==
    /\ jobs[w].pc = "payout" /\ ~HasPayout(DeliveryOf(w))
    /\ payouts' = Paid(w) /\ programs' = programs
    /\ \A v \in Worker : v # w => Untouched(v)
    /\ \/ /\ Counting(w)' /\ DeliveryOf(w)' = DeliveryOf(w)
          /\ jobs'[w].amount = jobs[w].amount
       \/ ~Counting(w)' /\ faults' > 0

(* It is counted, or its handler fails. *)
Counts(w) ==
    /\ Counting(w) /\ ~Counting(w)'
    /\ payouts' = payouts
    /\ \A v \in Worker : v # w => Untouched(v)
    /\ \/ programs' = Spent(w)
       \/ programs' = programs /\ faults' > 0

Booking ==
    \/ Balanced
    \/ \E w \in Worker : Writes(w)
    \/ \E w \in Worker : Counts(w)

LEMMA FaultCounted == TypeOK /\ DbError => faults' > 0
BY DEF TypeOK, DbError

(* A handler that goes on without touching the books. *)
LEMMA WorkBalanced ==
    ASSUME TypeOK, NEW w \in Worker, Works(w), ~Counting(w), jobs'[w].pc # "spent",
           UNCHANGED <<programs, payouts>>
    PROVE  Balanced
BY OthersStay DEF Balanced, Counting, Untouched

LEMMA QueryBooking ==
    ASSUME TypeOK, HandlersOK, NEW w \in Worker, Query(w) \/ drop(w)
    PROVE  Booking
<1>1. Handles(w) /\ Works(w)
  BY QueryHandles DEF Handles, GoesOn
<1>2. \A v \in Worker : v # w => Untouched(v)
  BY <1>1, OthersStay DEF Untouched
<1>3. CASE persist_payout(w)
  <2>1. /\ jobs[w].pc = "payout" /\ UNCHANGED programs
        /\ HasPayout(DeliveryOf(w)) <=> PayoutConflict(RepoOf(w), PrOf(w))
    BY <1>3 DEF persist_payout, PayoutConflict, HasPayout, RepoOf, PrOf
  <2>2. CASE payouts' = payouts /\ \E error \in Error : Fail(w, error)
    <3>1. jobs'[w].pc = "fail"
      BY <2>2, FailJob
    <3> QED BY <1>1, <2>1, <2>2, <3>1, WorkBalanced DEF Booking, Counting
  <2>3. CASE ~HasPayout(DeliveryOf(w)) /\ payouts' = Paid(w) /\ Goto(w, "spent")
    <3>1. /\ jobs'[w].pc = "spent" /\ jobs'[w].delivery = DeliveryOf(w)
          /\ jobs'[w].amount = jobs[w].amount
      BY <2>3, GotoJob DEF Step
    <3>2. Writes(w)
      BY <1>2, <2>1, <2>3, <3>1 DEF Writes, Counting, DeliveryOf
    <3> QED BY <3>2 DEF Booking
  <2>4. CASE ~HasPayout(DeliveryOf(w)) /\ payouts' = Paid(w) /\ QueryFails(w)
    <3>1. jobs'[w].pc = "fail" /\ faults' > 0
      BY <2>4, FailJob, FaultCounted DEF QueryFails, Error
    <3>2. Writes(w)
      BY <1>2, <2>1, <2>4, <3>1 DEF Writes, Counting
    <3> QED BY <3>2 DEF Booking
  <2> QED BY <1>3, <2>1, <2>2, <2>3, <2>4 DEF persist_payout, QueryFails, Error
<1>4. CASE increment_milestone_spent(w)
  <2>1. /\ jobs[w].pc = "spent" /\ UNCHANGED payouts
        /\ programs' = Spent(w) \/ (programs' = programs /\ DbError)
    BY <1>4 DEF increment_milestone_spent, QueryFails
  <2>2. jobs'[w].pc # "spent"
    BY <1>4, GotoJob, FailJob DEF increment_milestone_spent, QueryFails, Step, Error
  <2>3. Counts(w)
    BY <1>2, <2>1, <2>2, FaultCounted DEF Counts, Counting
  <2> QED BY <2>3 DEF Booking
<1>5. CASE drop(w)
  <2>1. /\ UNCHANGED <<programs, payouts>> /\ faults' > 0 /\ jobs'[w] = Idle
    BY <1>5, FaultCounted DEF drop, tables, TypeOK
  <2>2. jobs'[w].pc = "idle"
    BY <2>1 DEF Idle
  <2>3. CASE Counting(w)
    BY <1>2, <2>1, <2>2, <2>3 DEF Booking, Counts, Counting
  <2>4. CASE ~Counting(w)
    BY <1>1, <2>1, <2>2, <2>4, WorkBalanced DEF Booking
  <2> QED BY <2>3, <2>4
<1>6. CASE ~persist_payout(w) /\ ~increment_milestone_spent(w) /\ ~drop(w)
  <2>1. UNCHANGED <<programs, payouts>> /\ jobs[w].pc \notin {"payout", "spent"}
    BY <1>6
       DEF Query, reject, ignore, fail, Conclude, delivery_id_seen, claim_delivery_id,
           resolve_program_id, load_program_status, payout_exists,
           resolve_contributor_address, load_reward_per_point,
           persist_webhook_event, tables
  <2>2. jobs'[w].pc # "spent"
    BY <1>1, <2>1 DEF Handles
  <2> QED BY <1>1, <2>1, <2>2, WorkBalanced DEF Booking, Counting
<1> QED BY <1>3, <1>4, <1>5, <1>6

LEMMA AdminBooking ==
    ASSUME TypeOK, AdminNext, UNCHANGED gateway
    PROVE  Booking
<1>0. UNCHANGED <<jobs, payouts>>
  BY AdminAdministers DEF Administers, gateway
<1> DEFINE Kept == \A r \in DOMAIN programs' :
               programs'[r].milestone_spent =
                   IF r \in DOMAIN programs THEN programs[r].milestone_spent ELSE 0
<1>1. ASSUME NEW repo \in Repo, NEW on_chain_id, NEW maintainer, NEW reward, NEW cap,
             create_program(repo, on_chain_id, maintainer, reward, cap)
      PROVE  Kept
  BY <1>1 DEF create_program, ProgramConflict, Inserted
<1>2. ASSUME NEW repo \in Repo, NEW reward,
             pause_program(repo) \/ resume_program(repo) \/ update_ratio(repo, reward)
      PROVE  Kept
  <2>1. PICK status : \/ programs' = [programs EXCEPT ![repo].status = status]
                      \/ programs' = [programs EXCEPT ![repo].reward_per_point = reward]
    BY <1>2 DEF pause_program, resume_program, SwitchStatus, update_ratio
  <2>2. \A r \in DOMAIN programs : programs[r] \in ProgramRow
    BY DEF TypeOK, TablesOK
  <2>3. \A r \in DOMAIN programs : programs'[r].milestone_spent = programs[r].milestone_spent
    BY <2>1, <2>2 DEF ProgramRow
  <2> QED BY <2>1, <2>3
<1>3. ASSUME NEW repo \in Repo, NEW user, NEW account, register_contributor(repo, user, account)
      PROVE  Kept
  BY <1>3 DEF register_contributor
<1>4. Kept
  <2> HIDE DEF Kept
  <2> QED BY <1>1, <1>2, <1>3 DEF AdminNext
<1> QED BY <1>0, <1>4 DEF Booking, Balanced, Counting, Untouched

LEMMA NextBooking ==
    ASSUME TypeOK, HandlersOK, [Next]_gvars
    PROVE  Booking
<1>1. CASE UNCHANGED gvars
  BY <1>1 DEF gvars, tables, gateway, Booking, Balanced, Counting, Untouched
<1>2. ASSUME NEW w \in Worker, NEW d \in Delivery,
             NEW signature \in {"verified", "Unauthorized", "Webhook"},
             receive(w, d, signature)
      PROVE  Booking
  <2>1. Arrives(w, d)
    BY <1>2, ReceiveArrives
  <2>2. /\ Works(w) /\ ~Counting(w) /\ jobs'[w].pc # "spent"
        /\ UNCHANGED <<programs, payouts>>
    BY <2>1 DEF Arrives, Counting, Idle, tables
  <2> QED BY <2>2, WorkBalanced DEF Booking
<1>3. ASSUME NEW w \in Worker, submit_attestation(w)
      PROVE  Booking
  <2>1. Works(w) /\ jobs[w].pc = "submit" /\ jobs'[w].pc = "price"
        /\ UNCHANGED <<programs, payouts>>
    BY <1>3, GotoJob DEF submit_attestation, Step, tables
  <2> QED BY <2>1, WorkBalanced DEF Booking, Counting
<1> QED BY <1>1, <1>2, <1>3, QueryBooking, AdminBooking DEF Next, Serve

LEMMA FaultsStay ==
    ASSUME TypeOK, faults' = 0, [Next]_gvars
    PROVE  faults = 0
<1>1. ~DbError
  BY DEF DbError, TypeOK
<1>2. ASSUME NEW w \in Worker, Query(w) \/ drop(w) PROVE faults' = faults
  BY <1>1, <1>2
     DEF Query, drop, reject, ignore, fail, Conclude, delivery_id_seen, claim_delivery_id,
         resolve_program_id, load_program_status, payout_exists,
         resolve_contributor_address, load_reward_per_point, persist_payout,
         increment_milestone_spent, persist_webhook_event, QueryFails
<1>3. ASSUME NEW w \in Worker, NEW d \in Delivery,
             NEW signature \in {"verified", "Unauthorized", "Webhook"},
             receive(w, d, signature)
      PROVE  faults' = faults
  BY <1>3 DEF receive
<1> QED BY <1>2, <1>3 DEF Next, Serve, submit_attestation, gvars, gateway

-----------------------------------------------------------------------------
(* The sums. *)

LEMMA SpendingsFinite ==
    ASSUME TypeOK, NEW repo
    PROVE  /\ IsFiniteSet(PayoutsOf(repo))
           /\ \A key \in PayoutsOf(repo) :
                 key \in DOMAIN payouts /\ PaidAmounts[key] \in Nat
           /\ Spendings(repo) \in Nat
<1>1. PayoutsOf(repo) \subseteq Repo \X PrNumber
  BY DEF PayoutsOf, TypeOK, TablesOK
<1>2. IsFiniteSet(PayoutsOf(repo))
  BY <1>1, StoreAssumption, FS_Subset
<1>3. \A key \in PayoutsOf(repo) : key \in DOMAIN payouts /\ PaidAmounts[key] \in Nat
  BY DEF PayoutsOf, PaidAmounts, TypeOK, TablesOK, PayoutRow
<1> QED BY <1>2, <1>3, SumNat DEF Spendings

LEMMA PendingSum ==
    ASSUME TypeOK, PendingFinite, NEW repo
    PROVE  /\ IsFiniteSet(Pending(repo))
           /\ \A w \in Pending(repo) : w \in Worker /\ JobAmounts[w] \in Nat
           /\ PendingSpendings(repo) \in Nat
<1>1. Pending(repo) \subseteq {w \in Worker : Counting(w)}
  BY DEF Pending, Counting
<1>2. IsFiniteSet(Pending(repo))
  BY <1>1, FS_Subset DEF PendingFinite
<1>3. \A w \in Pending(repo) : w \in Worker /\ JobAmounts[w] \in Nat
  BY JobType DEF Pending, JobAmounts, Job
<1> QED BY <1>2, <1>3, SumNat DEF PendingSpendings

LEMMA SpendingsSame ==
    ASSUME payouts' = payouts, NEW repo
    PROVE  Spendings(repo)' = Spendings(repo)
BY DEF Spendings, PaidAmounts, PayoutsOf

(* A payout row adds its amount to its program's sum and to no other. *)
LEMMA SpendingsAfter ==
    ASSUME TypeOK, TypeOK', NEW w \in Worker, Writes(w), NEW repo
    PROVE  Spendings(repo)' = Spendings(repo) + (IF RepoOf(w) = repo THEN jobs[w].amount ELSE 0)
<1> DEFINE key == <<RepoOf(w), PrOf(w)>>
           before == PayoutsOf(repo)
           amounts == PaidAmounts'
<1>1. /\ DOMAIN payouts' = DOMAIN payouts \cup {key} /\ key \notin DOMAIN payouts
      /\ payouts'[key].amount = jobs[w].amount
      /\ \A k \in DOMAIN payouts : payouts'[k] = payouts[k]
  BY DEF Writes, Paid, Inserted, HasPayout, RepoOf, PrOf
<1>2. /\ amounts[key] = jobs[w].amount
      /\ \A k \in DOMAIN payouts : amounts[k] = PaidAmounts[k]
  BY <1>1 DEF PaidAmounts
<1>3. /\ IsFiniteSet(before)
      /\ \A k \in before : k \in DOMAIN payouts /\ PaidAmounts[k] \in Nat
      /\ Spendings(repo) \in Nat
  BY SpendingsFinite
<1>4. PayoutsOf(repo)' = {k \in DOMAIN payouts' : k[1] = repo}
  BY DEF PayoutsOf
<1>5. Spendings(repo)' = SumFunctionOnSet(amounts, PayoutsOf(repo)')
  BY DEF Spendings
<1>6. SumFunctionOnSet(amounts, before) = Spendings(repo)
  <2>1. \A k \in before : PaidAmounts[k] \in Int /\ PaidAmounts[k] = amounts[k]
    BY <1>2, <1>3
  <2> HIDE DEF before, amounts
  <2>2. SumFunctionOnSet(PaidAmounts, before) = SumFunctionOnSet(amounts, before)
    BY <1>3, <2>1, SumSame
  <2> QED BY <2>2 DEF Spendings, before
<1>7. CASE RepoOf(w) = repo
  <2>1. PayoutsOf(repo)' = before \cup {key} /\ key \notin before
    BY <1>1, <1>4, <1>7 DEF PayoutsOf
  <2>2. \A k \in before \cup {key} : amounts[k] \in Int
    BY <1>2, <1>3, JobType DEF Job
  <2> HIDE DEF before, amounts, key
  <2>3. SumFunctionOnSet(amounts, before \cup {key})
            = amounts[key] + SumFunctionOnSet(amounts, before)
    BY <1>3, <2>1, <2>2, SumWith
  <2>4. jobs[w].amount \in Nat
    BY JobType DEF Job
  <2> QED BY <1>2, <1>3, <1>5, <1>6, <1>7, <2>1, <2>3, <2>4
<1>8. CASE RepoOf(w) # repo
  <2>1. PayoutsOf(repo)' = before
    BY <1>1, <1>4, <1>8 DEF PayoutsOf
  <2> QED BY <1>3, <1>5, <1>6, <1>8, <2>1
<1> QED BY <1>7, <1>8

(* What is pending, with the share of one handler apart. *)
PendingOf(w, repo) == IF w \in Pending(repo) THEN jobs[w].amount ELSE 0
PendingOfOthers(w, repo) == SumFunctionOnSet(JobAmounts, Pending(repo) \ {w})

PendingIsSplit ==
    \A w \in Worker : \A repo :
        /\ PendingSpendings(repo) = PendingOf(w, repo) + PendingOfOthers(w, repo)
        /\ PendingOf(w, repo) \in Nat /\ PendingOfOthers(w, repo) \in Nat

LEMMA PendingSplit == TypeOK /\ PendingFinite => PendingIsSplit
<1> SUFFICES ASSUME TypeOK, PendingFinite, NEW w \in Worker, NEW repo
             PROVE  /\ PendingSpendings(repo) = PendingOf(w, repo) + PendingOfOthers(w, repo)
                    /\ PendingOf(w, repo) \in Nat /\ PendingOfOthers(w, repo) \in Nat
  BY DEF PendingIsSplit
<1> DEFINE pending == Pending(repo)
<1>1. /\ IsFiniteSet(pending) /\ PendingSpendings(repo) \in Nat
      /\ \A v \in pending : JobAmounts[v] \in Nat
  BY PendingSum
<1>2. jobs[w].amount \in Nat /\ JobAmounts[w] = jobs[w].amount
  BY JobType DEF Job, JobAmounts
<1>3. IsFiniteSet(pending \ {w})
  BY <1>1, FS_Subset
<1>4. PendingOfOthers(w, repo) \in Nat
  <2>1. \A v \in pending \ {w} : JobAmounts[v] \in Nat
    BY <1>1
  <2> HIDE DEF pending
  <2>2. SumFunctionOnSet(JobAmounts, pending \ {w}) \in Nat
    BY <1>3, <2>1, SumNat
  <2> QED BY <2>2 DEF PendingOfOthers, pending
<1>5. CASE w \in pending
  <2>1. \A v \in pending : JobAmounts[v] \in Int
    BY <1>1
  <2> HIDE DEF pending
  <2>2. SumFunctionOnSet(JobAmounts, pending)
            = JobAmounts[w] + SumFunctionOnSet(JobAmounts, pending \ {w})
    BY <1>1, <1>5, <2>1, SumWithout
  <2> QED BY <1>2, <1>4, <1>5, <2>2
          DEF pending, PendingSpendings, PendingOf, PendingOfOthers
<1>6. CASE w \notin pending
  <2>1. pending \ {w} = pending
    BY <1>6
  <2> QED BY <1>1, <1>6, <2>1 DEF PendingSpendings, PendingOf, PendingOfOthers
<1> QED BY <1>5, <1>6

(* The share of the handlers that stay as they are. *)
LEMMA OthersSame ==
    ASSUME TypeOK, PendingFinite, NEW w \in Worker, NEW repo,
           \A v \in Worker : v # w /\ (Counting(v) \/ Counting(v)') => Untouched(v)
    PROVE  PendingOfOthers(w, repo)' = PendingOfOthers(w, repo)
<1> DEFINE rest == Pending(repo) \ {w}
           amounts == JobAmounts'
<1>1. (Pending(repo) \ {w})' = rest
  BY DEF Pending, Counting, Untouched, RepoOf, DeliveryOf
<1>2. \A v \in rest : JobAmounts[v] = amounts[v]
  BY DEF Pending, Counting, Untouched, JobAmounts
<1>3. IsFiniteSet(rest) /\ \A v \in rest : JobAmounts[v] \in Int
  BY PendingSum, FS_Subset
<1>4. PendingOfOthers(w, repo)' = SumFunctionOnSet(amounts, rest)
  BY <1>1 DEF PendingOfOthers
<1> HIDE DEF rest, amounts
<1>5. SumFunctionOnSet(JobAmounts, rest) = SumFunctionOnSet(amounts, rest)
  BY <1>2, <1>3, SumSame
<1> QED BY <1>4, <1>5 DEF PendingOfOthers, rest

LEMMA BalancedSame ==
    ASSUME TypeOK, PendingFinite, Balanced, NEW repo
    PROVE  PendingSpendings(repo)' = PendingSpendings(repo)
<1> DEFINE pending == Pending(repo)
           amounts == JobAmounts'
<1>1. Pending(repo)' = pending
  BY DEF Balanced, Pending, Counting, Untouched, RepoOf, DeliveryOf
<1>2. \A v \in pending : JobAmounts[v] = amounts[v]
  BY DEF Balanced, Pending, Counting, Untouched, JobAmounts
<1>3. IsFiniteSet(pending) /\ \A v \in pending : JobAmounts[v] \in Int
  BY PendingSum
<1>4. PendingSpendings(repo)' = SumFunctionOnSet(amounts, pending)
  BY <1>1 DEF PendingSpendings
<1> HIDE DEF pending, amounts
<1>5. SumFunctionOnSet(JobAmounts, pending) = SumFunctionOnSet(amounts, pending)
  BY <1>2, <1>3, SumSame
<1> QED BY <1>4, <1>5 DEF PendingSpendings, pending

LEMMA PendingFiniteStep == TypeOK /\ PendingFinite /\ Booking => PendingFinite'
<1> SUFFICES ASSUME TypeOK, PendingFinite, Booking PROVE PendingFinite'
  OBVIOUS
<1> DEFINE before == {v \in Worker : Counting(v)}
           after == {v \in Worker : Counting(v)'}
<1>1. IsFiniteSet(before) /\ \A w : IsFiniteSet(before \cup {w})
  BY FS_AddElement DEF PendingFinite
<1>2. after \subseteq before \/ \E w \in Worker : after \subseteq before \cup {w}
  BY DEF Booking, Balanced, Writes, Counts, Counting, Untouched
<1>3. IsFiniteSet(after)
  <2> HIDE DEF before, after
  <2> QED BY <1>1, <1>2, FS_Subset
<1> QED BY <1>3 DEF PendingFinite

-----------------------------------------------------------------------------
(* milestone_spent and the payouts. *)

Counted(repo) == programs[repo].milestone_spent + PendingSpendings(repo)

LEMMA SpentStep ==
    ASSUME TypeOK, TypeOK', HandlersOK, PayoutsOK, PendingFinite, PendingFinite',
           SpentReconciles, Booking, faults' = 0 => faults = 0
    PROVE  SpentReconciles'
<1> SUFFICES ASSUME NEW repo \in DOMAIN programs'
             PROVE  /\ Counted(repo)' <= Spendings(repo)'
                    /\ faults' = 0 => Counted(repo)' = Spendings(repo)'
  BY DEF SpentReconciles, Counted
<1>1. repo \in DOMAIN programs =>
          /\ Counted(repo) <= Spendings(repo)
          /\ faults = 0 => Counted(repo) = Spendings(repo)
          /\ programs[repo].milestone_spent \in Nat
  BY DEF SpentReconciles, Counted, TypeOK, TablesOK, ProgramRow
<1>2. Spendings(repo) \in Nat /\ PendingSpendings(repo) \in Nat
  BY SpendingsFinite, PendingSum
<1>3. Counted(repo)' = programs'[repo].milestone_spent + PendingSpendings(repo)'
  BY DEF Counted
<1>4. CASE Balanced
  <2>1. Spendings(repo)' = Spendings(repo) /\ PendingSpendings(repo)' = PendingSpendings(repo)
    BY <1>4, SpendingsSame, BalancedSame DEF Balanced
  <2>2. CASE repo \in DOMAIN programs
    <3>1. Counted(repo)' = Counted(repo)
      BY <1>3, <1>4, <2>1, <2>2 DEF Balanced, Counted
    <3> QED BY <1>1, <2>1, <2>2, <3>1
  <2>3. CASE repo \notin DOMAIN programs
    <3>1. PayoutsOf(repo) = {} /\ Pending(repo) = {}
      BY <2>3 DEF PayoutsOK, PayoutsOf, Pending, HandlersOK, HandlerOK, Submitted, RepoOf
    <3>2. Spendings(repo) = 0 /\ PendingSpendings(repo) = 0
      BY <3>1, SumEmpty DEF Spendings, PendingSpendings
    <3>3. programs'[repo].milestone_spent = 0
      BY <1>4, <2>3 DEF Balanced
    <3> QED BY <1>3, <2>1, <3>2, <3>3
  <2> QED BY <2>2, <2>3
<1> DEFINE share(w) == IF RepoOf(w) = repo THEN jobs[w].amount ELSE 0
<1>5. ASSUME NEW w \in Worker, \A v \in Worker : v # w => Untouched(v)
      PROVE  /\ share(w) \in Nat
             /\ PendingSpendings(repo) = PendingOf(w, repo) + PendingOfOthers(w, repo)
             /\ PendingSpendings(repo)' = PendingOf(w, repo)' + PendingOfOthers(w, repo)
             /\ PendingOfOthers(w, repo) \in Nat /\ PendingOf(w, repo)' \in Nat
  <2>1. (TypeOK /\ PendingFinite => PendingIsSplit)'
    BY PendingSplit, PTL
  <2>2. /\ PendingSpendings(repo)' = PendingOf(w, repo)' + PendingOfOthers(w, repo)'
        /\ PendingOf(w, repo)' \in Nat
    BY <2>1 DEF PendingIsSplit
  <2>3. PendingOfOthers(w, repo)' = PendingOfOthers(w, repo)
    BY <1>5, OthersSame
  <2>4. share(w) \in Nat
    BY JobType DEF Job
  <2> QED BY <2>2, <2>3, <2>4, PendingSplit DEF PendingIsSplit
<1>6. ASSUME NEW w \in Worker, Writes(w)
      PROVE  /\ Counted(repo)' <= Spendings(repo)'
             /\ faults' = 0 => Counted(repo)' = Spendings(repo)'
  <2>1. /\ repo \in DOMAIN programs
        /\ programs'[repo].milestone_spent = programs[repo].milestone_spent
    BY <1>6 DEF Writes
  <2>2. Spendings(repo)' = Spendings(repo) + share(w)
    BY <1>6, SpendingsAfter
  <2>3. PendingOf(w, repo) = 0
    BY <1>6 DEF Writes, PendingOf, Pending
  <2>4. /\ PendingOf(w, repo)' \in {0, share(w)}
        /\ faults' = 0 => PendingOf(w, repo)' = share(w)
    BY <1>6 DEF Writes, PendingOf, Pending, Counting, RepoOf, DeliveryOf
  <2>5. /\ share(w) \in Nat
        /\ PendingSpendings(repo) = PendingOfOthers(w, repo)
        /\ PendingSpendings(repo)' = PendingOf(w, repo)' + PendingOfOthers(w, repo)
        /\ PendingOfOthers(w, repo) \in Nat
    BY <1>5, <1>6, <2>3 DEF Writes
  <2> HIDE DEF share
  <2>6. Counted(repo)' = Counted(repo) + PendingOf(w, repo)'
    BY <1>1, <1>3, <2>1, <2>4, <2>5 DEF Counted
  <2>7. Counted(repo) \in Nat
    BY <1>1, <1>2, <2>1 DEF Counted
  <2> QED BY <1>1, <1>2, <2>1, <2>2, <2>4, <2>5, <2>6, <2>7
<1>7. ASSUME NEW w \in Worker, Counts(w)
      PROVE  /\ Counted(repo)' <= Spendings(repo)'
             /\ faults' = 0 => Counted(repo)' = Spendings(repo)'
  <2>1. Spendings(repo)' = Spendings(repo)
    BY <1>7, SpendingsSame DEF Counts
  <2>2. PendingOf(w, repo) = share(w) /\ PendingOf(w, repo)' = 0
    BY <1>7 DEF Counts, PendingOf, Pending, Counting
  <2>3. /\ share(w) \in Nat
        /\ PendingSpendings(repo) = share(w) + PendingOfOthers(w, repo)
        /\ PendingSpendings(repo)' = PendingOfOthers(w, repo)
        /\ PendingOfOthers(w, repo) \in Nat
    BY <1>5, <1>7, <2>2 DEF Counts
  <2>4. /\ repo \in DOMAIN programs
        /\ programs'[repo].milestone_spent \in
               {programs[repo].milestone_spent, programs[repo].milestone_spent + share(w)}
        /\ faults' = 0 => programs'[repo].milestone_spent
                              = programs[repo].milestone_spent + share(w)
    <3>1. CASE programs' = programs /\ faults' > 0
      BY <3>1
    <3>2. CASE programs' = Spent(w)
      <4>1. repo \in DOMAIN programs
        BY <3>2 DEF Spent
      <4>2. RepoOf(w) \in DOMAIN programs
        BY <1>7 DEF Counts, Counting, HandlersOK, HandlerOK, Submitted, RepoOf
      <4>3. programs[repo] \in ProgramRow /\ programs[RepoOf(w)] \in ProgramRow
        BY <4>1, <4>2 DEF TypeOK, TablesOK
      <4>4. programs'[repo].milestone_spent = programs[repo].milestone_spent + share(w)
        BY <3>2, <4>1, <4>2, <4>3 DEF Spent, ProgramRow
      <4> QED BY <4>1, <4>4
    <3> QED BY <1>7, <3>1, <3>2 DEF Counts
  <2> HIDE DEF share
  <2>5. /\ Counted(repo)' <= Counted(repo)
        /\ faults' = 0 => Counted(repo)' = Counted(repo)
    BY <1>1, <1>3, <2>3, <2>4 DEF Counted
  <2>6. Counted(repo) \in Nat /\ Counted(repo)' \in Int
    BY <1>1, <1>2, <1>3, <2>3, <2>4 DEF Counted
  <2> QED BY <1>1, <1>2, <2>1, <2>4, <2>5, <2>6
<1> QED BY <1>4, <1>6, <1>7 DEF Booking

LEMMA SpendingInit == Init => SpendingInv
<1> SUFFICES ASSUME Init PROVE SpendingInv
  OBVIOUS
<1>1. GatewayInv
  BY InvInit
<1>2. {w \in Worker : Counting(w)} = {}
  BY DEF Init, Idle, Counting
<1>3. DOMAIN programs = {}
  BY DEF Init, EmptyTables, EmptyTable
<1> QED BY <1>1, <1>2, <1>3, FS_EmptySet DEF SpendingInv, PendingFinite, SpentReconciles

LEMMA BooksStep ==
    ASSUME SpendingInv, GatewayInv', Booking, faults' = 0 => faults = 0
    PROVE  SpendingInv'
<1>1. TypeOK /\ HandlersOK /\ PayoutsOK /\ TypeOK' /\ PendingFinite /\ SpentReconciles
  BY DEF SpendingInv, GatewayInv
<1>2. PendingFinite'
  BY <1>1, PendingFiniteStep
<1>3. SpentReconciles'
  BY <1>1, <1>2, SpentStep
<1> QED BY <1>2, <1>3 DEF SpendingInv

LEMMA SpendingStep == SpendingInv /\ [Next]_gvars => SpendingInv'
<1> SUFFICES ASSUME SpendingInv, [Next]_gvars PROVE SpendingInv'
  OBVIOUS
<1>1. GatewayInv /\ GatewayInv' /\ TypeOK /\ HandlersOK
  BY InvStep, NextEffect DEF SpendingInv, GatewayInv
<1>2. Booking /\ (faults' = 0 => faults = 0)
  BY <1>1, NextBooking, FaultsStay
<1> QED BY <1>1, <1>2, BooksStep

(* milestone_spent counts every payout once, up to what handlers are about *)
(* to add, and misses one only after a failed statement.                   *)
THEOREM SpentReconciled == Spec => []SpentReconciles
<1>1. Spec => []SpendingInv
  BY SpendingInit, SpendingStep, PTL DEF Spec
<1> QED BY <1>1, PTL DEF SpendingInv

-----------------------------------------------------------------------------
(* What a dashboard shows. *)

(* What is shown is in the tables, which have grown since. *)
PageOK ==
    /\ page = [programs |-> page.programs, repo |-> page.repo,
               payouts |-> page.payouts, contributors |-> page.contributors]
    /\ \A repo \in DOMAIN page.programs :
          /\ repo \in DOMAIN programs
          /\ page.programs[repo].on_chain_program_id = programs[repo].on_chain_program_id
          /\ page.programs[repo].milestone_spent \in Nat
          /\ page.programs[repo].milestone_spent <= programs[repo].milestone_spent
    /\ page.repo = NotRead => page.payouts = NotRead /\ page.contributors = NotRead
    /\ page.repo # NotRead =>
          /\ page.repo \in DOMAIN page.programs
          /\ \A key \in DOMAIN page.payouts :
                /\ key \in DOMAIN payouts /\ key[1] = page.repo
                /\ page.payouts[key] = payouts[key]

ReadInv == SpendingInv /\ PageOK /\ SpentIsListed /\ WalletIsListed

(* No counted payout is ever taken back. *)
LEMMA SpentGrows ==
    ASSUME TypeOK, HandlersOK, Booking, Grown, NEW repo \in DOMAIN programs
    PROVE  /\ repo \in DOMAIN programs'
           /\ programs[repo].milestone_spent <= programs'[repo].milestone_spent
<1>1. programs[repo] \in ProgramRow /\ programs[repo].milestone_spent \in Nat
  BY DEF TypeOK, TablesOK, ProgramRow
<1>2. repo \in DOMAIN programs'
  BY DEF Grown
<1>3. CASE programs'[repo].milestone_spent = programs[repo].milestone_spent
  BY <1>1, <1>2, <1>3
<1>4. ASSUME NEW w \in Worker, Counts(w), programs' = Spent(w)
      PROVE  programs[repo].milestone_spent <= programs'[repo].milestone_spent
  <2>1. jobs[w].amount \in Nat
    BY JobType DEF Job
  <2>2. \/ programs'[repo].milestone_spent = programs[repo].milestone_spent
        \/ programs'[repo].milestone_spent = programs[repo].milestone_spent + jobs[w].amount
    BY <1>1, <1>4 DEF Spent, ProgramRow
  <2> QED BY <1>1, <2>1, <2>2
<1> QED BY <1>2, <1>3, <1>4 DEF Booking, Balanced, Writes, Counts

(* The gateway and the admin API write behind the page. *)
LEMMA WritesBehind ==
    ASSUME ReadInv, Booking, Effect, UNCHANGED page
    PROVE  PageOK' /\ SpentIsListed' /\ WalletIsListed'
<1>1. TypeOK /\ HandlersOK /\ Booking /\ Grown /\ TablesOK'
  BY DEF ReadInv, SpendingInv, GatewayInv, Effect, Typed
<1>2. SpentIsListed' /\ WalletIsListed'
  BY DEF ReadInv, SpentIsListed, WalletIsListed, Listed
<1>3. ASSUME NEW repo \in DOMAIN page.programs
      PROVE  /\ repo \in DOMAIN programs'
             /\ page.programs[repo].milestone_spent <= programs'[repo].milestone_spent
  <2>1. /\ repo \in DOMAIN programs /\ page.programs[repo].milestone_spent \in Nat
        /\ page.programs[repo].milestone_spent <= programs[repo].milestone_spent
    BY <1>3 DEF ReadInv, PageOK
  <2>2. /\ repo \in DOMAIN programs'
        /\ programs[repo].milestone_spent <= programs'[repo].milestone_spent
    BY <1>1, <2>1, SpentGrows
  <2>3. programs[repo].milestone_spent \in Nat /\ programs'[repo].milestone_spent \in Nat
    BY <1>1, <2>1, <2>2 DEF TypeOK, TablesOK, ProgramRow
  <2> QED BY <2>1, <2>2, <2>3
<1>4. PageOK'
  BY <1>1, <1>3 DEF ReadInv, PageOK, Grown
<1> QED BY <1>2, <1>4

(* list_programs and get_program. *)
LEMMA ShowStep ==
    ASSUME TypeOK, UNCHANGED gvars, NEW repos, repos \subseteq DOMAIN programs, Show(repos)
    PROVE  PageOK' /\ SpentIsListed' /\ WalletIsListed'
<1>1. /\ page'.programs = [repo \in repos |-> into_record(programs[repo])]
      /\ page'.repo = NotRead /\ page'.payouts = NotRead /\ page'.contributors = NotRead
      /\ page' = [programs |-> page'.programs, repo |-> page'.repo,
                  payouts |-> page'.payouts, contributors |-> page'.contributors]
  BY DEF Show
<1>2. ASSUME NEW repo \in repos
      PROVE  /\ repo \in DOMAIN programs
             /\ page'.programs[repo].on_chain_program_id = programs[repo].on_chain_program_id
             /\ page'.programs[repo].milestone_spent = programs[repo].milestone_spent
             /\ programs[repo].milestone_spent \in Nat
  <2>1. programs[repo] \in ProgramRow
    BY <1>2 DEF TypeOK, TablesOK
  <2> QED BY <1>1, <1>2, <2>1 DEF into_record, ProgramRow
<1>3. \A repo \in repos : page'.programs[repo].milestone_spent <= programs[repo].milestone_spent
  BY <1>2
<1>4. UNCHANGED <<programs, payouts>>
  BY DEF gvars, tables
<1> QED BY <1>1, <1>2, <1>3, <1>4 DEF PageOK, SpentIsListed, WalletIsListed

(* The listed payouts of a program add up to what it has paid. *)
LEMMA ListedIsSpendings ==
    ASSUME TypeOK, NEW repo, page.payouts = OfProgram(payouts, repo)
    PROVE  Listed = Spendings(repo)
<1> DEFINE listed == [key \in DOMAIN page.payouts |-> page.payouts[key].amount]
<1>1. DOMAIN page.payouts = PayoutsOf(repo) /\ DOMAIN listed = PayoutsOf(repo)
  BY DEF OfProgram, PayoutsOf
<1>2. \A key \in PayoutsOf(repo) : PaidAmounts[key] = listed[key]
  BY <1>1 DEF OfProgram, PayoutsOf, PaidAmounts
<1>3. IsFiniteSet(PayoutsOf(repo)) /\ \A key \in PayoutsOf(repo) : PaidAmounts[key] \in Int
  BY SpendingsFinite
<1> HIDE DEF listed
<1>4. SumFunctionOnSet(PaidAmounts, PayoutsOf(repo)) = SumFunctionOnSet(listed, PayoutsOf(repo))
  BY <1>2, <1>3, SumSame
<1>5. Listed = SumFunctionOnSet(listed, DOMAIN listed)
  BY DEF Listed, listed, SumFunction
<1> QED BY <1>1, <1>4, <1>5 DEF Spendings

LEMMA ListPayoutsStep ==
    ASSUME ReadInv, NEW repo \in Repo, list_payouts(repo)
    PROVE  PageOK' /\ SpentIsListed' /\ WalletIsListed'
<1>0. /\ TypeOK /\ PendingFinite /\ SpentReconciles
      /\ UNCHANGED <<programs, contributors, payouts, jobs, faults>>
  BY DEF ReadInv, SpendingInv, GatewayInv, list_payouts, gvars, tables, gateway
<1>1. /\ repo \in DOMAIN page.programs
      /\ page'.programs = page.programs /\ page'.repo = repo
      /\ page'.payouts = OfProgram(payouts, repo) /\ page'.contributors = NotRead
      /\ page' = [programs |-> page'.programs, repo |-> page'.repo,
                  payouts |-> page'.payouts, contributors |-> page'.contributors]
  BY DEF list_payouts, ReadInv, PageOK
<1>2. repo # NotRead
  BY ReadAssumption
<1>3. \A key \in DOMAIN page'.payouts :
          key \in DOMAIN payouts /\ key[1] = repo /\ page'.payouts[key] = payouts[key]
  BY <1>1 DEF OfProgram
<1>4. PageOK'
  BY <1>0, <1>1, <1>2, <1>3 DEF ReadInv, PageOK
<1>5. Listed' = Spendings(repo)
  <2>1. (TypeOK /\ page.payouts = OfProgram(payouts, repo) => Listed = Spendings(repo))'
    BY ListedIsSpendings, PTL
  <2>2. TypeOK' /\ Spendings(repo)' = Spendings(repo)
    BY <1>0, SpendingsSame DEF ReadInv, SpendingInv, GatewayInv, list_payouts, gvars, gateway,
                tables, TypeOK, TablesOK
  <2> QED BY <1>0, <1>1, <2>1, <2>2 DEF OfProgram
<1>6. SpentIsListed'
  <2>1. /\ repo \in DOMAIN programs /\ page.programs[repo].milestone_spent \in Nat
        /\ page.programs[repo].milestone_spent <= programs[repo].milestone_spent
    BY <1>1 DEF ReadInv, PageOK
  <2>2. programs[repo].milestone_spent + PendingSpendings(repo) <= Spendings(repo)
    BY <1>0, <2>1 DEF SpentReconciles
  <2>3. /\ programs[repo].milestone_spent \in Nat
        /\ PendingSpendings(repo) \in Nat /\ Spendings(repo) \in Nat
    BY <1>0, <2>1, PendingSum, SpendingsFinite DEF TypeOK, TablesOK, ProgramRow
  <2>4. page.programs[repo].milestone_spent <= Spendings(repo)
    BY <2>1, <2>2, <2>3
  <2> QED BY <1>1, <1>5, <2>4 DEF SpentIsListed
<1>7. WalletIsListed'
  BY <1>1 DEF WalletIsListed
<1> QED BY <1>4, <1>6, <1>7

LEMMA ListContributorsStep ==
    ASSUME ReadInv, list_contributors
    PROVE  PageOK' /\ SpentIsListed' /\ WalletIsListed'
<1>1. /\ TypeOK /\ PaidWasAttested /\ PageOK
      /\ UNCHANGED <<programs, contributors, payouts>>
      /\ page.repo \in DOMAIN programs
  BY DEF ReadInv, SpendingInv, GatewayInv, list_contributors, gvars, tables
<1>2. /\ page'.programs = page.programs /\ page'.repo = page.repo
      /\ page'.payouts = page.payouts
      /\ page'.contributors = OfProgram(contributors, page.repo)
      /\ page' = [programs |-> page'.programs, repo |-> page'.repo,
                  payouts |-> page'.payouts, contributors |-> page'.contributors]
  BY DEF list_contributors, ReadInv, PageOK
<1>3. page.repo # NotRead
  BY <1>1, ReadAssumption DEF TypeOK, TablesOK
<1>4. PageOK'
  BY <1>1, <1>2, <1>3 DEF PageOK
<1>5. SpentIsListed'
  BY <1>2 DEF ReadInv, SpentIsListed, Listed
<1>6. WalletIsListed'
  <2> SUFFICES ASSUME NEW key \in DOMAIN page.payouts
               PROVE  \E c \in DOMAIN page'.contributors :
                         page.payouts[key].stellar_address = page'.contributors[c]
    BY <1>2 DEF WalletIsListed
  <2>1. key \in DOMAIN payouts /\ key[1] = page.repo /\ page.payouts[key] = payouts[key]
    BY <1>1, <1>3 DEF PageOK
  <2>2. PICK d \in Delivery :
            /\ key = <<d.repo, d.pr>> /\ <<d.repo, d.user>> \in DOMAIN contributors
            /\ payouts[key].stellar_address = contributors[<<d.repo, d.user>>]
    BY <1>1, <2>1 DEF PaidWasAttested
  <2>3. d.repo = page.repo
    BY <2>1, <2>2
  <2>4. <<d.repo, d.user>> \in DOMAIN OfProgram(contributors, page.repo)
    BY <2>2, <2>3 DEF OfProgram
  <2> QED BY <1>2, <2>1, <2>2, <2>4 DEF OfProgram
<1> QED BY <1>4, <1>5, <1>6

LEMMA ReadInitially == ReadInit => ReadInv
<1> SUFFICES ASSUME ReadInit PROVE ReadInv
  OBVIOUS
<1>1. SpendingInv
  BY SpendingInit DEF ReadInit
<1>2. /\ page.programs = EmptyTable /\ page.repo = NotRead
      /\ page.payouts = NotRead /\ page.contributors = NotRead
      /\ page = [programs |-> page.programs, repo |-> page.repo,
                 payouts |-> page.payouts, contributors |-> page.contributors]
  BY DEF ReadInit, NothingRead
<1> QED BY <1>1, <1>2 DEF ReadInv, PageOK, SpentIsListed, WalletIsListed, EmptyTable

LEMMA ReadStep == ReadInv /\ [ReadNext]_rvars => ReadInv'
<1> SUFFICES ASSUME ReadInv, [ReadNext]_rvars PROVE ReadInv'
  OBVIOUS
<1>1. CASE [Next]_gvars /\ UNCHANGED page
  <2>1. Booking /\ Effect
    BY <1>1, NextBooking, NextEffect DEF ReadInv, SpendingInv, GatewayInv
  <2> QED BY <1>1, <2>1, SpendingStep, WritesBehind DEF ReadInv
<1>2. CASE list_programs
  <2>1. UNCHANGED gvars /\ Show(DOMAIN programs)
    BY <1>2 DEF list_programs
  <2>2. SpendingInv' /\ TypeOK
    BY <2>1, SpendingStep DEF ReadInv, SpendingInv, GatewayInv
  <2> QED BY <2>1, <2>2, ShowStep DEF ReadInv
<1>3. ASSUME NEW repo \in Repo, get_program(repo) PROVE ReadInv'
  <2>1. UNCHANGED gvars /\ Show({repo}) /\ {repo} \subseteq DOMAIN programs
    BY <1>3 DEF get_program
  <2>2. SpendingInv' /\ TypeOK
    BY <2>1, SpendingStep DEF ReadInv, SpendingInv, GatewayInv
  <2> QED BY <2>1, <2>2, ShowStep DEF ReadInv
<1>4. ASSUME NEW repo \in Repo, list_payouts(repo) PROVE ReadInv'
  <2>1. SpendingInv'
    BY <1>4, SpendingStep DEF ReadInv, list_payouts
  <2> QED BY <1>4, <2>1, ListPayoutsStep DEF ReadInv
<1>5. CASE list_contributors
  <2>1. SpendingInv'
    BY <1>5, SpendingStep DEF ReadInv, list_contributors
  <2> QED BY <1>5, <2>1, ListContributorsStep DEF ReadInv
<1> QED BY <1>1, <1>2, <1>3, <1>4, <1>5 DEF ReadNext, Browse, rvars

LEMMA ReadInvariant == ReadSpec => []ReadInv
BY ReadInitially, ReadStep, PTL DEF ReadSpec

(* The payouts a dashboard lists cover the milestone_spent it shows,       *)
(* although handlers write between the answers to its requests.            *)
THEOREM SpentListed == ReadSpec => []SpentIsListed
<1>1. ReadInv => SpentIsListed
  BY DEF ReadInv
<1> QED BY <1>1, ReadInvariant, PTL

(* Every listed payout went to a wallet that the list of contributors,     *)
(* asked for afterwards, names.                                            *)
THEOREM WalletListed == ReadSpec => []WalletIsListed
<1>1. ReadInv => WalletIsListed
  BY DEF ReadInv
<1> QED BY <1>1, ReadInvariant, PTL

=============================================================================
