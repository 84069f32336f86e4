--------------------------- MODULE WaveFlowProof ---------------------------
(* Theorems about gateway, database and contract together, for every value *)
(* of the constants.                                                       *)
EXTENDS WaveFlow, GatewayProof

(* The merge a handler works on, as the contract names it. *)
MergeOf(w) == <<programs[RepoOf(w)].on_chain_program_id, PrOf(w)>>

(* What `Recorded` needs: an on-chain id names one program row. *)
IdsUnique ==
    \A r, s \in DOMAIN programs :
        programs[r].on_chain_program_id = programs[s].on_chain_program_id => r = s

ChainOK ==
    /\ counter \in Nat /\ DOMAIN chain_programs \subseteq Escrow!ProgramId
    /\ processed \subseteq Escrow!ProgramId \X PrNumber

RecordedIsPaid == Recorded \subseteq processed

(* Without faults a payment is reported, or in the hand of a handler. *)
NoneForgotten ==
    faults = 0 =>
        \A m \in processed \ Recorded : \E w \in Worker : Unreported(w) /\ MergeOf(w) = m

WaveFlowInv ==
    /\ GatewayInv /\ IdsUnique /\ ChainOK
    /\ RecordedIsPaid /\ PaymentInHand /\ NoneForgotten

-----------------------------------------------------------------------------
(* What a submission does. *)

LEMMA RecordMergeCalled ==
    ASSUME NEW w \in Worker, record_merge(w)
    PROVE  \/ /\ result' # Escrow!Ok
              /\ UNCHANGED <<processed, counter, chain_programs>>
           \/ /\ result' = Escrow!Ok
              /\ MergeOf(w) \notin processed
              /\ MergeOf(w)[1] \in DOMAIN chain_programs
              /\ processed' = processed \cup {MergeOf(w)}
              /\ counter' = counter /\ DOMAIN chain_programs' = DOMAIN chain_programs
<1> DEFINE p == MergeOf(w)[1]
           user == DeliveryOf(w).user
           check == Escrow!RecordMergeCheck(Oracle, p, user, PrOf(w), points)
<1>1. Escrow!record_merge(Oracle, p, user, PrOf(w), points)
  BY DEF record_merge, build_attestation, MergeOf
<1>2. CASE Escrow!Reject(check)
  BY <1>2 DEF Escrow!Reject, Escrow!storage
<1>3. CASE /\ check = Escrow!Ok
           /\ Escrow!write_program(p, Escrow!Debited(p, Escrow!Payout(p, points)))
           /\ processed' = Escrow!mark_pr_processed(p, PrOf(w))
           /\ UNCHANGED counter /\ result' = Escrow!Ok
  <2>1. MergeOf(w) \notin processed /\ p \in DOMAIN chain_programs
    BY <1>3 DEF Escrow!RecordMergeCheck, Escrow!is_pr_processed, Escrow!Ok, MergeOf
  <2>2. DOMAIN chain_programs' = DOMAIN chain_programs \cup {p}
    BY <1>3 DEF Escrow!write_program, Escrow!Stored
  <2>3. processed' = processed \cup {MergeOf(w)}
    BY <1>3 DEF Escrow!mark_pr_processed, MergeOf
  <2> QED BY <1>3, <2>1, <2>2, <2>3
<1> QED BY <1>1, <1>2, <1>3 DEF Escrow!record_merge

LEMMA SubmitSubmits ==
    ASSUME TypeOK, NEW w \in Worker, submit(w)
    PROVE  Submits(w) /\ (UNCHANGED faults \/ DbError)
<1>1. /\ jobs[w].pc = "submit"
      /\ attested' = [attested EXCEPT ![DeliveryOf(w)] = @ + 1]
      /\ UNCHANGED <<tables, sent>>
      /\ UNCHANGED faults \/ DbError
      /\ \/ Goto(w, "price")
         \/ Fail(w, "Chain")
         \/ jobs' = [jobs EXCEPT ![w] = Idle] /\ UNCHANGED answers
  BY DEF submit, Outcome, AnswerLost
<1>2. /\ Works(w) /\ UNCHANGED answers
      /\ jobs'[w] = Idle
            \/ (jobs'[w].delivery = DeliveryOf(w) /\ jobs'[w].pc \in {"price", "fail"})
  <2>1. CASE Goto(w, "price")
    BY <2>1, GotoJob DEF Step
  <2>2. CASE Fail(w, "Chain")
    BY <2>2, FailJob DEF Error
  <2>3. CASE jobs' = [jobs EXCEPT ![w] = Idle] /\ UNCHANGED answers
    BY <2>3, JobType DEF TypeOK, Works
  <2> QED BY <1>1, <2>1, <2>2, <2>3
<1> QED BY <1>1, <1>2 DEF Submits

LEMMA SubmitIsEffect ==
    ASSUME TypeOK, NEW w \in Worker, submit(w)
    PROVE  Effect
<1>1. Submits(w) /\ (UNCHANGED faults \/ DbError)
  BY SubmitSubmits
<1>2. Typed' /\ Grown
  BY <1>1, SameTables, FaultType DEF Submits, TypeOK, Typed
<1> QED BY <1>1, <1>2 DEF Effect

LEMMA WaveFlowEffect == GatewayInv /\ [WaveFlowNext]_wvars => Effect
<1> SUFFICES ASSUME GatewayInv, [WaveFlowNext]_wvars PROVE Effect
  OBVIOUS
<1>0. TypeOK /\ HandlersOK
  BY DEF GatewayInv
<1>1. CASE UNCHANGED gvars
  BY <1>0, <1>1, SameTables DEF gvars, tables, gateway, Effect, Administers, Typed, TypeOK
<1>2. CASE Serve
  BY <1>0, <1>2, ServeEffect
<1>3. CASE \E w \in Worker : submit(w)
  BY <1>0, <1>3, SubmitIsEffect
<1> QED BY <1>1, <1>2, <1>3 DEF WaveFlowNext, wvars, maintain

(* Program rows come from the admin API only. *)
LEMMA ProgramsStep ==
    ASSUME [WaveFlowNext]_wvars
    PROVE  \/ DOMAIN programs' = DOMAIN programs
           \/ \E repo \in Repo, on_chain_id \in OnChainId, maintainer \in Account,
                 reward \in Reward, cap \in Cap \cup {NoCap} :
                  create_program(repo, on_chain_id, maintainer, reward, cap)
<1>1. CASE UNCHANGED gvars
  BY <1>1 DEF gvars, tables
<1>2. ASSUME NEW w \in Worker, submit(w) PROVE DOMAIN programs' = DOMAIN programs
  BY <1>2 DEF submit, tables
<1>3. ASSUME NEW w \in Worker, NEW d \in Delivery,
             NEW signature \in {"verified", "Unauthorized", "Webhook"},
             receive(w, d, signature)
      PROVE  DOMAIN programs' = DOMAIN programs
  BY <1>3 DEF receive, tables
<1>4. ASSUME NEW w \in Worker, Query(w) \/ drop(w)
      PROVE  DOMAIN programs' = DOMAIN programs
  <2>1. CASE increment_milestone_spent(w)
    <3>1. programs' \in {programs, Spent(w)}
      BY <2>1 DEF increment_milestone_spent
    <3> QED BY <3>1 DEF Spent
  <2>2. CASE ~increment_milestone_spent(w)
    BY <1>4, <2>2
       DEF Query, drop, reject, ignore, fail, Conclude, delivery_id_seen, claim_delivery_id,
           resolve_program_id, load_program_status, payout_exists,
           resolve_contributor_address, load_reward_per_point, persist_payout,
           persist_webhook_event, tables
  <2> QED BY <2>1, <2>2
<1>5. ASSUME NEW repo \in Repo,
             \/ pause_program(repo) \/ resume_program(repo)
             \/ \E reward \in Reward : update_ratio(repo, reward)
             \/ \E user \in User, account \in Account :
                   register_contributor(repo, user, account)
      PROVE  DOMAIN programs' = DOMAIN programs
  BY <1>5 DEF pause_program, resume_program, SwitchStatus, update_ratio, register_contributor
<1> QED BY <1>1, <1>2, <1>3, <1>4, <1>5
        DEF WaveFlowNext, wvars, Serve, AdminNext, maintain

LEMMA IdsStep == TypeOK /\ IdsUnique /\ Effect /\ [WaveFlowNext]_wvars => IdsUnique'
<1> SUFFICES ASSUME TypeOK, IdsUnique, Effect, [WaveFlowNext]_wvars PROVE IdsUnique'
  OBVIOUS
<1>1. \A r \in DOMAIN programs :
          programs'[r].on_chain_program_id = programs[r].on_chain_program_id
  BY DEF Effect, Grown
<1>2. CASE DOMAIN programs' = DOMAIN programs
  BY <1>1, <1>2 DEF IdsUnique
<1>3. ASSUME NEW repo \in Repo, NEW on_chain_id \in OnChainId, NEW maintainer \in Account,
             NEW reward \in Reward, NEW cap \in Cap \cup {NoCap},
             create_program(repo, on_chain_id, maintainer, reward, cap)
      PROVE  IdsUnique'
  <2>1. /\ DOMAIN programs' = DOMAIN programs \cup {repo}
        /\ programs'[repo].on_chain_program_id = on_chain_id
        /\ \A r \in DOMAIN programs : programs[r].on_chain_program_id # on_chain_id
    BY <1>3 DEF create_program, ProgramConflict, Inserted
  <2> QED BY <1>1, <2>1 DEF IdsUnique
<1> QED BY <1>2, <1>3, ProgramsStep

(* A maintainer's call pays no merge. *)
LEMMA MaintainStep ==
    ASSUME ChainOK, maintain
    PROVE  ChainOK' /\ processed' = processed
<1>1. ASSUME NEW caller, NEW repo, NEW reward, NEW cap,
             Escrow!create_program(caller, repo, reward, cap)
      PROVE  ChainOK' /\ processed' = processed
  <2>1. CASE UNCHANGED <<counter, chain_programs, processed>>
    BY <2>1 DEF ChainOK
  <2>2. CASE ~UNCHANGED <<counter, chain_programs, processed>>
    <3> DEFINE row == [maintainer |-> caller, github_repo |-> repo,
                       reward_per_point |-> reward, escrow_balance |-> 0,
                       milestone_cap |-> cap, milestone_spent |-> 0,
                       status |-> "Active"]
    <3>1. /\ counter < MaxPrograms /\ counter' = counter + 1
          /\ chain_programs' = Escrow!Stored(chain_programs, counter', row)
          /\ processed' = processed
      BY <1>1, <2>2 DEF Escrow!create_program, Escrow!Reject, Escrow!storage,
                        Escrow!next_program_id, Escrow!write_program
    <3> HIDE DEF row
    <3>2. DOMAIN chain_programs' = DOMAIN chain_programs \cup {counter + 1}
      BY <3>1 DEF Escrow!Stored
    <3>3. counter + 1 \in Escrow!ProgramId
      BY <3>1, WaveFlowAssumption DEF ChainOK, Escrow!ProgramId, Escrow!EscrowAssumption
    <3> QED BY <3>1, <3>2, <3>3 DEF ChainOK
  <2> QED BY <2>1, <2>2
<1>2. ASSUME NEW p \in Escrow!ProgramId, NEW caller,
             \/ \E amount \in Funding : Escrow!fund(p, caller, amount)
             \/ \E user \in User, payee \in Account :
                   Escrow!register_contributor(p, caller, user, payee)
             \/ Escrow!pause(p, caller)
             \/ Escrow!resume(p, caller)
             \/ \E reward \in Reward : Escrow!set_ratio(p, caller, reward)
             \/ Escrow!withdraw_remaining(p, caller)
      PROVE  ChainOK' /\ processed' = processed
  <2>1. /\ counter' = counter /\ processed' = processed
        /\ \/ chain_programs' = chain_programs
           \/ \E row : chain_programs' = Escrow!Stored(chain_programs, p, row)
    BY <1>2 DEF Escrow!fund, Escrow!register_contributor, Escrow!pause, Escrow!resume,
                Escrow!SetStatus, Escrow!set_ratio, Escrow!withdraw_remaining,
                Escrow!Reject, Escrow!storage, Escrow!write_program
  <2>2. DOMAIN chain_programs' \subseteq DOMAIN chain_programs \cup {p}
    BY <2>1 DEF Escrow!Stored
  <2> QED BY <2>1, <2>2 DEF ChainOK
<1> QED BY <1>1, <1>2 DEF maintain

-----------------------------------------------------------------------------
(* What a step means for the payments. *)

Stays(v) == jobs'[v] = jobs[v]

(* Nothing is paid or reported, and no handler starts to carry a payment. *)
Quiet ==
    /\ processed' = processed /\ payouts' = payouts
    /\ \A v \in Worker : Unreported(v)' => Unreported(v) /\ DeliveryOf(v)' = DeliveryOf(v)

Pays(w) ==
    /\ jobs[w].pc = "submit"
    /\ MergeOf(w) \notin processed
    /\ MergeOf(w) \in Escrow!ProgramId \X PrNumber
    /\ processed' = processed \cup {MergeOf(w)} /\ payouts' = payouts
    /\ \A v \in Worker : v # w => Stays(v)
    /\ Unreported(w)' => DeliveryOf(w)' = DeliveryOf(w)

Records(w) ==
    /\ jobs[w].pc = "payout" /\ ~Unreported(w)'
    /\ processed' = processed /\ payouts' = Paid(w)
    /\ \A v \in Worker : v # w => Stays(v)

Payment ==
    \/ Quiet
    \/ \E w \in Worker : Pays(w)
    \/ \E w \in Worker : Records(w)

LEMMA ServePayment ==
    ASSUME TypeOK, HandlersOK, Serve, UNCHANGED chain
    PROVE  Payment
<1>0. processed' = processed
  BY DEF chain
<1>1. CASE Administers
  BY <1>0, <1>1 DEF Administers, gateway, Payment, Quiet, Unreported, DeliveryOf
<1>2. ASSUME NEW w \in Worker, NEW d \in Delivery, Arrives(w, d)
      PROVE  Quiet
  <2>1. /\ \A v \in Worker : v # w => jobs'[v] = jobs[v]
        /\ payouts' = payouts /\ jobs'[w].pc \notin {"price", "payout"}
    BY <1>2, OthersStay DEF Arrives, Idle, tables
  <2> QED BY <1>0, <2>1 DEF Quiet, Unreported, DeliveryOf
<1>3. ASSUME NEW w \in Worker, Handles(w) PROVE Payment
  <2>1. /\ \A v \in Worker : v # w => jobs'[v] = jobs[v]
        /\ GoesOn(w)
    BY <1>3, OthersStay DEF Handles, GoesOn
  <2>2. jobs'[w].pc \in {"price", "payout"} =>
            jobs[w].pc = "price" /\ jobs'[w].delivery = DeliveryOf(w)
    BY <2>1 DEF GoesOn, Idle
  <2>3. CASE payouts' = payouts
    BY <1>0, <2>1, <2>2, <2>3 DEF Payment, Quiet, Unreported, DeliveryOf
  <2>4. CASE payouts' # payouts
    BY <1>0, <1>3, <2>1, <2>4 DEF Handles, Payment, Records, Stays, Unreported
  <2> QED BY <2>3, <2>4
<1>4. \/ Administers
      \/ \E w \in Worker, d \in Delivery : Arrives(w, d)
      \/ \E w \in Worker : Handles(w)
  BY QueryHandles, ReceiveArrives, AdminAdministers DEF Serve
<1> QED BY <1>1, <1>2, <1>3, <1>4 DEF Payment

LEMMA SubmitPayment ==
    ASSUME TypeOK, ChainOK, NEW w \in Worker, submit(w)
    PROVE  Payment /\ ChainOK'
<1>1. /\ jobs[w].pc = "submit" /\ UNCHANGED <<programs, payouts>>
      /\ \/ Goto(w, "price") \/ Fail(w, "Chain")
         \/ jobs' = [jobs EXCEPT ![w] = Idle] /\ UNCHANGED answers
  BY DEF submit, Outcome, AnswerLost, tables
<1>2. /\ \A v \in Worker : v # w => Stays(v)
      /\ Unreported(w)' => Goto(w, "price") /\ DeliveryOf(w)' = DeliveryOf(w)
  BY <1>1, GotoJob, FailJob, OthersStay
     DEF TypeOK, Goto, Fail, Idle, Unreported, Stays, DeliveryOf
<1>3. CASE UNCHANGED <<processed, counter, chain_programs>> /\ ~Goto(w, "price")
  BY <1>1, <1>2, <1>3 DEF Payment, Quiet, ChainOK, Unreported, Stays, DeliveryOf
<1>4. CASE /\ MergeOf(w) \notin processed
           /\ MergeOf(w)[1] \in DOMAIN chain_programs
           /\ processed' = processed \cup {MergeOf(w)}
           /\ counter' = counter /\ DOMAIN chain_programs' = DOMAIN chain_programs
  <2>1. DeliveryOf(w) \in Delivery /\ PrOf(w) \in PrNumber
    BY <1>1, JobType, GatewayAssumption DEF DeliveryShape, PrOf
  <2>2. MergeOf(w) \in Escrow!ProgramId \X PrNumber
    BY <1>4, <2>1 DEF ChainOK, MergeOf
  <2> QED BY <1>1, <1>2, <1>4, <2>2 DEF Payment, Pays, ChainOK
<1>5. \/ UNCHANGED <<processed, counter, chain_programs>> /\ ~Goto(w, "price")
      \/ record_merge(w) /\ (result' # Escrow!Ok => ~Goto(w, "price"))
  <2>1. ~(Fail(w, "Chain") /\ Goto(w, "price"))
    BY DEF Fail, Goto, TypeOK
  <2>2. ~(jobs' = [jobs EXCEPT ![w] = Idle] /\ Goto(w, "price"))
    BY DEF Goto, TypeOK, Idle
  <2> QED BY <2>1, <2>2 DEF submit, Outcome, AnswerLost, chain
<1> QED BY <1>3, <1>4, <1>5, RecordMergeCalled

LEMMA PaymentStep ==
    ASSUME GatewayInv, ChainOK, [WaveFlowNext]_wvars
    PROVE  Payment /\ ChainOK'
<1>0. TypeOK /\ HandlersOK
  BY DEF GatewayInv
<1>1. CASE UNCHANGED gvars /\ processed' = processed /\ ChainOK'
  BY <1>1 DEF gvars, gateway, tables, Payment, Quiet, Unreported, DeliveryOf
<1>2. CASE UNCHANGED wvars
  BY <1>1, <1>2 DEF wvars, chain, ChainOK
<1>3. CASE maintain
  BY <1>1, <1>3, MaintainStep DEF maintain
<1>4. CASE Serve /\ UNCHANGED chain
  BY <1>0, <1>4, ServePayment DEF chain, ChainOK
<1>5. CASE \E w \in Worker : submit(w)
  BY <1>0, <1>5, SubmitPayment
<1> QED BY <1>2, <1>3, <1>4, <1>5 DEF WaveFlowNext

-----------------------------------------------------------------------------
(* The merges the database reports, and those in the hand of a handler. *)

LEMMA HandFacts ==
    ASSUME GatewayInv, Effect, NEW w \in Worker,
           jobs[w].pc \in {"submit", "price", "payout"}
    PROVE  /\ RepoOf(w) \in DOMAIN programs
           /\ programs'[RepoOf(w)].on_chain_program_id
                 = programs[RepoOf(w)].on_chain_program_id
BY DEF GatewayInv, HandlersOK, HandlerOK, Unsubmitted, Submitted, RepoOf, Effect, Grown

LEMMA RecordedStep ==
    ASSUME GatewayInv, Effect
    PROVE  /\ payouts' = payouts => Recorded' = Recorded
           /\ \A w \in Worker : payouts' = Paid(w) /\ jobs[w].pc = "payout" =>
                 Recorded' = Recorded \cup {MergeOf(w)}
<1>1. \A key \in DOMAIN payouts :
          programs'[key[1]].on_chain_program_id = programs[key[1]].on_chain_program_id
  BY DEF GatewayInv, PayoutsOK, Effect, Grown
<1>2. Recorded' = {<<programs'[key[1]].on_chain_program_id, key[2]>> : key \in DOMAIN payouts'}
  BY DEF Recorded
<1>3. ASSUME payouts' = payouts PROVE Recorded' = Recorded
  BY <1>1, <1>3 DEF Recorded
<1>4. ASSUME NEW w \in Worker, payouts' = Paid(w), jobs[w].pc = "payout"
      PROVE  Recorded' = Recorded \cup {MergeOf(w)}
  <2> DEFINE new == <<RepoOf(w), PrOf(w)>>
             id(key) == <<programs'[key[1]].on_chain_program_id, key[2]>>
  <2>1. DOMAIN payouts' = DOMAIN payouts \cup {new}
    BY <1>4 DEF Paid, Inserted
  <2>2. id(new) = MergeOf(w)
    BY <1>4, HandFacts DEF MergeOf
  <2>3. Recorded = {id(key) : key \in DOMAIN payouts}
    BY <1>1 DEF Recorded
  <2> HIDE DEF id, new
  <2>4. Recorded' = {id(key) : key \in DOMAIN payouts \cup {new}}
    BY <1>2, <2>1 DEF id
  <2> QED BY <2>2, <2>3, <2>4
<1> QED BY <1>3, <1>4

(* In terms of MergeOf: what PaymentInHand says. *)
InHand ==
    \A w \in Worker : Unreported(w) =>
        /\ MergeOf(w) \in processed \ Recorded
        /\ \A v \in Worker : Unreported(v) /\ MergeOf(v) = MergeOf(w) => v = w

LEMMA InHandIs ==
    ASSUME GatewayInv, IdsUnique
    PROVE  PaymentInHand <=> InHand
<1>1. \A w \in Worker : Unreported(w) => RepoOf(w) \in DOMAIN programs
  BY DEF GatewayInv, HandlersOK, HandlerOK, Submitted, RepoOf, Unreported
<1>2. \A v, w \in Worker : Unreported(v) /\ Unreported(w) =>
          (MergeOf(v) = MergeOf(w) <=> <<RepoOf(v), PrOf(v)>> = <<RepoOf(w), PrOf(w)>>)
  BY <1>1 DEF IdsUnique, MergeOf
<1>3. \A w \in Worker : <<build_attestation(w).program_id, PrOf(w)>> = MergeOf(w)
  BY DEF build_attestation, MergeOf
<1> QED BY <1>2, <1>3 DEF PaymentInHand, InHand

LEMMA InHandStep ==
    ASSUME GatewayInv, Effect, Payment, RecordedIsPaid, InHand
    PROVE  RecordedIsPaid' /\ InHand'
<1> DEFINE Same(v) == Unreported(v) /\ MergeOf(v)' = MergeOf(v)
<1>1. ASSUME NEW v \in Worker, Unreported(v), DeliveryOf(v)' = DeliveryOf(v)
      PROVE  Same(v)
  <2>1. programs'[RepoOf(v)].on_chain_program_id = programs[RepoOf(v)].on_chain_program_id
    BY <1>1, HandFacts DEF Unreported
  <2> QED BY <1>1, <2>1 DEF MergeOf, RepoOf, PrOf
<1> HIDE DEF Same
<1>2. \A v \in Worker : Unreported(v)' /\ Stays(v) => Same(v)
  BY <1>1 DEF Stays, Unreported, DeliveryOf
<1>3. CASE Quiet
  <2>1. processed' = processed /\ Recorded' = Recorded
    BY <1>3, RecordedStep DEF Quiet
  <2>2. \A v \in Worker : Unreported(v)' => Same(v)
    BY <1>1, <1>3 DEF Quiet
  <2> QED BY <2>1, <2>2 DEF RecordedIsPaid, InHand, Same
<1>4. ASSUME NEW w \in Worker, Pays(w)
      PROVE  RecordedIsPaid' /\ InHand'
  <2>1. /\ processed' = processed \cup {MergeOf(w)} /\ Recorded' = Recorded
        /\ MergeOf(w) \notin processed
    BY <1>4, RecordedStep DEF Pays
  <2>2. \A v \in Worker : Unreported(v)' /\ v # w => Same(v)
    BY <1>2, <1>4 DEF Pays
  <2>3. Unreported(w)' => MergeOf(w)' = MergeOf(w)
    <3>1. programs'[RepoOf(w)].on_chain_program_id
              = programs[RepoOf(w)].on_chain_program_id
      BY <1>4, HandFacts DEF Pays
    <3> QED BY <1>4, <3>1 DEF Pays, MergeOf, RepoOf, PrOf
  <2> QED BY <2>1, <2>2, <2>3 DEF RecordedIsPaid, InHand, Same
<1>5. ASSUME NEW w \in Worker, Records(w)
      PROVE  RecordedIsPaid' /\ InHand'
  <2>1. processed' = processed /\ Recorded' = Recorded \cup {MergeOf(w)}
    BY <1>5, RecordedStep DEF Records
  <2>2. \A v \in Worker : Unreported(v)' => Same(v) /\ v # w
    BY <1>2, <1>5 DEF Records
  <2>3. Unreported(w)
    BY <1>5 DEF Records, Unreported
  <2> QED BY <2>1, <2>2, <2>3 DEF RecordedIsPaid, InHand, Same
<1> QED BY <1>3, <1>4, <1>5 DEF Payment

-----------------------------------------------------------------------------
(* Without faults a handler that carries a payment reports it. *)

LEMMA CarriedStep ==
    ASSUME GatewayInv, Effect, [WaveFlowNext]_wvars, faults' = 0,
           NEW v \in Worker, Unreported(v)
    PROVE  \/ Unreported(v)' /\ DeliveryOf(v)' = DeliveryOf(v)
           \/ <<RepoOf(v), PrOf(v)>> \in DOMAIN payouts'
<1>0. TypeOK /\ HandlersOK
  BY DEF GatewayInv
<1>1. ~DbError
  BY <1>0 DEF DbError, TypeOK
<1>2. CASE Stays(v)
  BY <1>2 DEF Stays, Unreported, DeliveryOf
<1>3. CASE UNCHANGED gvars
  BY <1>2, <1>3 DEF gvars, gateway, Stays
<1>4. ASSUME NEW u \in Worker, submit(u) PROVE Stays(v)
  <2>1. u # v
    BY <1>4 DEF submit, Unreported
  <2>2. jobs'[v] = jobs[v]
    BY <1>0, <1>4, <2>1 DEF submit, Outcome, AnswerLost, Goto, Fail, TypeOK
  <2> QED BY <2>2 DEF Stays
<1>5. ASSUME NEW u \in Worker, NEW d \in Delivery,
             NEW signature \in {"verified", "Unauthorized", "Webhook"},
             receive(u, d, signature)
      PROVE  Stays(v)
  <2>1. Arrives(u, d)
    BY <1>0, <1>5, ReceiveArrives
  <2>2. u # v
    BY <2>1 DEF Arrives, Unreported
  <2> QED BY <1>0, <2>1, <2>2, OthersStay DEF Arrives, Stays
<1>6. ASSUME NEW u \in Worker, u # v, Query(u) \/ drop(u) PROVE Stays(v)
  BY <1>0, <1>6, QueryHandles, OthersStay DEF Handles, GoesOn, Stays
<1>7. CASE Query(v)
  <2>1. CASE load_reward_per_point(v)
    <3>1. jobs' = [jobs EXCEPT ![v].pc = "payout",
                               ![v].amount = programs[RepoOf(v)].reward_per_point]
      BY <1>1, <2>1 DEF load_reward_per_point, QueryFails
    <3> QED BY <1>0, <3>1 DEF TypeOK, Unreported, DeliveryOf
  <2>2. CASE persist_payout(v)
    <3>1. PayoutConflict(RepoOf(v), PrOf(v)) \/ payouts' = Paid(v)
      BY <1>1, <2>2 DEF persist_payout, QueryFails
    <3>2. \A key \in DOMAIN payouts : key \in DOMAIN payouts'
      BY DEF Effect, Grown
    <3> QED BY <3>1, <3>2 DEF PayoutConflict, Paid, Inserted
  <2>3. CASE ~load_reward_per_point(v) /\ ~persist_payout(v)
    BY <1>7, <2>3
       DEF Unreported, Query, reject, ignore, fail, delivery_id_seen, claim_delivery_id,
           resolve_program_id, load_program_status, payout_exists,
           resolve_contributor_address, increment_milestone_spent, persist_webhook_event
  <2> QED BY <2>1, <2>2, <2>3
<1>8. CASE drop(v)
  BY <1>1, <1>8 DEF drop
<1>9. CASE AdminNext /\ UNCHANGED gateway
  BY <1>2, <1>9 DEF gateway, Stays
<1> QED BY <1>2, <1>3, <1>4, <1>5, <1>6, <1>7, <1>8, <1>9
        DEF WaveFlowNext, wvars, Serve, maintain

LEMMA FaultsStep ==
    ASSUME TypeOK, faults' = 0, [WaveFlowNext]_wvars
    PROVE  faults = 0
<1>1. ~DbError
  BY DEF DbError, TypeOK
<1>2. ASSUME NEW w \in Worker, Query(w) \/ drop(w) PROVE faults' = faults
  BY <1>1, <1>2
     DEF Query, drop, reject, ignore, fail, Conclude, delivery_id_seen, claim_delivery_id,
         resolve_program_id, load_program_status, payout_exists,
         resolve_contributor_address, load_reward_per_point, persist_payout,
         increment_milestone_spent, persist_webhook_event, QueryFails
<1>3. ASSUME NEW w \in Worker, submit(w) PROVE faults' = faults
  BY <1>1, <1>3 DEF submit, AnswerLost
<1>4. ASSUME NEW w \in Worker, NEW d \in Delivery,
             NEW signature \in {"verified", "Unauthorized", "Webhook"},
             receive(w, d, signature)
      PROVE  faults' = faults
  BY <1>4 DEF receive
<1> QED BY <1>2, <1>3, <1>4
        DEF WaveFlowNext, wvars, gvars, gateway, Serve, maintain

LEMMA NoneForgottenStep ==
    ASSUME GatewayInv, ChainOK, NoneForgotten, Effect, [WaveFlowNext]_wvars
    PROVE  NoneForgotten'
<1> SUFFICES ASSUME faults' = 0, NEW m \in processed' \ Recorded'
             PROVE  \E w \in Worker : Unreported(w)' /\ MergeOf(w)' = m
  BY DEF NoneForgotten
<1>0. TypeOK /\ HandlersOK
  BY DEF GatewayInv
<1>1. ASSUME NEW w \in Worker, Unreported(w)' , DeliveryOf(w)' = DeliveryOf(w),
             MergeOf(w) = m, jobs[w].pc \in {"submit", "price", "payout"}
      PROVE  MergeOf(w)' = m
  <2>1. programs'[RepoOf(w)].on_chain_program_id = programs[RepoOf(w)].on_chain_program_id
    BY <1>1, HandFacts
  <2> QED BY <1>1, <2>1 DEF MergeOf, RepoOf, PrOf
<1>2. CASE m \notin processed
  <2>1. PICK w \in Worker : submit(w)
    BY <1>2, MaintainStep DEF WaveFlowNext, wvars, chain
  <2>2. record_merge(w) /\ Outcome(w) /\ jobs[w].pc = "submit"
    BY <1>0, <1>2, <2>1 DEF submit, AnswerLost, DbError, TypeOK
  <2>3. result' = Escrow!Ok /\ MergeOf(w) = m
    BY <1>2, <2>2, RecordMergeCalled
  <2>4. Goto(w, "price")
    BY <2>2, <2>3 DEF Outcome
  <2>5. Unreported(w)' /\ DeliveryOf(w)' = DeliveryOf(w)
    BY <1>0, <2>4, GotoJob DEF Step, Unreported, DeliveryOf
  <2> QED BY <1>1, <2>2, <2>3, <2>5
<1>3. CASE m \in processed
  <2>1. faults = 0
    BY <1>0, FaultsStep
  <2>2. Recorded \subseteq Recorded'
    BY RecordedStep, PaymentStep DEF Payment, Quiet, Pays, Records
  <2>3. PICK w \in Worker : Unreported(w) /\ MergeOf(w) = m
    BY <1>3, <2>1, <2>2 DEF NoneForgotten
  <2>4. CASE Unreported(w)' /\ DeliveryOf(w)' = DeliveryOf(w)
    BY <1>1, <2>3, <2>4 DEF Unreported
  <2>5. CASE <<RepoOf(w), PrOf(w)>> \in DOMAIN payouts'
    <3>1. <<programs'[RepoOf(w)].on_chain_program_id, PrOf(w)>> \in Recorded'
      BY <2>5 DEF Recorded
    <3>2. <<programs'[RepoOf(w)].on_chain_program_id, PrOf(w)>> = m
      BY <2>3, HandFacts DEF Unreported, MergeOf
    <3> QED BY <3>1, <3>2
  <2> QED BY <2>3, <2>4, <2>5, CarriedStep
<1> QED BY <1>2, <1>3

-----------------------------------------------------------------------------
(* The theorems. *)

LEMMA WaveFlowStep == WaveFlowInv /\ [WaveFlowNext]_wvars => WaveFlowInv' /\ Payment
<1> SUFFICES ASSUME WaveFlowInv, [WaveFlowNext]_wvars PROVE WaveFlowInv' /\ Payment
  OBVIOUS
<1>1. /\ GatewayInv /\ IdsUnique /\ ChainOK /\ RecordedIsPaid /\ NoneForgotten
      /\ TypeOK /\ InHand
  BY InHandIs DEF WaveFlowInv, GatewayInv
<1>2. Effect
  BY <1>1, WaveFlowEffect
<1>3. GatewayInv' /\ IdsUnique'
  BY <1>1, <1>2, InvStep, IdsStep
<1>4. Payment /\ ChainOK'
  BY <1>1, PaymentStep
<1>5. RecordedIsPaid' /\ InHand'
  BY <1>1, <1>2, <1>4, InHandStep
<1>6. NoneForgotten'
  BY <1>1, <1>2, NoneForgottenStep
<1>7. (GatewayInv /\ IdsUnique => (PaymentInHand <=> InHand))'
  BY InHandIs, PTL
<1> QED BY <1>3, <1>4, <1>5, <1>6, <1>7 DEF WaveFlowInv

LEMMA WaveFlowStart == WaveFlowInit => WaveFlowInv /\ processed = {} /\ Recorded = {}
<1> SUFFICES ASSUME WaveFlowInit PROVE WaveFlowInv /\ processed = {} /\ Recorded = {}
  OBVIOUS
<1>1. GatewayInv
  BY InvInit DEF WaveFlowInit
<1>2. /\ DOMAIN programs = {} /\ DOMAIN payouts = {} /\ faults = 0
      /\ \A w \in Worker : jobs[w].pc = "idle"
  BY DEF WaveFlowInit, Init, EmptyTables, EmptyTable, Idle
<1>3. processed = {} /\ counter = 0 /\ DOMAIN chain_programs = {}
  BY DEF WaveFlowInit, Escrow!InitDeployed, Escrow!FreshStorage, Escrow!EmptyMap
<1>4. Recorded = {}
  BY <1>2 DEF Recorded
<1> QED BY <1>1, <1>2, <1>3, <1>4
        DEF WaveFlowInv, IdsUnique, ChainOK, RecordedIsPaid, PaymentInHand, Unreported,
            NoneForgotten

(* The strengthened invariant of the composition holds in every reachable  *)
(* state: the gateway's tables, the handlers submitting payments and the   *)
(* contract's records of paid merges stay in step.                         *)
THEOREM WaveFlowInvariant == WaveFlowSpec => []WaveFlowInv
BY WaveFlowStart, WaveFlowStep, PTL DEF WaveFlowSpec

(* A payment the database does not report yet is in the hands of one       *)
(* handler: record_merge lets one of those that race for a merge through.  *)
THEOREM PaymentsInHand == WaveFlowSpec => []PaymentInHand
BY WaveFlowInvariant, PTL DEF WaveFlowInv

(* Without faults every payment is in the database once the handlers are   *)
(* done.                                                                   *)
THEOREM PaymentsReported == WaveFlowSpec => []PaymentsRecorded
<1>1. WaveFlowInv => PaymentsRecorded
  BY DEF WaveFlowInv, NoneForgotten, PaymentsRecorded, Quiescent, Unreported
<1> QED BY <1>1, WaveFlowInvariant, PTL

(* Gateway, database and contract together keep the promise of Payroll:    *)
(* each merge is paid at most once, and reported once it is paid only.     *)
THEOREM ImplementsPayroll == WaveFlowSpec => PayrollImplemented
<1>1. WaveFlowInit => Promise!Init
  BY WaveFlowStart DEF Promise!Init
<1>2. WaveFlowInv /\ [WaveFlowNext]_wvars => [Promise!Next]_<<processed, Recorded>>
  <2> SUFFICES ASSUME WaveFlowInv, [WaveFlowNext]_wvars
               PROVE  Promise!Next \/ UNCHANGED <<processed, Recorded>>
    OBVIOUS
  <2>1. Payment /\ GatewayInv /\ Effect /\ InHand /\ TypeOK
    BY WaveFlowStep, WaveFlowEffect, InHandIs DEF WaveFlowInv, GatewayInv
  <2>2. CASE Quiet
    BY <2>1, <2>2, RecordedStep DEF Quiet
  <2>3. ASSUME NEW w \in Worker, Pays(w) PROVE Promise!Next
    <3>1. Promise!Pay(MergeOf(w))
      BY <2>1, <2>3, RecordedStep DEF Pays, Promise!Pay
    <3> QED BY <2>3, <3>1 DEF Pays, Promise!Next
  <2>4. ASSUME NEW w \in Worker, Records(w) PROVE Promise!Next
    <3>1. MergeOf(w) \in processed \ Recorded
      BY <2>1, <2>4 DEF Records, InHand, Unreported
    <3>2. Promise!Record(MergeOf(w))
      BY <2>1, <2>4, <3>1, RecordedStep DEF Records, Promise!Record
    <3>3. MergeOf(w) \in Escrow!ProgramId \X PrNumber
      BY <3>1 DEF WaveFlowInv, ChainOK
    <3> QED BY <3>2, <3>3 DEF Promise!Next
  <2> QED BY <2>1, <2>2, <2>3, <2>4 DEF Payment
<1> QED BY <1>1, <1>2, WaveFlowInvariant, PTL DEF WaveFlowSpec, PayrollImplemented, Promise!Spec

(* The guarantees of the gateway outlive the chain it submits to: a        *)
(* submission that is refused or lost breaks none of them.                 *)
THEOREM GatewayKept ==
    WaveFlowSpec => [](SubmittedOncePerDelivery /\ PaidWasAttested /\ AcknowledgedIsPaid)
<1>1. WaveFlowInv => SubmittedOncePerDelivery /\ PaidWasAttested /\ AcknowledgedIsPaid
  BY DEF WaveFlowInv, GatewayInv, ClaimsOK, ClaimOK, SubmittedOncePerDelivery
<1> QED BY <1>1, WaveFlowInvariant, PTL

=============================================================================
