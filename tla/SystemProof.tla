---------------------------- MODULE SystemProof ----------------------------
(* Theorems about the whole system, for every value of the constants: what *)
(* the parts guarantee on their own still holds of them together, and what *)
(* the contract, the database and a dashboard say of one payment agrees.   *)
EXTENDS System, WaveFlowProof, SpendingProof

(* The contract of the system, with its theorems. *)
Deployed == INSTANCE DeployedEscrowProof WITH
    programs <- chain_programs, contributors <- chain_contributors,
    Username <- User, Payees <- Account, Admins <- Maintainer,
    Gateways <- {Oracle}, Points <- {points}, Amount <- Reward \cup Funding

LEMMA DeployedAssumption == Deployed!EscrowAssumption
BY WaveFlowAssumption
   DEF Escrow!EscrowAssumption, Deployed!EscrowAssumption, Escrow!Signer, Deployed!Signer,
       Escrow!IsFiniteSet, Deployed!IsFiniteSet

-----------------------------------------------------------------------------
(* The system calls the contract as the contract's specification says:     *)
(* maintainers and the gateway sign for themselves, and a submission that  *)
(* names a program the contract does not know is refused.                  *)

LEMMA UnknownRefused ==
    ASSUME ChainOK, NEW p, p \notin Escrow!ProgramId, NEW user, NEW pr,
           Escrow!record_merge(Oracle, p, user, pr, points)
    PROVE  Escrow!record_merge(Oracle, 0, user, pr, points)
<1>1. 0 \notin Escrow!ProgramId
  BY WaveFlowAssumption DEF Escrow!ProgramId, Escrow!EscrowAssumption
<1>2. \A q : q \notin Escrow!ProgramId => q \notin DOMAIN chain_programs
                                         /\ <<q, pr>> \notin processed
  BY DEF ChainOK
<1>3. /\ Escrow!RecordMergeCheck(Oracle, p, user, pr, points)
            = Escrow!RecordMergeCheck(Oracle, 0, user, pr, points)
      /\ Escrow!RecordMergeCheck(Oracle, p, user, pr, points) # Escrow!Ok
  BY <1>1, <1>2 DEF Escrow!RecordMergeCheck, Escrow!is_pr_processed, Escrow!Ok
<1> QED BY <1>3 DEF Escrow!record_merge

LEMMA CallsContract ==
    ASSUME GatewayInv, ChainOK, [WaveFlowNext]_wvars
    PROVE  [Escrow!Next]_Escrow!vars
<1>0. Maintainer \subseteq Escrow!Signer /\ Oracle \in Escrow!Signer
  BY WaveFlowAssumption DEF Escrow!EscrowAssumption
<1>1. CASE UNCHANGED chain
  BY <1>1 DEF chain, Escrow!vars, Escrow!storage
<1>2. CASE maintain
  <2>1. ASSUME NEW caller \in Maintainer, NEW repo \in Repo, NEW reward \in Reward,
               NEW cap \in Cap \cup {NoCap},
               Escrow!create_program(caller, repo, reward, cap)
        PROVE  Escrow!Next
    BY <1>0, <2>1 DEF Escrow!Next
  <2>2. ASSUME NEW caller \in Maintainer, NEW p \in Escrow!ProgramId,
               \/ \E amount \in Funding : Escrow!fund(p, caller, amount)
               \/ \E user \in User, payee \in Account :
                      Escrow!register_contributor(p, caller, user, payee)
               \/ Escrow!pause(p, caller)
               \/ Escrow!resume(p, caller)
               \/ \E reward \in Reward : Escrow!set_ratio(p, caller, reward)
               \/ Escrow!withdraw_remaining(p, caller)
        PROVE  Escrow!Next
    <3>1. p \in Escrow!AnyId /\ caller \in Escrow!Signer
      BY <1>0, WaveFlowAssumption DEF Escrow!ProgramId, Escrow!AnyId, Escrow!EscrowAssumption
    <3> QED BY <2>2, <3>1 DEF Escrow!Next
  <2> QED BY <1>2, <2>1, <2>2 DEF maintain
<1>3. ASSUME NEW w \in Worker, submit(w), record_merge(w) PROVE Escrow!Next
  <2> DEFINE p == MergeOf(w)[1]
             user == DeliveryOf(w).user
  <2>1. Escrow!record_merge(Oracle, p, user, PrOf(w), points)
    BY <1>3 DEF record_merge, build_attestation, MergeOf
  <2>2. user \in User /\ PrOf(w) \in PrNumber
    <3>1. DeliveryOf(w) \in Delivery
      BY <1>3, JobType DEF submit, GatewayInv
    <3> QED BY <3>1, GatewayAssumption DEF DeliveryShape, PrOf
  <2>3. PICK q \in Escrow!AnyId : Escrow!record_merge(Oracle, q, user, PrOf(w), points)
    <3>1. CASE p \in Escrow!ProgramId
      BY <2>1, <3>1, WaveFlowAssumption
         DEF Escrow!ProgramId, Escrow!AnyId, Escrow!EscrowAssumption
    <3>2. CASE p \notin Escrow!ProgramId
      <4> HIDE DEF p, user
      <4>1. Escrow!record_merge(Oracle, 0, user, PrOf(w), points)
        BY <2>1, <3>2, UnknownRefused
      <4>2. 0 \in Escrow!AnyId
        BY WaveFlowAssumption DEF Escrow!AnyId, Escrow!EscrowAssumption
      <4> QED BY <4>1, <4>2
    <3> QED BY <3>1, <3>2
  <2> HIDE DEF user
  <2> QED BY <1>0, <2>2, <2>3 DEF Escrow!Next
<1> QED BY <1>1, <1>2, <1>3 DEF WaveFlowNext, wvars, submit

(* The contract of the composition behaves as Escrow's specification of a  *)
(* deployed contract says, whatever the gateway submits.                   *)
THEOREM ContractKept == WaveFlowSpec => Escrow!DeployedSpec
<1>1. WaveFlowInit => Escrow!InitDeployed
  BY DEF WaveFlowInit
<1>2. WaveFlowInv /\ [WaveFlowNext]_wvars => [Escrow!Next]_Escrow!vars
  BY CallsContract DEF WaveFlowInv
<1> QED BY <1>1, <1>2, WaveFlowInvariant, PTL DEF WaveFlowSpec, Escrow!DeployedSpec

-----------------------------------------------------------------------------
(* `Escrow` and `Deployed` name the same contract. *)

LEMMA SameNext == Escrow!Next <=> Deployed!Next
BY DEF Escrow!ProgramId, Deployed!ProgramId, Escrow!AnyId, Deployed!AnyId,
       Escrow!Signer, Deployed!Signer, Escrow!Ok, Deployed!Ok, Escrow!HostError,
       Deployed!HostError, Escrow!storage, Deployed!storage, Escrow!CanTransfer,
       Deployed!CanTransfer, Escrow!Transferred, Deployed!Transferred,
       Escrow!next_program_id, Deployed!next_program_id, Escrow!is_pr_processed,
       Deployed!is_pr_processed, Escrow!mark_pr_processed,
       Deployed!mark_pr_processed, Escrow!is_registered, Deployed!is_registered,
       Escrow!Stored, Deployed!Stored, Escrow!write_program,
       Deployed!write_program, Escrow!write_contributor,
       Deployed!write_contributor, Escrow!Payout, Deployed!Payout,
       Escrow!IsUncovered, Deployed!IsUncovered, Escrow!ExceedsCap,
       Deployed!ExceedsCap, Escrow!Debited, Deployed!Debited, Escrow!Drained,
       Deployed!Drained, Escrow!MaintainerCheck, Deployed!MaintainerCheck,
       Escrow!CreateProgramCheck, Deployed!CreateProgramCheck, Escrow!FundCheck,
       Deployed!FundCheck, Escrow!RegisterCheck, Deployed!RegisterCheck,
       Escrow!MilestoneCheck, Deployed!MilestoneCheck, Escrow!require_active,
       Deployed!require_active, Escrow!RecordMergeCheck,
       Deployed!RecordMergeCheck, Escrow!PausedCheck, Deployed!PausedCheck,
       Escrow!WithdrawCheck, Deployed!WithdrawCheck, Escrow!Reject,
       Deployed!Reject, Escrow!initialize, Deployed!initialize,
       Escrow!create_program, Deployed!create_program, Escrow!fund, Deployed!fund,
       Escrow!register_contributor, Deployed!register_contributor,
       Escrow!record_merge, Deployed!record_merge, Escrow!SetStatus,
       Deployed!SetStatus, Escrow!pause, Deployed!pause, Escrow!resume,
       Deployed!resume, Escrow!set_ratio, Deployed!set_ratio,
       Escrow!withdraw_remaining, Deployed!withdraw_remaining,
       Escrow!token_transfer, Deployed!token_transfer, Escrow!Next, Deployed!Next

LEMMA SameContract == Escrow!DeployedSpec => Deployed!DeployedSpec
<1>1. Escrow!InitDeployed <=> Deployed!InitDeployed
  BY DEF Escrow!InitDeployed, Deployed!InitDeployed, Escrow!FreshStorage,
         Deployed!FreshStorage, Escrow!ProgramId, Deployed!ProgramId,
         Escrow!EmptyMap, Deployed!EmptyMap, Escrow!Ok, Deployed!Ok
<1>2. [Escrow!Next]_Escrow!vars <=> [Deployed!Next]_Deployed!vars
  BY SameNext DEF Escrow!vars, Deployed!vars, Escrow!storage, Deployed!storage
<1> QED BY <1>1, <1>2, PTL DEF Escrow!DeployedSpec, Deployed!DeployedSpec

LEMMA SameGuarantees ==
    /\ Deployed!Solvent => Escrow!Solvent
    /\ Deployed!OnePayoutPerPr => Escrow!OnePayoutPerPr
    /\ Deployed!AuditableBalance => Escrow!AuditableBalance
    /\ Deployed!MilestoneRespected => Escrow!MilestoneRespected
<1>1. Deployed!Solvent => Escrow!Solvent
  BY DEF Escrow!Solvent, Deployed!Solvent, Escrow!Liabilities, Deployed!Liabilities,
         Escrow!Escrows, Deployed!Escrows, Escrow!EscrowOf, Deployed!EscrowOf,
         Escrow!ProgramId, Deployed!ProgramId, Escrow!SumFunction,
         Deployed!SumFunction, Escrow!SumFunctionOnSet, Deployed!SumFunctionOnSet,
         Escrow!FoldFunctionOnSet, Deployed!FoldFunctionOnSet,
         Escrow!MapThenFoldSet, Deployed!MapThenFoldSet
<1>2. Deployed!OnePayoutPerPr => Escrow!OnePayoutPerPr
  BY DEF Escrow!OnePayoutPerPr, Deployed!OnePayoutPerPr, Escrow!MergesRecorded,
         Deployed!MergesRecorded, Escrow!ProgramId, Deployed!ProgramId,
         Escrow!Cardinality, Deployed!Cardinality, Escrow!IsFiniteSet,
         Deployed!IsFiniteSet
<1>3. Deployed!AuditableBalance => Escrow!AuditableBalance
  BY DEF Escrow!AuditableBalance, Deployed!AuditableBalance, Escrow!EscrowOf,
         Deployed!EscrowOf, Escrow!ProgramId, Deployed!ProgramId
<1>4. Deployed!MilestoneRespected => Escrow!MilestoneRespected
  BY DEF Escrow!MilestoneRespected, Deployed!MilestoneRespected
<1> QED BY <1>1, <1>2, <1>3, <1>4

LEMMA SameConduct ==
    /\ Deployed!OutflowAccounted => Escrow!OutflowAccounted
    /\ Deployed!ProgramIdentityStable => Escrow!ProgramIdentityStable
    /\ Deployed!RecordsPermanent => Escrow!RecordsPermanent
<1>1. Deployed!OutflowAccounted => Escrow!OutflowAccounted
  BY PTL DEF Escrow!OutflowAccounted, Deployed!OutflowAccounted, Escrow!PaidForMerge,
             Deployed!PaidForMerge, Escrow!Refunded, Deployed!Refunded, Escrow!EscrowOf,
             Deployed!EscrowOf, Escrow!vars, Deployed!vars, Escrow!storage,
             Deployed!storage, Escrow!ProgramId, Deployed!ProgramId
<1>2. Deployed!ProgramIdentityStable => Escrow!ProgramIdentityStable
  BY PTL DEF Escrow!ProgramIdentityStable, Deployed!ProgramIdentityStable, Escrow!vars,
             Deployed!vars, Escrow!storage, Deployed!storage
<1>3. Deployed!RecordsPermanent => Escrow!RecordsPermanent
  BY PTL DEF Escrow!RecordsPermanent, Deployed!RecordsPermanent, Escrow!vars,
             Deployed!vars, Escrow!storage, Deployed!storage
<1> QED BY <1>1, <1>2, <1>3

LEMMA SameLedger == Deployed!TreasuryImplemented => Escrow!TreasuryImplemented
BY PTL DEF Escrow!TreasuryImplemented, Deployed!TreasuryImplemented,
       Escrow!Ledger!Spec, Deployed!Ledger!Spec, Escrow!Ledger!Init,
       Deployed!Ledger!Init, Escrow!Ledger!Next, Deployed!Ledger!Next,
       Escrow!Ledger!tvars, Deployed!Ledger!tvars, Escrow!Ledger!Open,
       Deployed!Ledger!Open, Escrow!Ledger!Deposit, Deployed!Ledger!Deposit,
       Escrow!Ledger!Award, Deployed!Ledger!Award, Escrow!Ledger!Refund,
       Deployed!Ledger!Refund, Escrow!Ledger!Close, Deployed!Ledger!Close,
       Escrow!Ledger!Reopen, Deployed!Ledger!Reopen, Escrow!Ledger!Pay,
       Deployed!Ledger!Pay, Escrow!Liabilities, Deployed!Liabilities,
       Escrow!Escrows, Deployed!Escrows, Escrow!EscrowOf, Deployed!EscrowOf,
       Escrow!ProgramId, Deployed!ProgramId, Escrow!SumFunction,
       Deployed!SumFunction, Escrow!SumFunctionOnSet, Deployed!SumFunctionOnSet,
       Escrow!FoldFunctionOnSet, Deployed!FoldFunctionOnSet,
       Escrow!MapThenFoldSet, Deployed!MapThenFoldSet

LEMMA DeployedKept == WaveFlowSpec => Deployed!DeployedSpec
BY ContractKept, SameContract, PTL

(* Whatever gateway and maintainers do together, the contract covers what  *)
(* it owes, pays a pull request once, keeps within the milestone caps, and *)
(* announces what it holds.                                                *)
THEOREM ContractSafe ==
    WaveFlowSpec => [](/\ Escrow!Solvent /\ Escrow!OnePayoutPerPr
                       /\ Escrow!AuditableBalance /\ Escrow!MilestoneRespected)
<1>1. Deployed!DeployedSpec => []Deployed!Solvent
  BY DeployedAssumption, Deployed!StaysSolvent
<1>2. Deployed!DeployedSpec => []Deployed!OnePayoutPerPr
  BY DeployedAssumption, Deployed!PaysOnce
<1>3. Deployed!DeployedSpec => []Deployed!AuditableBalance
  BY DeployedAssumption, Deployed!BalanceAuditable
<1>4. Deployed!DeployedSpec => []Deployed!MilestoneRespected
  BY DeployedAssumption, Deployed!CapRespected
<1> QED BY <1>1, <1>2, <1>3, <1>4, DeployedKept, SameGuarantees, PTL

(* Escrow leaves a program for a merge or back to its maintainer only, a   *)
(* program keeps its identity, and no record of the contract is forgotten. *)
THEOREM ContractConduct ==
    WaveFlowSpec => /\ Escrow!OutflowAccounted /\ Escrow!ProgramIdentityStable
                    /\ Escrow!RecordsPermanent
<1>1. Deployed!DeployedSpec => Deployed!OutflowAccounted
  BY DeployedAssumption, Deployed!OutflowsAccounted
<1>2. Deployed!DeployedSpec => Deployed!ProgramIdentityStable
  BY DeployedAssumption, Deployed!IdentityKept
<1>3. Deployed!DeployedSpec => Deployed!RecordsPermanent
  BY DeployedAssumption, Deployed!RecordsKept
<1> QED BY <1>1, <1>2, <1>3, DeployedKept, SameConduct, PTL

(* The system as a whole implements the treasury.                          *)
THEOREM SystemIsTreasury == WaveFlowSpec => Escrow!TreasuryImplemented
BY DeployedAssumption, Deployed!ImplementsTreasury, DeployedKept, SameLedger, PTL

-----------------------------------------------------------------------------
(* The payout rows of a program and the payments of the contract.          *)

LEMMA RowsArePayments ==
    ASSUME WaveFlowInv, NEW repo \in DOMAIN programs,
           NEW id, id = programs[repo].on_chain_program_id
    PROVE  \A key \in PayoutsOf(repo) :
              /\ key = <<repo, key[2]>> /\ key[2] \in PrNumber
              /\ id \in Escrow!ProgramId /\ key[2] \in Escrow!MergesRecorded(id)
<1> TAKE key \in PayoutsOf(repo)
<1>1. key \in DOMAIN payouts /\ key[1] = repo /\ key \in Repo \X PrNumber
  BY DEF PayoutsOf, WaveFlowInv, GatewayInv, TypeOK, TablesOK
<1>2. <<id, key[2]>> \in processed /\ <<id, key[2]>> \in Escrow!ProgramId \X PrNumber
  BY <1>1 DEF WaveFlowInv, RecordedIsPaid, Recorded, ChainOK
<1> QED BY <1>1, <1>2 DEF Escrow!MergesRecorded

LEMMA PaymentsAreRows ==
    ASSUME WaveFlowInv, faults = 0, Quiescent, NEW repo \in DOMAIN programs,
           NEW id, id = programs[repo].on_chain_program_id,
           NEW pr \in Escrow!MergesRecorded(id)
    PROVE  <<repo, pr>> \in PayoutsOf(repo)
<1>1. <<id, pr>> \in Recorded
  BY DEF Escrow!MergesRecorded, WaveFlowInv, NoneForgotten, Quiescent, Unreported
<1>2. PICK key \in DOMAIN payouts : programs[key[1]].on_chain_program_id = id /\ key[2] = pr
  BY <1>1 DEF Recorded
<1>3. key[1] \in DOMAIN programs /\ key \in Repo \X PrNumber
  BY <1>2 DEF WaveFlowInv, GatewayInv, PayoutsOK, TypeOK, TablesOK
<1>4. key = <<repo, pr>>
  BY <1>2, <1>3 DEF WaveFlowInv, IdsUnique
<1> QED BY <1>2, <1>4 DEF PayoutsOf

LEMMA AuditIs == WaveFlowInv /\ Escrow!OnePayoutPerPr => AuditReconciles
<1> SUFFICES ASSUME WaveFlowInv, Escrow!OnePayoutPerPr, NEW repo \in DOMAIN programs,
                    NEW id, id = programs[repo].on_chain_program_id
             PROVE  /\ Cardinality(PayoutsOf(repo)) <= Announced(id)
                    /\ faults = 0 /\ Quiescent =>
                          Cardinality(PayoutsOf(repo)) = Announced(id)
  BY DEF AuditReconciles
<1> DEFINE rows == PayoutsOf(repo)
           payments == Escrow!MergesRecorded(id)
           number == [key \in rows |-> key[2]]
<1>1. \A key \in rows : /\ key = <<repo, key[2]>> /\ id \in Escrow!ProgramId
                        /\ key[2] \in payments
  BY RowsArePayments
<1>2. IsFiniteSet(payments)
  <2>1. IsFiniteSet(PrNumber)
    BY WaveFlowAssumption
       DEF Escrow!EscrowAssumption, Escrow!IsFiniteSet, IsFiniteSet
  <2> QED BY <2>1, FS_Subset DEF Escrow!MergesRecorded
<1>3. number \in Injection(rows, payments)
  BY <1>1 DEF Injection, IsInjective
<1>4. faults = 0 /\ Quiescent => number \in Surjection(rows, payments)
  <2> SUFFICES ASSUME faults = 0, Quiescent, NEW pr \in payments
               PROVE  \E key \in rows : number[key] = pr
    BY <1>3 DEF Surjection, Injection
  <2>1. <<repo, pr>> \in rows
    BY PaymentsAreRows
  <2> QED BY <2>1
<1> HIDE DEF rows, payments, number
<1>5. CASE id \in Escrow!ProgramId
  <2>1. Announced(id) = Cardinality(payments)
    BY <1>5 DEF Announced, Escrow!OnePayoutPerPr, payments, Escrow!Cardinality, Cardinality,
                Escrow!IsFiniteSet, IsFiniteSet
  <2> QED BY <1>2, <1>3, <1>4, <2>1, FS_Injection DEF rows
<1>6. CASE id \notin Escrow!ProgramId
  <2>1. rows = {}
    BY <1>1, <1>6
  <2> QED BY <1>6, <2>1, FS_EmptySet DEF Announced, rows
<1> QED BY <1>5, <1>6

(* The audit: of no program are more payouts stored than the contract has  *)
(* announced payments, and without faults as many once the handlers are    *)
(* done.                                                                   *)
THEOREM AuditHolds == WaveFlowSpec => []AuditReconciles
BY AuditIs, WaveFlowInvariant, ContractSafe, PTL

-----------------------------------------------------------------------------
(* The books, and what a dashboard shows of them. *)

LEMMA WaveFlowBooking ==
    ASSUME GatewayInv, [WaveFlowNext]_wvars
    PROVE  Booking
<1>0. TypeOK /\ HandlersOK
  BY DEF GatewayInv
<1>1. CASE [Next]_gvars
  BY <1>0, <1>1, NextBooking
<1>2. ASSUME NEW w \in Worker, submit(w) PROVE Booking
  <2>1. Submits(w)
    BY <1>0, <1>2, SubmitSubmits
  <2>2. /\ Works(w) /\ ~Counting(w) /\ jobs'[w].pc # "spent"
        /\ UNCHANGED <<programs, payouts>>
    BY <2>1 DEF Submits, Counting, Idle, tables
  <2> QED BY <1>0, <2>2, WorkBalanced DEF Booking
<1> QED BY <1>1, <1>2 DEF WaveFlowNext, Next, maintain, wvars

LEMMA WaveFlowBooks ==
    WaveFlowInv /\ SpendingInv /\ [WaveFlowNext]_wvars => SpendingInv'
<1> SUFFICES ASSUME WaveFlowInv, SpendingInv, [WaveFlowNext]_wvars PROVE SpendingInv'
  OBVIOUS
<1>1. GatewayInv /\ TypeOK /\ GatewayInv'
  BY WaveFlowStep DEF WaveFlowInv, GatewayInv
<1> QED BY <1>1, WaveFlowBooking, FaultsStep, BooksStep

(* milestone_spent still counts every payout once when the submission is a *)
(* transaction that may be refused, or lost with its answer.               *)
THEOREM BooksKept == WaveFlowSpec => []SpentReconciles
<1>1. WaveFlowInit => SpendingInv
  BY SpendingInit DEF WaveFlowInit
<1>2. SpendingInv => SpentReconciles
  BY DEF SpendingInv
<1> QED BY <1>1, <1>2, WaveFlowBooks, WaveFlowInvariant, PTL DEF WaveFlowSpec

(* Reading changes nothing: with dashboards the system behaves as without, *)
(* so every theorem about WaveFlowSpec is one about SystemSpec.            *)
THEOREM ReadersObserve == SystemSpec => WaveFlowSpec
<1>1. [SystemNext]_svars => [WaveFlowNext]_wvars
  <2>1. Browse => UNCHANGED gvars
    BY DEF Browse, list_programs, get_program, list_payouts, list_contributors
  <2> QED BY <2>1 DEF SystemNext, svars, wvars
<1> QED BY <1>1, PTL DEF SystemSpec, SystemInit, WaveFlowSpec

SystemInv == WaveFlowInv /\ ReadInv

LEMMA SystemStart == SystemInit => SystemInv
<1> SUFFICES ASSUME SystemInit PROVE SystemInv
  OBVIOUS
<1>1. ReadInit
  BY DEF SystemInit, WaveFlowInit, ReadInit
<1> QED BY <1>1, WaveFlowStart, ReadInitially DEF SystemInit, SystemInv

LEMMA SystemStep == SystemInv /\ [SystemNext]_svars => SystemInv'
<1> SUFFICES ASSUME SystemInv, [SystemNext]_svars PROVE SystemInv'
  OBVIOUS
<1>1. CASE [WaveFlowNext]_wvars /\ UNCHANGED page
  <2>1. WaveFlowInv' /\ SpendingInv'
    BY <1>1, WaveFlowStep, WaveFlowBooks DEF SystemInv, ReadInv
  <2>2. Booking /\ Effect
    BY <1>1, WaveFlowBooking, WaveFlowEffect DEF SystemInv, WaveFlowInv
  <2>3. PageOK' /\ SpentIsListed' /\ WalletIsListed'
    BY <1>1, <2>2, WritesBehind DEF SystemInv
  <2> QED BY <2>1, <2>3 DEF SystemInv, ReadInv
<1>2. CASE Browse /\ UNCHANGED chain
  <2>1. UNCHANGED gvars
    BY <1>2 DEF Browse, list_programs, get_program, list_payouts, list_contributors
  <2>2. WaveFlowInv'
    BY <1>2, <2>1, WaveFlowStep DEF SystemInv, wvars
  <2>3. ReadInv'
    BY <1>2, ReadStep DEF SystemInv, ReadNext
  <2> QED BY <2>2, <2>3 DEF SystemInv
<1> QED BY <1>1, <1>2 DEF SystemNext, svars

LEMMA SystemInvariant == SystemSpec => []SystemInv
BY SystemStart, SystemStep, PTL DEF SystemSpec

(* A dashboard lists no payout under a program that the escrow it shows    *)
(* for that program has not paid.                                          *)
THEOREM ListedWasPaid == SystemSpec => []ListedIsPaid
<1>1. SystemInv => ListedIsPaid
  <2> SUFFICES ASSUME SystemInv, page.payouts # NotRead, NEW key \in DOMAIN page.payouts
               PROVE  <<page.programs[page.repo].on_chain_program_id, key[2]>> \in processed
    BY DEF ListedIsPaid
  <2>1. /\ page.repo # NotRead /\ page.repo \in DOMAIN page.programs
        /\ page.programs[page.repo].on_chain_program_id
               = programs[page.repo].on_chain_program_id
        /\ key \in DOMAIN payouts /\ key[1] = page.repo
    BY DEF SystemInv, ReadInv, PageOK
  <2>2. <<programs[key[1]].on_chain_program_id, key[2]>> \in processed
    BY <2>1 DEF SystemInv, WaveFlowInv, RecordedIsPaid, Recorded
  <2> QED BY <2>1, <2>2
<1> QED BY <1>1, SystemInvariant, PTL

(* What a dashboard may rely on outlives the chain: the listed payouts     *)
(* cover the milestone_spent shown, and went to wallets that are listed.   *)
THEOREM PageKept == SystemSpec => [](SpentIsListed /\ WalletIsListed)
<1>1. SystemInv => SpentIsListed /\ WalletIsListed
  BY DEF SystemInv, ReadInv
<1> QED BY <1>1, SystemInvariant, PTL

=============================================================================
