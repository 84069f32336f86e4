---------------------------- MODULE EscrowProof ----------------------------
(* Theorems about the escrow contract, for every value of the constants. *)
EXTENDS Escrow, SumsProof

-----------------------------------------------------------------------------
(* A transfer the token contract accepts leaves every balance in range. *)
LEMMA TransferType ==
    ASSUME NEW from \in Address, NEW to \in Address, NEW amount \in Nat,
           balances \in [Address -> 0..MaxI128],
           amount = 0 \/ CanTransfer(from, to, amount)
    PROVE  Transferred(from, to, amount) \in [Address -> 0..MaxI128]
BY EscrowAssumption DEF CanTransfer, Transferred

-----------------------------------------------------------------------------
(* Type correctness. *)

LEMMA InitType == Init \/ InitDeployed => TypeOK
<1> SUFFICES ASSUME Init \/ InitDeployed PROVE TypeOK
  OBVIOUS
<1>1. instance \in [admin: Admins \cup {Absent}, gateway: Gateways \cup {Absent},
                    token: {Token, Absent}]
  BY DEF Init, InitDeployed
<1>2. FreshStorage
  BY DEF Init, InitDeployed
<1>3. /\ counter \in 0..MaxPrograms
      /\ DOMAIN programs \subseteq ProgramId
      /\ programs \in [DOMAIN programs -> Program]
      /\ DOMAIN contributors \subseteq ProgramId \X Username
      /\ contributors \in [DOMAIN contributors -> Payees]
      /\ processed \subseteq ProgramId \X PrNumber
      /\ balances \in [Address -> 0..MaxI128]
  BY <1>2, EscrowAssumption DEF FreshStorage, EmptyMap
<1>4. events \in [ProgramId -> Totals] /\ result = Ok
  BY <1>2, EscrowAssumption DEF FreshStorage, Totals
<1> QED BY <1>1, <1>3, <1>4 DEF TypeOK

(* What a call that passes its checks may rely on. *)

LEMMA MaintainerOk ==
    ASSUME NEW p, NEW caller, MaintainerCheck(p, caller) = Ok
    PROVE  p \in DOMAIN programs /\ programs[p].maintainer = caller
BY DEF MaintainerCheck, Ok

LEMMA FundOk ==
    ASSUME NEW p, NEW from, NEW amount, FundCheck(p, from, amount) = Ok
    PROVE  /\ ~(amount < 1)
           /\ p \in DOMAIN programs /\ programs[p].maintainer = from
           /\ CanTransfer(from, Contract, amount)
           /\ ~(programs[p].escrow_balance + amount > MaxI128)
<1>1. MaintainerCheck(p, from) = Ok /\ ~(amount < 1)
  BY DEF FundCheck, Ok
<1>2. CanTransfer(from, Contract, amount)
  BY <1>1 DEF FundCheck, Ok, HostError
<1>3. ~(programs[p].escrow_balance + amount > MaxI128)
  BY <1>1, <1>2 DEF FundCheck, Ok
<1> QED BY <1>1, <1>2, <1>3, MaintainerOk

LEMMA RegisterOk ==
    ASSUME NEW p, NEW caller, NEW user, RegisterCheck(p, caller, user) = Ok
    PROVE  p \in DOMAIN programs /\ <<p, user>> \notin DOMAIN contributors
<1>1. MaintainerCheck(p, caller) = Ok /\ ~is_registered(p, user)
  BY DEF RegisterCheck, Ok
<1> QED BY <1>1, MaintainerOk DEF is_registered

LEMMA RecordMergeOk ==
    ASSUME NEW gateway, NEW p, NEW user, NEW pr, NEW points,
           RecordMergeCheck(gateway, p, user, pr, points) = Ok
    PROVE  /\ instance.gateway # Absent
           /\ points # 0
           /\ <<p, pr>> \notin processed
           /\ p \in DOMAIN programs
           /\ programs[p].status # "Paused"
           /\ <<p, user>> \in DOMAIN contributors
           /\ ~(programs[p].escrow_balance < Payout(p, points))
           /\ MilestoneCheck(p, Payout(p, points)) = Ok
           /\ CanTransfer(Contract, contributors[<<p, user>>], Payout(p, points))
<1>1. /\ instance.gateway # Absent /\ points # 0
      /\ ~is_pr_processed(p, pr) /\ p \in DOMAIN programs
      /\ require_active(p) = Ok
  BY DEF RecordMergeCheck, Ok
<1>2. /\ is_registered(p, user) /\ ~IsUncovered(p, Payout(p, points))
      /\ MilestoneCheck(p, Payout(p, points)) = Ok
  BY <1>1 DEF RecordMergeCheck, Ok
<1>3. CanTransfer(Contract, contributors[<<p, user>>], Payout(p, points))
  BY <1>1, <1>2 DEF RecordMergeCheck, Ok, HostError
<1>4. programs[p].status # "Paused"
  BY <1>1 DEF require_active, Ok
<1> QED BY <1>1, <1>2, <1>3, <1>4 DEF is_pr_processed, is_registered, IsUncovered

LEMMA WithdrawOk ==
    ASSUME NEW p, NEW caller, WithdrawCheck(p, caller) = Ok
    PROVE  /\ p \in DOMAIN programs /\ programs[p].maintainer = caller
           /\ programs[p].status = "Paused"
           /\ \/ programs[p].escrow_balance = 0
              \/ CanTransfer(Contract, caller, programs[p].escrow_balance)
<1>1. PausedCheck(p, caller) = Ok
  BY DEF WithdrawCheck, Ok
<1>2. MaintainerCheck(p, caller) = Ok /\ programs[p].status = "Paused"
  BY <1>1 DEF PausedCheck, Ok
<1>3. \/ programs[p].escrow_balance = 0
      \/ CanTransfer(Contract, caller, programs[p].escrow_balance)
  BY <1>1 DEF WithdrawCheck, Ok, HostError
<1> QED BY <1>2, <1>3, MaintainerOk

(* The outcomes an entry point can report. *)
LEMMA CheckType ==
    ASSUME NEW p, NEW caller, NEW user, NEW pr, NEW points, NEW amount, NEW repo
    PROVE  /\ CreateProgramCheck(repo, amount) \in ContractError \cup {Ok}
           /\ FundCheck(p, caller, amount) \in ContractError \cup {Ok, HostError}
           /\ RegisterCheck(p, caller, user) \in ContractError \cup {Ok}
           /\ RecordMergeCheck(caller, p, user, pr, points)
                 \in ContractError \cup {Ok, HostError}
           /\ MaintainerCheck(p, caller) \in ContractError \cup {Ok}
           /\ WithdrawCheck(p, caller) \in ContractError \cup {Ok, HostError}
<1>1. MaintainerCheck(p, caller) \in ContractError \cup {Ok}
  BY DEF MaintainerCheck, ContractError
<1>2. CreateProgramCheck(repo, amount) \in ContractError \cup {Ok}
  BY DEF CreateProgramCheck, ContractError
<1>3. FundCheck(p, caller, amount) \in ContractError \cup {Ok, HostError}
  BY <1>1 DEF FundCheck, ContractError
<1>4. RegisterCheck(p, caller, user) \in ContractError \cup {Ok}
  BY <1>1 DEF RegisterCheck, ContractError
<1>5. RecordMergeCheck(caller, p, user, pr, points)
        \in ContractError \cup {Ok, HostError}
  <2>1. require_active(p) \in ContractError \cup {Ok}
    BY DEF require_active, ContractError
  <2>2. MilestoneCheck(p, Payout(p, points)) \in ContractError \cup {Ok}
    BY DEF MilestoneCheck, ContractError
  <2> QED BY <2>1, <2>2 DEF RecordMergeCheck, ContractError
<1>6. WithdrawCheck(p, caller) \in ContractError \cup {Ok, HostError}
  <2>1. PausedCheck(p, caller) \in ContractError \cup {Ok}
    BY <1>1 DEF PausedCheck, ContractError
  <2> QED BY <2>1 DEF WithdrawCheck, ContractError
<1> QED BY <1>1, <1>2, <1>3, <1>4, <1>5, <1>6

(* A rejected call leaves a well-typed state well typed. *)
LEMMA RejectType ==
    ASSUME TypeOK, NEW error \in ContractError \cup {Ok, HostError}, Reject(error)
    PROVE  TypeOK'
BY DEF TypeOK, Reject, storage

(* So does storing a well-typed program, when the rest stays in range. *)
LEMMA ProgramStoredType ==
    ASSUME TypeOK, NEW p \in ProgramId, NEW program \in Program,
           write_program(p, program),
           UNCHANGED <<instance, contributors>>,
           counter' \in 0..MaxPrograms,
           processed' \subseteq ProgramId \X PrNumber,
           balances' \in [Address -> 0..MaxI128],
           events' \in [ProgramId -> Totals],
           result' = Ok
    PROVE  TypeOK'
<1>1. programs' = Stored(programs, p, program)
  BY DEF write_program
<1>2. DOMAIN programs' \subseteq ProgramId
  BY <1>1 DEF TypeOK, Stored
<1>3. programs' \in [DOMAIN programs' -> Program]
  BY <1>1 DEF TypeOK, Stored
<1> QED BY <1>2, <1>3 DEF TypeOK

(* The program records the entry points store. *)
LEMMA DebitedType ==
    ASSUME TypeOK, NEW p \in DOMAIN programs, NEW payout \in Nat,
           ~(programs[p].escrow_balance < payout), MilestoneCheck(p, payout) = Ok
    PROVE  Debited(p, payout) \in Program
<1>1. programs[p] \in Program
  BY DEF TypeOK
<1>2. programs[p].escrow_balance - payout \in 0..MaxI128
  BY <1>1, EscrowAssumption DEF Program
<1>3. CASE programs[p].milestone_cap = NoCap
  <2>1. Debited(p, payout) = [programs[p] EXCEPT !.escrow_balance = @ - payout]
    BY <1>1, <1>3 DEF Debited, Program
  <2> QED BY <1>1, <1>2, <2>1 DEF Program
<1>4. CASE programs[p].milestone_cap # NoCap
  <2>1. programs[p].milestone_spent + payout \in 0..MaxI128
    BY <1>1, <1>4, EscrowAssumption DEF MilestoneCheck, Ok, Program
  <2> QED BY <1>1, <1>2, <1>4, <2>1 DEF Debited, Program
<1> QED BY <1>3, <1>4

LEMMA PayoutType ==
    ASSUME TypeOK, NEW p \in DOMAIN programs, NEW points \in Points, points # 0
    PROVE  Payout(p, points) \in Nat \ {0}
<1>1. points \in Nat \ {0} /\ programs[p].reward_per_point \in Nat \ {0}
  BY EscrowAssumption DEF TypeOK, Program
<1>2. \A m, n \in Nat \ {0} : m * n \in Nat \ {0}
  OBVIOUS
<1> QED BY <1>1, <1>2 DEF Payout

(* Every step of the contract, whoever calls what, keeps the types. *)
LEMMA TypeStep == TypeOK /\ [Next]_vars => TypeOK'
<1> SUFFICES ASSUME TypeOK, [Next]_vars PROVE TypeOK'
  OBVIOUS
<1>1. ASSUME NEW admin \in Admins, NEW gateway \in Gateways, initialize(admin, gateway)
      PROVE  TypeOK'
  <2>1. CASE Reject("AlreadyInitialized")
    BY <2>1, RejectType DEF ContractError
  <2>2. CASE /\ instance' = [admin |-> admin, gateway |-> gateway, token |-> Token]
             /\ counter' = 0 /\ result' = Ok
             /\ UNCHANGED <<programs, contributors, processed, balances, events>>
    BY <2>2, EscrowAssumption DEF TypeOK
  <2> QED BY <1>1, <2>1, <2>2 DEF initialize
<1>2. ASSUME NEW m \in Signer, NEW repo \in Repo, NEW reward \in Amount,
             NEW cap \in Cap \cup {NoCap}, create_program(m, repo, reward, cap)
      PROVE  TypeOK'
  <2>1. CASE Reject(CreateProgramCheck(repo, reward))
    BY <2>1, RejectType, CheckType
  <2>2. CASE ~Reject(CreateProgramCheck(repo, reward))
    <3> DEFINE fresh == [maintainer |-> m, github_repo |-> repo,
                         reward_per_point |-> reward, escrow_balance |-> 0,
                         milestone_cap |-> cap, milestone_spent |-> 0,
                         status |-> "Active"]
    <3>1. /\ CreateProgramCheck(repo, reward) = Ok
          /\ counter < MaxPrograms /\ counter' = counter + 1
          /\ write_program(counter', fresh)
          /\ result' = Ok
          /\ UNCHANGED <<instance, contributors, processed, balances, events>>
      BY <1>2, <2>2 DEF create_program, next_program_id
    <3>2. reward > 0 /\ repo \in ValidRepo
      BY <3>1, EscrowAssumption DEF CreateProgramCheck, Ok
    <3>3. fresh \in Program
      BY <3>2, EscrowAssumption DEF Program
    <3>4. counter' \in ProgramId /\ counter' \in 0..MaxPrograms
      BY <3>1, EscrowAssumption DEF TypeOK, ProgramId
    <3> HIDE DEF fresh
    <3> QED BY <3>1, <3>3, <3>4, ProgramStoredType DEF TypeOK
  <2> QED BY <2>1, <2>2
<1>3. ASSUME NEW p \in AnyId, NEW caller \in Signer, NEW amount \in Amount,
             fund(p, caller, amount)
      PROVE  TypeOK'
  <2>1. CASE Reject(FundCheck(p, caller, amount))
    BY <2>1, RejectType, CheckType
  <2>2. CASE ~Reject(FundCheck(p, caller, amount))
    <3> DEFINE program == [programs[p] EXCEPT !.escrow_balance = @ + amount]
    <3>1. /\ FundCheck(p, caller, amount) = Ok
          /\ events[p].funded + amount <= MaxFunded
          /\ balances' = Transferred(caller, Contract, amount)
          /\ write_program(p, program)
          /\ events' = [events EXCEPT ![p].funded = @ + amount]
          /\ result' = Ok
          /\ UNCHANGED <<instance, counter, contributors, processed>>
      BY <1>3, <2>2 DEF fund
    <3>2. /\ p \in DOMAIN programs /\ p \in ProgramId /\ amount \in Nat
          /\ CanTransfer(caller, Contract, amount)
          /\ programs[p].escrow_balance + amount <= MaxI128
      BY <3>1, FundOk, EscrowAssumption DEF TypeOK, Program
    <3>3. programs[p] \in Program
      BY <3>2 DEF TypeOK
    <3>4. program \in Program
      BY <3>2, <3>3, EscrowAssumption DEF Program
    <3>5. balances' \in [Address -> 0..MaxI128]
      BY <3>1, <3>2, TransferType, EscrowAssumption DEF TypeOK, Signer
    <3>6. events' \in [ProgramId -> Totals]
      BY <3>1, <3>2, EscrowAssumption DEF TypeOK, Totals
    <3> HIDE DEF program
    <3> QED BY <3>1, <3>2, <3>4, <3>5, <3>6, ProgramStoredType DEF TypeOK
  <2> QED BY <2>1, <2>2
<1>4. ASSUME NEW p \in AnyId, NEW caller \in Signer, NEW user \in Username,
             NEW payee \in Payees, register_contributor(p, caller, user, payee)
      PROVE  TypeOK'
  <2>1. CASE Reject(RegisterCheck(p, caller, user))
    BY <2>1, RejectType, CheckType
  <2>2. CASE ~Reject(RegisterCheck(p, caller, user))
    <3>1. /\ RegisterCheck(p, caller, user) = Ok
          /\ contributors' = Stored(contributors, <<p, user>>, payee)
          /\ result' = Ok
          /\ UNCHANGED <<instance, counter, programs, processed, balances, events>>
      BY <1>4, <2>2 DEF register_contributor, write_contributor
    <3>2. p \in ProgramId
      BY <3>1, RegisterOk DEF TypeOK
    <3>3. /\ DOMAIN contributors' \subseteq ProgramId \X Username
          /\ contributors' \in [DOMAIN contributors' -> Payees]
      BY <3>1, <3>2 DEF TypeOK, Stored
    <3> QED BY <3>1, <3>3 DEF TypeOK
  <2> QED BY <2>1, <2>2
<1>5. ASSUME NEW p \in AnyId, NEW caller \in Signer, NEW user \in Username,
             NEW pr \in PrNumber, NEW points \in Points,
             record_merge(caller, p, user, pr, points)
      PROVE  TypeOK'
  <2> DEFINE check == RecordMergeCheck(caller, p, user, pr, points)
             payout == Payout(p, points)
             payee == contributors[<<p, user>>]
  <2>1. CASE Reject(check)
    BY <2>1, RejectType, CheckType
  <2>2. CASE ~Reject(check)
    <3>1. /\ check = Ok
          /\ balances' = Transferred(Contract, payee, payout)
          /\ write_program(p, Debited(p, payout))
          /\ processed' = processed \cup {<<p, pr>>}
          /\ events' = [events EXCEPT ![p].paid = @ + payout, ![p].merges = @ + 1]
          /\ result' = Ok
          /\ UNCHANGED <<instance, counter, contributors>>
      BY <1>5, <2>2 DEF record_merge, mark_pr_processed
    <3>2. /\ p \in DOMAIN programs /\ points # 0
          /\ <<p, user>> \in DOMAIN contributors
          /\ ~(programs[p].escrow_balance < payout)
          /\ MilestoneCheck(p, payout) = Ok
          /\ CanTransfer(Contract, payee, payout)
      BY <3>1, RecordMergeOk
    <3>3. payout \in Nat
      BY <3>2, PayoutType
    <3>4. p \in ProgramId /\ payee \in Address /\ Contract \in Address
      BY <3>2, EscrowAssumption DEF TypeOK
    <3> HIDE DEF payout, payee, check
    <3>5. Debited(p, payout) \in Program
      BY <3>2, <3>3, DebitedType
    <3>6. balances' \in [Address -> 0..MaxI128]
      BY <3>1, <3>2, <3>3, <3>4, TransferType DEF TypeOK
    <3>7. events' \in [ProgramId -> Totals]
      BY <3>1, <3>3, <3>4 DEF TypeOK, Totals
    <3>8. processed' \subseteq ProgramId \X PrNumber
      BY <3>1, <3>4 DEF TypeOK
    <3> QED BY <3>1, <3>4, <3>5, <3>6, <3>7, <3>8, ProgramStoredType DEF TypeOK
  <2> QED BY <2>1, <2>2
<1>6. ASSUME NEW p \in AnyId, NEW caller \in Signer,
             NEW status \in {"Active", "Paused"}, SetStatus(p, caller, status)
      PROVE  TypeOK'
  <2>1. CASE Reject(MaintainerCheck(p, caller))
    BY <2>1, RejectType, CheckType
  <2>2. CASE ~Reject(MaintainerCheck(p, caller))
    <3> DEFINE program == [programs[p] EXCEPT !.status = status]
    <3>1. /\ MaintainerCheck(p, caller) = Ok
          /\ write_program(p, program) /\ result' = Ok
          /\ UNCHANGED <<instance, counter, contributors, processed, balances, events>>
      BY <1>6, <2>2 DEF SetStatus
    <3>2. p \in ProgramId /\ programs[p] \in Program
      BY <3>1, MaintainerOk DEF TypeOK
    <3>3. program \in Program
      BY <3>2 DEF Program
    <3> HIDE DEF program
    <3> QED BY <3>1, <3>2, <3>3, ProgramStoredType DEF TypeOK
  <2> QED BY <2>1, <2>2
<1>7. ASSUME NEW p \in AnyId, NEW caller \in Signer, NEW reward \in Amount,
             set_ratio(p, caller, reward)
      PROVE  TypeOK'
  <2> DEFINE check == IF reward <= 0 THEN "InvalidRatio" ELSE MaintainerCheck(p, caller)
  <2>1. CASE Reject(check)
    <3>1. check \in ContractError \cup {Ok}
      BY CheckType DEF ContractError
    <3> QED BY <2>1, <3>1, RejectType
  <2>2. CASE ~Reject(check)
    <3> DEFINE program == [programs[p] EXCEPT !.reward_per_point = reward]
    <3>1. /\ check = Ok
          /\ write_program(p, program) /\ result' = Ok
          /\ UNCHANGED <<instance, counter, contributors, processed, balances, events>>
      BY <1>7, <2>2 DEF set_ratio
    <3>2. ~(reward <= 0) /\ MaintainerCheck(p, caller) = Ok
      BY <3>1 DEF Ok
    <3>3. p \in ProgramId /\ programs[p] \in Program
      BY <3>2, MaintainerOk DEF TypeOK
    <3>4. program \in Program
      BY <3>2, <3>3, EscrowAssumption DEF Program
    <3> HIDE DEF program
    <3> QED BY <3>1, <3>3, <3>4, ProgramStoredType DEF TypeOK
  <2> QED BY <2>1, <2>2
<1>8. ASSUME NEW p \in AnyId, NEW caller \in Signer, withdraw_remaining(p, caller)
      PROVE  TypeOK'
  <2>1. CASE Reject(WithdrawCheck(p, caller))
    BY <2>1, RejectType, CheckType
  <2>2. CASE ~Reject(WithdrawCheck(p, caller))
    <3> DEFINE amount == programs[p].escrow_balance
    <3>1. /\ WithdrawCheck(p, caller) = Ok
          /\ balances' = Transferred(Contract, caller, amount)
          /\ write_program(p, Drained(p)) /\ result' = Ok
          /\ UNCHANGED <<instance, counter, contributors, processed, events>>
      BY <1>8, <2>2 DEF withdraw_remaining
    <3>2. /\ p \in DOMAIN programs
          /\ amount = 0 \/ CanTransfer(Contract, caller, amount)
      BY <3>1, WithdrawOk
    <3>3. p \in ProgramId /\ programs[p] \in Program /\ amount \in Nat
      BY <3>2, EscrowAssumption DEF TypeOK, Program
    <3>4. Drained(p) \in Program
      BY <3>3, EscrowAssumption DEF Drained, Program
    <3> HIDE DEF amount
    <3>5. balances' \in [Address -> 0..MaxI128]
      BY <3>1, <3>2, <3>3, TransferType, EscrowAssumption DEF TypeOK, Signer
    <3> QED BY <3>1, <3>3, <3>4, <3>5, ProgramStoredType DEF TypeOK
  <2> QED BY <2>1, <2>2
<1>9. ASSUME NEW from \in Signer, NEW to \in Address, NEW amount \in Amount,
             token_transfer(from, to, amount)
      PROVE  TypeOK'
  <2>1. /\ amount \in Nat /\ CanTransfer(from, to, amount)
        /\ balances' = Transferred(from, to, amount)
        /\ UNCHANGED <<storage, events, result>>
    BY <1>9, EscrowAssumption DEF token_transfer
  <2>2. balances' \in [Address -> 0..MaxI128]
    BY <2>1, TransferType DEF TypeOK, Signer
  <2> QED BY <2>1, <2>2 DEF TypeOK, storage
<1>10. CASE UNCHANGED vars
  BY <1>10 DEF TypeOK, vars, storage
<1> QED BY <1>1, <1>2, <1>3, <1>4, <1>5, <1>6, <1>7, <1>8, <1>9, <1>10
        DEF Next, pause, resume

(* Storage, the token ledger and the outcomes stay within their types:     *)
(* balances never go negative and nothing overflows an i128, whatever the  *)
(* sequence of calls and whether or not initialize came first.             *)
THEOREM TypeCorrect == (Spec => []TypeOK) /\ (DeployedSpec => []TypeOK)
<1>1. Spec => []TypeOK
  BY InitType, TypeStep, PTL DEF Spec
<1>2. DeployedSpec => []TypeOK
  BY InitType, TypeStep, PTL DEF DeployedSpec
<1> QED BY <1>1, <1>2

-----------------------------------------------------------------------------
(* What one step does to the storage and the ledger, whichever entry point *)
(* it is: the case split of every proof below.                             *)

Quiet ==
    /\ \/ UNCHANGED <<instance, counter>>
       \/ instance.admin = Absent /\ instance'.admin \in Admins
    /\ UNCHANGED <<programs, contributors, processed, balances, events>>

Creates(p, program) ==
    /\ p \in ProgramId /\ p = counter + 1 /\ counter' = p
    /\ program \in Program
    /\ program.escrow_balance = 0 /\ program.milestone_spent = 0
    /\ program.status = "Active"
    /\ programs' = Stored(programs, p, program)
    /\ UNCHANGED <<instance, contributors, processed, balances, events>>

Funds(p, amount) ==
    /\ p \in DOMAIN programs /\ amount \in Nat \ {0}
    /\ CanTransfer(programs[p].maintainer, Contract, amount)
    /\ balances' = Transferred(programs[p].maintainer, Contract, amount)
    /\ programs' = Stored(programs, p, [programs[p] EXCEPT !.escrow_balance = @ + amount])
    /\ events' = [events EXCEPT ![p].funded = @ + amount]
    /\ UNCHANGED <<instance, counter, contributors, processed>>

Registers(p, user, payee) ==
    /\ <<p, user>> \notin DOMAIN contributors
    /\ contributors' = Stored(contributors, <<p, user>>, payee)
    /\ UNCHANGED <<instance, counter, programs, processed, balances, events>>

Pays(p, user, pr, payout) ==
    /\ p \in DOMAIN programs /\ payout \in Nat \ {0}
    /\ pr \in PrNumber /\ <<p, pr>> \notin processed
    /\ user \in Username /\ <<p, user>> \in DOMAIN contributors
    /\ programs[p].status = "Active"
    /\ payout <= programs[p].escrow_balance
    /\ programs[p].milestone_cap # NoCap =>
          programs[p].milestone_spent + payout <= programs[p].milestone_cap
    /\ CanTransfer(Contract, contributors[<<p, user>>], payout)
    /\ balances' = Transferred(Contract, contributors[<<p, user>>], payout)
    /\ programs' = Stored(programs, p, Debited(p, payout))
    /\ processed' = processed \cup {<<p, pr>>}
    /\ events' = [events EXCEPT ![p].paid = @ + payout, ![p].merges = @ + 1]
    /\ UNCHANGED <<instance, counter, contributors>>

Adjusts(p, status, reward) ==
    /\ p \in DOMAIN programs
    /\ status \in {"Active", "Paused"}
    /\ programs' = Stored(programs, p,
          [programs[p] EXCEPT !.status = status, !.reward_per_point = reward])
    /\ UNCHANGED <<instance, counter, contributors, processed, balances, events>>

Refunds(p) ==
    /\ p \in DOMAIN programs /\ programs[p].status = "Paused"
    /\ \/ programs[p].escrow_balance = 0
       \/ CanTransfer(Contract, programs[p].maintainer, programs[p].escrow_balance)
    /\ balances' = Transferred(Contract, programs[p].maintainer, programs[p].escrow_balance)
    /\ programs' = Stored(programs, p, Drained(p))
    /\ UNCHANGED <<instance, counter, contributors, processed, events>>

Moves(from, to, amount) ==
    /\ amount \in Nat \ {0} /\ from # to /\ CanTransfer(from, to, amount)
    /\ balances' = Transferred(from, to, amount)
    /\ UNCHANGED <<storage, events>>

Effect ==
    \/ Quiet
    \/ \E p, program : Creates(p, program)
    \/ \E p \in ProgramId, amount \in Nat : Funds(p, amount)
    \/ \E p \in ProgramId : \E user, payee : Registers(p, user, payee)
    \/ \E p \in ProgramId : \E user, pr, payout : Pays(p, user, pr, payout)
    \/ \E p \in ProgramId : \E status, reward : Adjusts(p, status, reward)
    \/ \E p \in ProgramId : Refunds(p)
    \/ \E from \in Signer, to \in Address, amount \in Nat : Moves(from, to, amount)

LEMMA StepEffect == TypeOK /\ [Next]_vars => Effect
<1> SUFFICES ASSUME TypeOK, [Next]_vars PROVE Effect
  OBVIOUS
<1> USE DEF Effect
<1>0. ASSUME NEW error, Reject(error) PROVE Quiet
  BY <1>0 DEF Reject, Quiet, storage
<1>1. ASSUME NEW admin \in Admins, NEW gateway \in Gateways, initialize(admin, gateway)
      PROVE  Quiet
  BY <1>0, <1>1 DEF initialize, Quiet
<1>2. ASSUME NEW m \in Signer, NEW repo \in Repo, NEW reward \in Amount,
             NEW cap \in Cap \cup {NoCap}, create_program(m, repo, reward, cap)
      PROVE  Effect
  <2>1. CASE Reject(CreateProgramCheck(repo, reward))
    BY <2>1, <1>0
  <2>2. CASE ~Reject(CreateProgramCheck(repo, reward))
    <3> DEFINE fresh == [maintainer |-> m, github_repo |-> repo,
                         reward_per_point |-> reward, escrow_balance |-> 0,
                         milestone_cap |-> cap, milestone_spent |-> 0,
                         status |-> "Active"]
    <3>1. /\ CreateProgramCheck(repo, reward) = Ok
          /\ counter < MaxPrograms /\ counter' = counter + 1
          /\ programs' = Stored(programs, counter', fresh)
          /\ UNCHANGED <<instance, contributors, processed, balances, events>>
      BY <1>2, <2>2 DEF create_program, next_program_id, write_program
    <3>2. reward > 0 /\ repo \in ValidRepo
      BY <3>1, EscrowAssumption DEF CreateProgramCheck, Ok
    <3>3. fresh \in Program
      BY <3>2, EscrowAssumption DEF Program
    <3>4. counter' \in ProgramId
      BY <3>1, EscrowAssumption DEF TypeOK, ProgramId
    <3>5. Creates(counter', fresh)
      BY <3>1, <3>3, <3>4 DEF Creates
    <3> HIDE DEF fresh
    <3> QED BY <3>5
  <2> QED BY <2>1, <2>2
<1>3. ASSUME NEW p \in AnyId, NEW caller \in Signer, NEW amount \in Amount,
             fund(p, caller, amount)
      PROVE  Effect
  <2>1. CASE Reject(FundCheck(p, caller, amount))
    BY <2>1, <1>0
  <2>2. CASE ~Reject(FundCheck(p, caller, amount))
    <3>1. FundCheck(p, caller, amount) = Ok
      BY <1>3, <2>2 DEF fund
    <3>2. p \in ProgramId /\ amount \in Nat \ {0}
      BY <3>1, FundOk, EscrowAssumption DEF TypeOK
    <3>3. Funds(p, amount)
      BY <1>3, <2>2, <3>1, <3>2, FundOk DEF fund, Funds, write_program
    <3> QED BY <3>2, <3>3
  <2> QED BY <2>1, <2>2
<1>4. ASSUME NEW p \in AnyId, NEW caller \in Signer, NEW user \in Username,
             NEW payee \in Payees, register_contributor(p, caller, user, payee)
      PROVE  Effect
  <2>1. CASE Reject(RegisterCheck(p, caller, user))
    BY <2>1, <1>0
  <2>2. CASE ~Reject(RegisterCheck(p, caller, user))
    <3>1. p \in ProgramId /\ Registers(p, user, payee)
      BY <1>4, <2>2, RegisterOk DEF register_contributor, write_contributor, Registers, TypeOK
    <3> QED BY <3>1
  <2> QED BY <2>1, <2>2
<1>5. ASSUME NEW p \in AnyId, NEW caller \in Signer, NEW user \in Username,
             NEW pr \in PrNumber, NEW points \in Points,
             record_merge(caller, p, user, pr, points)
      PROVE  Effect
  <2> DEFINE check == RecordMergeCheck(caller, p, user, pr, points)
             payout == Payout(p, points)
             payee == contributors[<<p, user>>]
  <2>1. CASE Reject(check)
    BY <2>1, <1>0
  <2>2. CASE ~Reject(check)
    <3>1. /\ check = Ok
          /\ balances' = Transferred(Contract, payee, payout)
          /\ programs' = Stored(programs, p, Debited(p, payout))
          /\ processed' = processed \cup {<<p, pr>>}
          /\ events' = [events EXCEPT ![p].paid = @ + payout, ![p].merges = @ + 1]
          /\ UNCHANGED <<instance, counter, contributors>>
      BY <1>5, <2>2 DEF record_merge, mark_pr_processed, write_program
    <3>2. /\ p \in DOMAIN programs /\ points # 0
          /\ <<p, pr>> \notin processed
          /\ programs[p].status # "Paused"
          /\ <<p, user>> \in DOMAIN contributors
          /\ ~(programs[p].escrow_balance < payout)
          /\ MilestoneCheck(p, payout) = Ok
          /\ CanTransfer(Contract, payee, payout)
      BY <3>1, RecordMergeOk
    <3>3. payout \in Nat \ {0}
      BY <3>2, PayoutType
    <3>4. p \in ProgramId /\ programs[p] \in Program
      BY <3>2 DEF TypeOK
    <3> HIDE DEF payout, check
    <3>5. payout <= programs[p].escrow_balance /\ programs[p].status = "Active"
      BY <3>2, <3>3, <3>4 DEF Program
    <3>6. ASSUME programs[p].milestone_cap # NoCap
          PROVE  programs[p].milestone_spent + payout <= programs[p].milestone_cap
      <4>1. programs[p].milestone_cap \in Int /\ programs[p].milestone_spent \in Int
        <5>1. /\ programs[p].milestone_cap \in Cap \cup {NoCap}
              /\ programs[p].milestone_spent \in 0..MaxI128
          BY <3>4 DEF Program
        <5>2. Cap \subseteq Int /\ 0..MaxI128 \subseteq Int
          BY EscrowAssumption
        <5>3. programs[p].milestone_cap \in Cap
          BY <3>6, <5>1
        <5> QED BY <5>1, <5>2, <5>3
      <4>2. ~(programs[p].milestone_spent + payout > programs[p].milestone_cap)
        BY <3>2, <3>6 DEF MilestoneCheck, ExceedsCap, Ok
      <4> QED BY <3>3, <4>1, <4>2
    <3>7. Pays(p, user, pr, payout)
      BY <3>1, <3>2, <3>3, <3>5, <3>6 DEF Pays
    <3> QED BY <3>4, <3>7
  <2> QED BY <2>1, <2>2
<1>6. ASSUME NEW p \in AnyId, NEW caller \in Signer,
             NEW status \in {"Active", "Paused"}, SetStatus(p, caller, status)
      PROVE  Effect
  <2>1. CASE Reject(MaintainerCheck(p, caller))
    BY <2>1, <1>0
  <2>2. CASE ~Reject(MaintainerCheck(p, caller))
    <3>1. p \in DOMAIN programs /\ p \in ProgramId /\ programs[p] \in Program
      BY <1>6, <2>2, MaintainerOk DEF SetStatus, TypeOK
    <3>2. [programs[p] EXCEPT !.status = status]
          = [programs[p] EXCEPT !.status = status,
                                !.reward_per_point = programs[p].reward_per_point]
      BY <3>1 DEF Program
    <3>3. Adjusts(p, status, programs[p].reward_per_point)
      BY <1>6, <2>2, <3>1, <3>2 DEF SetStatus, Adjusts, write_program
    <3> QED BY <3>1, <3>3
  <2> QED BY <2>1, <2>2
<1>7. ASSUME NEW p \in AnyId, NEW caller \in Signer, NEW reward \in Amount,
             set_ratio(p, caller, reward)
      PROVE  Effect
  <2> DEFINE check == IF reward <= 0 THEN "InvalidRatio" ELSE MaintainerCheck(p, caller)
  <2>1. CASE Reject(check)
    BY <2>1, <1>0
  <2>2. CASE ~Reject(check)
    <3>1. check = Ok
      BY <1>7, <2>2 DEF set_ratio
    <3>2. MaintainerCheck(p, caller) = Ok
      BY <3>1 DEF Ok
    <3>3. p \in DOMAIN programs /\ p \in ProgramId /\ programs[p] \in Program
      BY <3>2, MaintainerOk DEF TypeOK
    <3>4. [programs[p] EXCEPT !.reward_per_point = reward]
          = [programs[p] EXCEPT !.status = programs[p].status,
                                !.reward_per_point = reward]
      BY <3>3 DEF Program
    <3>5. programs[p].status \in {"Active", "Paused"}
      BY <3>3 DEF Program
    <3>6. Adjusts(p, programs[p].status, reward)
      BY <1>7, <2>2, <3>3, <3>4, <3>5 DEF set_ratio, Adjusts, write_program
    <3> QED BY <3>3, <3>6
  <2> QED BY <2>1, <2>2
<1>8. ASSUME NEW p \in AnyId, NEW caller \in Signer, withdraw_remaining(p, caller)
      PROVE  Effect
  <2>1. CASE Reject(WithdrawCheck(p, caller))
    BY <2>1, <1>0
  <2>2. CASE ~Reject(WithdrawCheck(p, caller))
    <3>1. WithdrawCheck(p, caller) = Ok
      BY <1>8, <2>2 DEF withdraw_remaining
    <3>2. p \in ProgramId /\ Refunds(p)
      BY <1>8, <2>2, <3>1, WithdrawOk DEF withdraw_remaining, Refunds, write_program, TypeOK
    <3> QED BY <3>2
  <2> QED BY <2>1, <2>2
<1>9. ASSUME NEW from \in Signer, NEW to \in Address, NEW amount \in Amount,
             token_transfer(from, to, amount)
      PROVE  Effect
  <2>1. amount \in Nat /\ Moves(from, to, amount)
    BY <1>9, EscrowAssumption DEF token_transfer, Moves
  <2> QED BY <2>1
<1>10. CASE UNCHANGED vars
  BY <1>10 DEF vars, storage, Quiet
<1> HIDE DEF Effect
<1>11. ASSUME Quiet PROVE Effect
  BY <1>11 DEF Effect
<1> QED BY <1>1, <1>2, <1>3, <1>4, <1>5, <1>6, <1>7, <1>8, <1>9, <1>10, <1>11
        DEF Next, pause, resume

-----------------------------------------------------------------------------
(* At most one payout per pull request. *)

LEMMA OnePayoutStep == TypeOK /\ OnePayoutPerPr /\ [Next]_vars => OnePayoutPerPr'
<1> SUFFICES ASSUME TypeOK, OnePayoutPerPr, Effect PROVE OnePayoutPerPr'
  BY StepEffect
<1>1. ASSUME UNCHANGED processed,
             \A p \in ProgramId : events'[p].merges = events[p].merges
      PROVE  OnePayoutPerPr'
  BY <1>1 DEF OnePayoutPerPr, MergesRecorded
<1>2. ASSUME NEW p \in ProgramId, NEW user, NEW pr, NEW payout, Pays(p, user, pr, payout)
      PROVE  OnePayoutPerPr'
  <2> SUFFICES ASSUME NEW q \in ProgramId
               PROVE  events'[q].merges = Cardinality(MergesRecorded(q)')
    BY DEF OnePayoutPerPr
  <2>1. /\ events' = [events EXCEPT ![p].paid = @ + payout, ![p].merges = @ + 1]
        /\ processed' = processed \cup {<<p, pr>>}
        /\ <<p, pr>> \notin processed /\ pr \in PrNumber
    BY <1>2 DEF Pays
  <2>2. events[q].merges = Cardinality(MergesRecorded(q))
    BY DEF OnePayoutPerPr
  <2>3. CASE q # p
    <3>1. MergesRecorded(q)' = MergesRecorded(q)
      BY <2>1, <2>3 DEF MergesRecorded
    <3>2. events'[q].merges = events[q].merges
      BY <2>1, <2>3 DEF TypeOK, Totals
    <3> QED BY <2>2, <3>1, <3>2
  <2>4. CASE q = p
    <3>1. MergesRecorded(p)' = MergesRecorded(p) \cup {pr}
      BY <2>1 DEF MergesRecorded
    <3>2. pr \notin MergesRecorded(p) /\ IsFiniteSet(MergesRecorded(p))
      BY <2>1, EscrowAssumption, FS_Subset DEF MergesRecorded
    <3>3. Cardinality(MergesRecorded(p)') = Cardinality(MergesRecorded(p)) + 1
      BY <3>1, <3>2, FS_AddElement
    <3>4. events'[p].merges = events[p].merges + 1
      BY <2>1 DEF TypeOK, Totals
    <3> QED BY <2>2, <2>4, <3>3, <3>4
  <2> QED BY <2>3, <2>4
<1>3. CASE \E p \in ProgramId, amount \in Nat : Funds(p, amount)
  <2> PICK p \in ProgramId, amount \in Nat : Funds(p, amount)
    BY <1>3
  <2>1. \A q \in ProgramId : events'[q].merges = events[q].merges
    BY DEF Funds, TypeOK, Totals
  <2> QED BY <1>1, <2>1 DEF Funds
<1> QED BY <1>1, <1>2, <1>3
        DEF Effect, Quiet, Creates, Registers, Adjusts, Refunds, Moves, storage

(* A program has published exactly as many payouts as it has processed     *)
(* pull requests: record_merge never pays for one twice, even when an id   *)
(* was reused.                                                             *)
THEOREM PaysOnce == (Spec => []OnePayoutPerPr) /\ (DeployedSpec => []OnePayoutPerPr)
<1>1. Init \/ InitDeployed => OnePayoutPerPr
  <2> SUFFICES ASSUME FreshStorage PROVE OnePayoutPerPr
    BY DEF Init, InitDeployed
  <2>1. \A p \in ProgramId : MergesRecorded(p) = {}
    BY DEF FreshStorage, MergesRecorded
  <2> QED BY <2>1, FS_EmptySet DEF FreshStorage, OnePayoutPerPr
<1>2. Spec => []OnePayoutPerPr
  BY <1>1, OnePayoutStep, TypeCorrect, PTL DEF Spec
<1>3. DeployedSpec => []OnePayoutPerPr
  BY <1>1, OnePayoutStep, TypeCorrect, PTL DEF DeployedSpec
<1> QED BY <1>2, <1>3

-----------------------------------------------------------------------------
(* Solvency. *)

LEMMA ProgramIdsFinite == IsFiniteSet(ProgramId)
BY FS_Interval, EscrowAssumption DEF ProgramId

LEMMA EscrowsType == TypeOK => Escrows \in [ProgramId -> Nat]
BY EscrowAssumption DEF TypeOK, Escrows, EscrowOf, Program, ProgramId

LEMMA LiabilitiesAre == Liabilities = SumFunctionOnSet(Escrows, ProgramId)
BY DEF Liabilities, SumFunction, Escrows

(* Storing one program moves the liabilities by the change of its escrow.  *)
LEMMA LiabilitiesAfterStore ==
    ASSUME TypeOK, NEW p \in ProgramId, NEW program \in Program,
           programs' = Stored(programs, p, program)
    PROVE  Liabilities' = Liabilities - EscrowOf(p) + program.escrow_balance
<1> DEFINE v == Escrows
           w == Escrows'
<1>1. EscrowOf(p)' = program.escrow_balance
  BY DEF EscrowOf, Stored
<1>2. \A q \in ProgramId \ {p} : EscrowOf(q)' = EscrowOf(q)
  BY DEF EscrowOf, Stored
<1>3. v \in [ProgramId -> Int]
  BY EscrowsType
<1>4. program.escrow_balance \in Int
  BY EscrowAssumption DEF Program
<1>5. /\ w[p] = program.escrow_balance /\ v[p] = EscrowOf(p)
      /\ \A q \in ProgramId \ {p} : w[q] = v[q]
      /\ \A q \in ProgramId : v[q] \in Int /\ w[q] \in Int
  BY <1>1, <1>2, <1>3, <1>4 DEF Escrows
<1>6. Liabilities = SumFunctionOnSet(v, ProgramId)
  BY LiabilitiesAre
<1>7. Liabilities' = SumFunctionOnSet(w, ProgramId)
  BY DEF Liabilities, SumFunction, Escrows
<1> HIDE DEF v, w
<1>8. SumFunctionOnSet(w, ProgramId) = SumFunctionOnSet(v, ProgramId) - v[p] + w[p]
  BY <1>5, ProgramIdsFinite, SumUpdated
<1> QED BY <1>5, <1>6, <1>7, <1>8

(* The program a step stored is well typed, because the state after it is. *)
LEMMA StoredValue ==
    ASSUME TypeOK', NEW p, NEW program, programs' = Stored(programs, p, program)
    PROVE  program \in Program
<1>1. p \in DOMAIN programs' /\ programs'[p] = program
  BY DEF Stored
<1>2. programs' \in [DOMAIN programs' -> Program]
  BY DEF TypeOK
<1> QED BY <1>1, <1>2

LEMMA LiabilitiesType == TypeOK => Liabilities \in Nat
<1> SUFFICES ASSUME TypeOK PROVE Liabilities \in Nat
  OBVIOUS
<1>1. \A p \in ProgramId : Escrows[p] \in Nat
  BY EscrowsType
<1> QED BY <1>1, ProgramIdsFinite, SumNat, LiabilitiesAre

(* A contract without programs owes nothing. *)
LEMMA NothingOwed == programs = EmptyMap => Liabilities = 0
<1> SUFFICES ASSUME programs = EmptyMap PROVE Liabilities = 0
  OBVIOUS
<1>1. \A p \in ProgramId : Escrows[p] = 0
  BY DEF EmptyMap, Escrows, EscrowOf
<1> QED BY <1>1, ProgramIdsFinite, SumZero, LiabilitiesAre

LEMMA SolventStep == TypeOK /\ Solvent /\ [Next]_vars => Solvent'
<1> SUFFICES ASSUME TypeOK, TypeOK', Solvent, Effect PROVE Solvent'
  BY StepEffect, TypeStep
<1>1. /\ Liabilities \in Nat /\ balances[Contract] \in Nat
      /\ Liabilities <= balances[Contract]
      /\ Contract \in Address
  BY LiabilitiesType, EscrowAssumption DEF TypeOK, Solvent
<1>2. ASSUME UNCHANGED programs PROVE Liabilities' = Liabilities
  BY <1>2 DEF Liabilities, Escrows, EscrowOf
<1>3. ASSUME NEW p \in DOMAIN programs
      PROVE  /\ p \in ProgramId /\ programs[p] \in Program
             /\ EscrowOf(p) = programs[p].escrow_balance /\ EscrowOf(p) \in Nat
             /\ programs[p].maintainer \in Address \ {Contract}
  BY <1>3, EscrowAssumption DEF TypeOK, EscrowOf, Program, Signer
<1>4. CASE UNCHANGED <<programs, balances>>
  BY <1>1, <1>2, <1>4 DEF Solvent
<1>5. ASSUME NEW p, NEW program, Creates(p, program)
      PROVE  Solvent'
  <2>1. Liabilities' = Liabilities - EscrowOf(p)
    BY <1>1, <1>5, LiabilitiesAfterStore DEF Creates, EscrowOf, TypeOK, Program
  <2>2. EscrowOf(p) \in Nat
    BY <1>3 DEF EscrowOf
  <2> QED BY <1>1, <1>5, <2>1, <2>2 DEF Creates, Solvent
<1>6. ASSUME NEW p \in ProgramId, NEW amount \in Nat, Funds(p, amount)
      PROVE  Solvent'
  <2> DEFINE program == [programs[p] EXCEPT !.escrow_balance = @ + amount]
  <2>1. p \in DOMAIN programs /\ programs' = Stored(programs, p, program)
        /\ balances' = Transferred(programs[p].maintainer, Contract, amount)
    BY <1>6 DEF Funds
  <2>2. Liabilities' = Liabilities + amount
    <3>1. programs'[p] = program /\ program.escrow_balance = EscrowOf(p) + amount
      BY <1>3, <2>1 DEF Stored, Program
    <3>2. program \in Program
      BY <2>1, <3>1, StoredValue
    <3> HIDE DEF program
    <3>3. Liabilities' = Liabilities - EscrowOf(p) + program.escrow_balance
      BY <2>1, <3>2, LiabilitiesAfterStore
    <3> QED BY <1>1, <1>3, <2>1, <3>1, <3>3
  <2>3. balances'[Contract] = balances[Contract] + amount
    BY <1>1, <1>3, <2>1 DEF Transferred
  <2> QED BY <1>1, <2>2, <2>3 DEF Solvent
<1>7. ASSUME NEW p \in ProgramId, NEW user, NEW pr, NEW payout, Pays(p, user, pr, payout)
      PROVE  Solvent'
  <2> DEFINE payee == contributors[<<p, user>>]
  <2>1. /\ p \in DOMAIN programs /\ payout \in Nat
        /\ payout <= programs[p].escrow_balance
        /\ programs' = Stored(programs, p, Debited(p, payout))
        /\ balances' = Transferred(Contract, payee, payout)
    BY <1>7 DEF Pays
  <2>2. Liabilities' = Liabilities - payout
    <3>1. programs'[p] = Debited(p, payout)
          /\ Debited(p, payout).escrow_balance = EscrowOf(p) - payout
      BY <1>3, <2>1 DEF Stored, Debited, Program
    <3>2. Debited(p, payout) \in Program
      BY <2>1, <3>1, StoredValue
    <3>3. Liabilities' = Liabilities - EscrowOf(p) + Debited(p, payout).escrow_balance
      BY <2>1, <3>2, LiabilitiesAfterStore
    <3> QED BY <1>1, <1>3, <2>1, <3>1, <3>3
  <2>3. balances'[Contract] \in {balances[Contract], balances[Contract] - payout}
    BY <1>1, <2>1 DEF Transferred
  <2> QED BY <1>1, <2>1, <2>2, <2>3 DEF Solvent
<1>8. ASSUME NEW p \in ProgramId, NEW status, NEW reward, Adjusts(p, status, reward)
      PROVE  Solvent'
  <2> DEFINE program == [programs[p] EXCEPT !.status = status, !.reward_per_point = reward]
  <2>1. /\ p \in DOMAIN programs /\ programs' = Stored(programs, p, program)
        /\ UNCHANGED balances
    BY <1>8 DEF Adjusts
  <2>2. programs'[p] = program /\ program.escrow_balance = EscrowOf(p)
    BY <1>3, <2>1 DEF Stored, Program
  <2>3. program \in Program
    BY <2>1, <2>2, StoredValue
  <2> HIDE DEF program
  <2>4. Liabilities' = Liabilities - EscrowOf(p) + program.escrow_balance
    BY <2>1, <2>3, LiabilitiesAfterStore
  <2>5. Liabilities' = Liabilities
    BY <1>1, <1>3, <2>1, <2>2, <2>4
  <2> QED BY <1>1, <2>1, <2>5 DEF Solvent
<1>9. ASSUME NEW p \in ProgramId, Refunds(p)
      PROVE  Solvent'
  <2> DEFINE owner == programs[p].maintainer
             amount == programs[p].escrow_balance
  <2>1. /\ p \in DOMAIN programs /\ programs' = Stored(programs, p, Drained(p))
        /\ balances' = Transferred(Contract, owner, amount)
    BY <1>9 DEF Refunds
  <2>2. programs'[p] = Drained(p) /\ Drained(p).escrow_balance = 0
    BY <1>3, <2>1 DEF Stored, Drained, Program
  <2>3. Drained(p) \in Program
    BY <2>1, <2>2, StoredValue
  <2>4. Liabilities' = Liabilities - EscrowOf(p) + Drained(p).escrow_balance
    BY <2>1, <2>3, LiabilitiesAfterStore
  <2>5. Liabilities' = Liabilities - amount
    BY <1>1, <1>3, <2>1, <2>2, <2>4
  <2>6. balances'[Contract] = balances[Contract] - amount
    BY <1>1, <1>3, <2>1 DEF Transferred
  <2> QED BY <1>1, <1>3, <2>1, <2>5, <2>6 DEF Solvent
<1>10. ASSUME NEW from \in Signer, NEW to \in Address, NEW amount \in Nat,
              Moves(from, to, amount)
       PROVE  Solvent'
  <2>1. /\ balances' = Transferred(from, to, amount)
        /\ UNCHANGED programs
    BY <1>10 DEF Moves, storage
  <2>2. balances'[Contract] >= balances[Contract]
    BY <1>1, <2>1 DEF Transferred, Signer
  <2>3. balances'[Contract] \in Int
    BY <1>1, <2>1 DEF Transferred, Signer
  <2> QED BY <1>1, <1>2, <2>1, <2>2, <2>3 DEF Solvent
<1> QED BY <1>4, <1>5, <1>6, <1>7, <1>8, <1>9, <1>10 DEF Effect, Quiet, Registers

(* The contract can always pay out the escrow of every program: its token  *)
(* balance covers their sum, whatever was called in whatever order.        *)
THEOREM StaysSolvent == (Spec => []Solvent) /\ (DeployedSpec => []Solvent)
<1>1. Init \/ InitDeployed => Solvent
  <2> SUFFICES ASSUME FreshStorage, TypeOK PROVE Solvent
    BY InitType DEF Init, InitDeployed
  <2>1. Liabilities = 0
    BY NothingOwed DEF FreshStorage
  <2>2. balances[Contract] = 0
    BY EscrowAssumption DEF FreshStorage
  <2> QED BY <2>1, <2>2 DEF Solvent
<1>2. Spec => []Solvent
  BY <1>1, SolventStep, TypeCorrect, PTL DEF Spec
<1>3. DeployedSpec => []Solvent
  BY <1>1, SolventStep, TypeCorrect, PTL DEF DeployedSpec
<1> QED BY <1>2, <1>3

-----------------------------------------------------------------------------
(* What an indexer sees. *)

LEMMA AuditStep == TypeOK /\ AuditableBalance /\ [Next]_vars => AuditableBalance'
<1> SUFFICES ASSUME TypeOK, TypeOK', AuditableBalance, Effect, NEW q \in ProgramId
             PROVE  EscrowOf(q)' + events'[q].paid <= events'[q].funded
  BY StepEffect, TypeStep DEF AuditableBalance
<1>0. /\ EscrowOf(q) + events[q].paid <= events[q].funded
      /\ EscrowOf(q) \in Nat /\ events[q].paid \in Nat /\ events[q].funded \in Nat
  BY EscrowAssumption DEF AuditableBalance, TypeOK, EscrowOf, Program, Totals
<1>1. ASSUME NEW p, NEW program, programs' = Stored(programs, p, program)
      PROVE  EscrowOf(q)' = IF q = p THEN program.escrow_balance ELSE EscrowOf(q)
  BY <1>1 DEF EscrowOf, Stored
<1>2. ASSUME NEW p \in DOMAIN programs
      PROVE  /\ programs[p] \in Program /\ EscrowOf(p) = programs[p].escrow_balance
             /\ programs[p].escrow_balance \in Nat
  BY <1>2, EscrowAssumption DEF TypeOK, EscrowOf, Program
<1>3. CASE UNCHANGED <<programs, events>>
  BY <1>0, <1>3 DEF EscrowOf
<1>4. ASSUME NEW p, NEW program, Creates(p, program)
      PROVE  EscrowOf(q)' + events'[q].paid <= events'[q].funded
  BY <1>0, <1>1, <1>4 DEF Creates
<1>5. ASSUME NEW p \in ProgramId, NEW amount \in Nat, Funds(p, amount)
      PROVE  EscrowOf(q)' + events'[q].paid <= events'[q].funded
  <2> DEFINE program == [programs[p] EXCEPT !.escrow_balance = @ + amount]
  <2>1. /\ p \in DOMAIN programs /\ programs' = Stored(programs, p, program)
        /\ events' = [events EXCEPT ![p].funded = @ + amount]
    BY <1>5 DEF Funds
  <2>2. program.escrow_balance = EscrowOf(p) + amount
    BY <1>2, <2>1 DEF Program
  <2>3. /\ events'[q].paid = events[q].paid
        /\ events'[q].funded = IF q = p THEN events[q].funded + amount ELSE events[q].funded
    BY <2>1 DEF TypeOK, Totals
  <2> HIDE DEF program
  <2> QED BY <1>0, <1>1, <2>1, <2>2, <2>3
<1>6. ASSUME NEW p \in ProgramId, NEW user, NEW pr, NEW payout, Pays(p, user, pr, payout)
      PROVE  EscrowOf(q)' + events'[q].paid <= events'[q].funded
  <2>1. /\ p \in DOMAIN programs /\ payout \in Nat
        /\ programs' = Stored(programs, p, Debited(p, payout))
        /\ events' = [events EXCEPT ![p].paid = @ + payout, ![p].merges = @ + 1]
    BY <1>6 DEF Pays
  <2>2. Debited(p, payout).escrow_balance = EscrowOf(p) - payout
    BY <1>2, <2>1 DEF Debited, Program
  <2>3. /\ events'[q].funded = events[q].funded
        /\ events'[q].paid = IF q = p THEN events[q].paid + payout ELSE events[q].paid
    BY <2>1 DEF TypeOK, Totals
  <2> QED BY <1>0, <1>1, <2>1, <2>2, <2>3
<1>7. ASSUME NEW p \in ProgramId, NEW status, NEW reward, Adjusts(p, status, reward)
      PROVE  EscrowOf(q)' + events'[q].paid <= events'[q].funded
  <2> DEFINE program == [programs[p] EXCEPT !.status = status, !.reward_per_point = reward]
  <2>1. /\ p \in DOMAIN programs /\ programs' = Stored(programs, p, program)
        /\ UNCHANGED events
    BY <1>7 DEF Adjusts
  <2>2. program.escrow_balance = EscrowOf(p)
    BY <1>2, <2>1 DEF Program
  <2> HIDE DEF program
  <2> QED BY <1>0, <1>1, <2>1, <2>2
<1>8. ASSUME NEW p \in ProgramId, Refunds(p)
      PROVE  EscrowOf(q)' + events'[q].paid <= events'[q].funded
  <2>1. /\ p \in DOMAIN programs /\ programs' = Stored(programs, p, Drained(p))
        /\ UNCHANGED events
    BY <1>8 DEF Refunds
  <2>2. Drained(p).escrow_balance = 0
    BY <1>2, <2>1 DEF Drained, Program
  <2> QED BY <1>0, <1>1, <2>1, <2>2
<1> QED BY <1>3, <1>4, <1>5, <1>6, <1>7, <1>8
        DEF Effect, Quiet, Registers, Moves, storage

(* Whoever adds up the Funded and MergeRecorded events of an id never      *)
(* finds less than the escrow the contract holds under it.                 *)
THEOREM BalanceAuditable ==
    (Spec => []AuditableBalance) /\ (DeployedSpec => []AuditableBalance)
<1>1. Init \/ InitDeployed => AuditableBalance
  BY DEF Init, InitDeployed, FreshStorage, EmptyMap, AuditableBalance, EscrowOf
<1>2. Spec => []AuditableBalance
  BY <1>1, AuditStep, TypeCorrect, PTL DEF Spec
<1>3. DeployedSpec => []AuditableBalance
  BY <1>1, AuditStep, TypeCorrect, PTL DEF DeployedSpec
<1> QED BY <1>2, <1>3

-----------------------------------------------------------------------------
(* No call forgets a processed pull request or redirects a username to     *)
(* another payee, not even when an id is reused.                           *)
THEOREM RecordsKept == (Spec => RecordsPermanent) /\ (DeployedSpec => RecordsPermanent)
<1> DEFINE Kept == /\ processed \subseteq processed'
                   /\ \A key \in DOMAIN contributors :
                         /\ key \in DOMAIN contributors'
                         /\ contributors'[key] = contributors[key]
<1>1. TypeOK /\ [Next]_vars => [Kept]_vars
  <2> SUFFICES ASSUME Effect PROVE Kept
    BY StepEffect
  <2>1. CASE UNCHANGED <<processed, contributors>>
    BY <2>1
  <2>2. ASSUME NEW p, NEW user, NEW payee, Registers(p, user, payee) PROVE Kept
    BY <2>2 DEF Registers, Stored
  <2>3. ASSUME NEW p, NEW user, NEW pr, NEW payout, Pays(p, user, pr, payout) PROVE Kept
    BY <2>3 DEF Pays
  <2> QED BY <2>1, <2>2, <2>3
          DEF Effect, Quiet, Creates, Funds, Adjusts, Refunds, Moves, storage
<1>2. Spec => RecordsPermanent
  BY <1>1, TypeCorrect, PTL DEF Spec, RecordsPermanent
<1>3. DeployedSpec => RecordsPermanent
  BY <1>1, TypeCorrect, PTL DEF DeployedSpec, RecordsPermanent
<1> QED BY <1>2, <1>3

=============================================================================
