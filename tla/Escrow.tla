------------------------------- MODULE Escrow -------------------------------
(***************************************************************************)
(* The WaveFlow escrow contract (contracts/waveflow-escrow): its storage,  *)
(* one action per entry point, and the token ledger it moves funds on.     *)
(*                                                                         *)
(* An invocation is one atomic step, as it is on Soroban: a call that      *)
(* returns an error, or in which a sub-call traps, changes nothing but     *)
(* `result`, the outcome the caller sees.  require_auth() is modelled by   *)
(* the caller argument: the address an action is called with has signed.   *)
(*                                                                         *)
(* Operators named Mutant... are faulty variants of the operator after     *)
(* them; no action uses them.                                              *)
(***************************************************************************)
EXTENDS Integers, FiniteSets, Functions

CONSTANTS
    Address,      \* accounts and contracts that can hold the payout token
    Contract,     \* env.current_contract_address()
    Token,        \* the payout token initialize is given
    Absent,       \* what reading a key that was never set gives
    Admins,       \* addresses offered to initialize as admin ...
    Gateways,     \* ... and as gateway
    Payees,       \* stellar addresses offered to register_contributor
    Repo,         \* github_repo symbols offered to create_program
    ValidRepo,    \* those validate_repo accepts
    Username,     \* github_username symbols
    PrNumber,     \* pull request numbers (u64)
    Points,       \* points offered to record_merge (u32)
    Amount,       \* i128 arguments: deposits, ratios, transfers
    Cap,          \* milestone caps offered to create_program
    NoCap,        \* milestone_cap = None
    MaxI128,      \* the largest i128
    MaxPrograms,  \* bound: ids create_program may hand out (u64 in the code)
    MaxFunded,    \* bound: total deposits into one program
    Supply        \* the token balances before the contract is deployed

ProgramId == 1..MaxPrograms
AnyId == 0..MaxPrograms  \* what calls may name: 0 is an id that no program gets
Signer == Address \ {Contract}

ASSUME EscrowAssumption ==
    /\ Contract \in Address /\ Absent \notin Address \cup {Token}
    /\ Admins \subseteq Signer /\ Gateways \subseteq Signer
    /\ Payees \subseteq Address /\ ValidRepo \subseteq Repo
    /\ IsFiniteSet(PrNumber)
    /\ Points \subseteq Nat /\ Amount \subseteq Int /\ Cap \subseteq Int
    /\ NoCap \notin Int
    /\ MaxI128 \in Nat /\ MaxPrograms \in Nat /\ MaxFunded \in Nat
    /\ Supply \in [Address -> 0..MaxI128] /\ Supply[Contract] = 0

VARIABLES
    instance,      \* instance storage: DataKey::Admin, Gateway, Token
    counter,       \* instance storage: DataKey::ProgramCounter
    programs,      \* persistent storage: DataKey::Program(id) -> Program
    contributors,  \* persistent storage: DataKey::Contributor(id, username)
    processed,     \* persistent storage: DataKey::ProcessedPr(id, pr)
    balances,      \* the token contract's ledger
    events,        \* per program id, the totals of the published events
    result         \* outcome of the last invocation

storage == <<instance, counter, programs, contributors, processed>>
vars == <<storage, balances, events, result>>

Ok == "Ok"
HostError == "HostError"   \* a sub-call trapped: the invocation is rolled back
ContractError ==
    {"AlreadyInitialized", "NotInitialized", "Unauthorized", "InvalidRepo",
     "ProgramNotFound", "ContributorNotFound", "ContributorAlreadyRegistered",
     "InsufficientEscrow", "ProgramPaused", "PrAlreadyProcessed",
     "MilestoneCapExceeded", "InsufficientDeposit", "InvalidRatio",
     "Overflow", "ProgramNotPaused"}

Program == [maintainer: Signer, github_repo: ValidRepo,
            reward_per_point: Nat \ {0}, escrow_balance: 0..MaxI128,
            milestone_cap: Cap \cup {NoCap}, milestone_spent: 0..MaxI128,
            status: {"Active", "Paused"}]
Totals == [funded: 0..MaxFunded, paid: Nat, merges: Nat]

TypeOK ==
    /\ instance \in [admin: Admins \cup {Absent}, gateway: Gateways \cup {Absent},
                     token: {Token, Absent}]
    /\ counter \in 0..MaxPrograms
    /\ DOMAIN programs \subseteq ProgramId
    /\ programs \in [DOMAIN programs -> Program]
    /\ DOMAIN contributors \subseteq ProgramId \X Username
    /\ contributors \in [DOMAIN contributors -> Payees]
    /\ processed \subseteq ProgramId \X PrNumber
    /\ balances \in [Address -> 0..MaxI128]
    /\ events \in [ProgramId -> Totals]
    /\ result \in ContractError \cup {Ok, HostError}

-----------------------------------------------------------------------------
(* The token contract, as the escrow uses it (external). *)

CanTransfer(from, to, amount) ==
    /\ amount <= balances[from]
    /\ from # to => balances[to] + amount <= MaxI128

Transferred(from, to, amount) ==
    [a \in Address |-> balances[a] - (IF a = from THEN amount ELSE 0)
                                   + (IF a = to THEN amount ELSE 0)]

-----------------------------------------------------------------------------
(* Storage accessors (storage.rs). *)

MutantLastIdAgain(current) == IF current = 0 THEN 1 ELSE current
next_program_id(current) == current + 1

MutantNeverProcessed(p, pr) == FALSE
is_pr_processed(p, pr) == <<p, pr>> \in processed

mark_pr_processed(p, pr) == processed \cup {<<p, pr>>}

MutantOverwritable(p, user) == FALSE
is_registered(p, user) == <<p, user>> \in DOMAIN contributors

(* A storage map after set(&key, value). *)
Stored(map, key, value) ==
    [k \in DOMAIN map \cup {key} |-> IF k = key THEN value ELSE map[k]]

write_program(p, program) == programs' = Stored(programs, p, program)
write_contributor(p, user, payee) == contributors' = Stored(contributors, <<p, user>>, payee)

-----------------------------------------------------------------------------
(* Pieces of record_merge and withdraw_remaining that have a name here. *)

Payout(p, points) == points * programs[p].reward_per_point

MutantUncovered(p, payout) == FALSE
IsUncovered(p, payout) == programs[p].escrow_balance < payout

MutantCapAlreadyReached(p, payout) == programs[p].milestone_spent > programs[p].milestone_cap
ExceedsCap(p, payout) ==
    programs[p].milestone_spent + payout > programs[p].milestone_cap

MutantNotDebited(p, payout) ==
    [programs[p] EXCEPT
        !.milestone_spent = IF programs[p].milestone_cap = NoCap THEN @ ELSE @ + payout]
Debited(p, payout) ==
    [programs[p] EXCEPT
        !.milestone_spent = IF programs[p].milestone_cap = NoCap THEN @ ELSE @ + payout,
        !.escrow_balance = @ - payout]

MutantKeepsBalance(p) == programs[p]
Drained(p) == [programs[p] EXCEPT !.escrow_balance = 0]

-----------------------------------------------------------------------------
(* The checks of each entry point, in the order the code makes them.  A    *)
(* check operator returns the first error, or Ok.                          *)

MutantAnyCaller(p, caller) == IF p \notin DOMAIN programs THEN "ProgramNotFound" ELSE Ok
MaintainerCheck(p, caller) ==
    IF p \notin DOMAIN programs THEN "ProgramNotFound"
    ELSE IF programs[p].maintainer # caller THEN "Unauthorized"
    ELSE Ok

CreateProgramCheck(repo, reward) ==
    IF reward <= 0 THEN "InvalidRatio"
    ELSE IF repo \notin ValidRepo THEN "InvalidRepo"
    ELSE Ok

FundCheck(p, from, amount) ==
    IF amount < 1 THEN "InsufficientDeposit"
    ELSE IF MaintainerCheck(p, from) # Ok THEN MaintainerCheck(p, from)
    ELSE IF instance.token = Absent THEN "NotInitialized"
    ELSE IF ~CanTransfer(from, Contract, amount) THEN HostError
    ELSE IF programs[p].escrow_balance + amount > MaxI128 THEN "Overflow"
    ELSE Ok

RegisterCheck(p, caller, user) ==
    IF MaintainerCheck(p, caller) # Ok THEN MaintainerCheck(p, caller)
    ELSE IF is_registered(p, user) THEN "ContributorAlreadyRegistered"
    ELSE Ok

MilestoneCheck(p, payout) ==
    IF programs[p].milestone_cap = NoCap THEN Ok
    ELSE IF programs[p].milestone_spent + payout > MaxI128 THEN "Overflow"
    ELSE IF ExceedsCap(p, payout) THEN "MilestoneCapExceeded"
    ELSE Ok

require_active(p) == IF programs[p].status = "Paused" THEN "ProgramPaused" ELSE Ok

RecordMergeCheck(gateway, p, user, pr, points) ==
    IF instance.gateway = Absent THEN "NotInitialized"
    ELSE IF instance.gateway # gateway THEN "Unauthorized"
    ELSE IF points = 0 THEN "InvalidRatio"
    ELSE IF is_pr_processed(p, pr) THEN "PrAlreadyProcessed"
    ELSE IF p \notin DOMAIN programs THEN "ProgramNotFound"
    ELSE IF require_active(p) # Ok THEN require_active(p)
    ELSE IF ~is_registered(p, user) THEN "ContributorNotFound"
    ELSE IF Payout(p, points) > MaxI128 THEN "Overflow"
    ELSE IF IsUncovered(p, Payout(p, points)) THEN "InsufficientEscrow"
    ELSE IF MilestoneCheck(p, Payout(p, points)) # Ok
         THEN MilestoneCheck(p, Payout(p, points))
    ELSE IF instance.token = Absent THEN "NotInitialized"
    ELSE IF ~CanTransfer(Contract, contributors[<<p, user>>], Payout(p, points))
         THEN HostError
    ELSE Ok

MutantWithdrawWhileActive(p, caller) == MaintainerCheck(p, caller)
PausedCheck(p, caller) ==
    IF MaintainerCheck(p, caller) # Ok THEN MaintainerCheck(p, caller)
    ELSE IF programs[p].status # "Paused" THEN "ProgramNotPaused"
    ELSE Ok

WithdrawCheck(p, caller) ==
    IF PausedCheck(p, caller) # Ok THEN PausedCheck(p, caller)
    ELSE IF programs[p].escrow_balance = 0 THEN Ok
    ELSE IF instance.token = Absent THEN "NotInitialized"
    ELSE IF ~CanTransfer(Contract, caller, programs[p].escrow_balance) THEN HostError
    ELSE Ok

Reject(error) ==
    /\ error # Ok
    /\ result' = error
    /\ UNCHANGED <<storage, balances, events>>

-----------------------------------------------------------------------------
(* The entry points (contract.rs). *)

initialize(admin, gateway) ==
    \/ instance.admin # Absent /\ Reject("AlreadyInitialized")
    \/ /\ instance.admin = Absent
       /\ instance' = [admin |-> admin, gateway |-> gateway, token |-> Token]
       /\ counter' = 0
       /\ result' = Ok
       /\ UNCHANGED <<programs, contributors, processed, balances, events>>

create_program(maintainer, repo, reward, cap) ==
    \/ Reject(CreateProgramCheck(repo, reward))
    \/ /\ CreateProgramCheck(repo, reward) = Ok
       /\ counter < MaxPrograms
       /\ counter' = next_program_id(counter)
       /\ write_program(counter',
              [maintainer |-> maintainer, github_repo |-> repo,
               reward_per_point |-> reward, escrow_balance |-> 0,
               milestone_cap |-> cap, milestone_spent |-> 0,
               status |-> "Active"])
       /\ result' = Ok
       /\ UNCHANGED <<instance, contributors, processed, balances, events>>

fund(p, from, amount) ==
    \/ Reject(FundCheck(p, from, amount))
    \/ /\ FundCheck(p, from, amount) = Ok
       /\ events[p].funded + amount <= MaxFunded
       /\ balances' = Transferred(from, Contract, amount)
       /\ write_program(p, [programs[p] EXCEPT !.escrow_balance = @ + amount])
       /\ events' = [events EXCEPT ![p].funded = @ + amount]
       /\ result' = Ok
       /\ UNCHANGED <<instance, counter, contributors, processed>>

register_contributor(p, caller, user, payee) ==
    \/ Reject(RegisterCheck(p, caller, user))
    \/ /\ RegisterCheck(p, caller, user) = Ok
       /\ write_contributor(p, user, payee)
       /\ result' = Ok
       /\ UNCHANGED <<instance, counter, programs, processed, balances, events>>

record_merge(gateway, p, user, pr, points) ==
    LET check == RecordMergeCheck(gateway, p, user, pr, points)
        payout == Payout(p, points)
    IN  \/ Reject(check)
        \/ /\ check = Ok
           /\ balances' = Transferred(Contract, contributors[<<p, user>>], payout)
           /\ write_program(p, Debited(p, payout))
           /\ processed' = mark_pr_processed(p, pr)
           /\ events' = [events EXCEPT ![p].paid = @ + payout, ![p].merges = @ + 1]
           /\ result' = Ok
           /\ UNCHANGED <<instance, counter, contributors>>

SetStatus(p, caller, status) ==
    \/ Reject(MaintainerCheck(p, caller))
    \/ /\ MaintainerCheck(p, caller) = Ok
       /\ write_program(p, [programs[p] EXCEPT !.status = status])
       /\ result' = Ok
       /\ UNCHANGED <<instance, counter, contributors, processed, balances, events>>

pause(p, caller) == SetStatus(p, caller, "Paused")
resume(p, caller) == SetStatus(p, caller, "Active")

set_ratio(p, caller, reward) ==
    LET check == IF reward <= 0 THEN "InvalidRatio" ELSE MaintainerCheck(p, caller)
    IN  \/ Reject(check)
        \/ /\ check = Ok
           /\ write_program(p, [programs[p] EXCEPT !.reward_per_point = reward])
           /\ result' = Ok
           /\ UNCHANGED <<instance, counter, contributors, processed, balances, events>>

withdraw_remaining(p, caller) ==
    \/ Reject(WithdrawCheck(p, caller))
    \/ /\ WithdrawCheck(p, caller) = Ok
       /\ balances' = Transferred(Contract, caller, programs[p].escrow_balance)
       /\ write_program(p, Drained(p))
       /\ result' = Ok
       /\ UNCHANGED <<instance, counter, contributors, processed, events>>

(* Any holder may move its own tokens, to the contract as well (external). *)
token_transfer(from, to, amount) ==
    /\ amount > 0 /\ from # to /\ CanTransfer(from, to, amount)
    /\ balances' = Transferred(from, to, amount)
    /\ UNCHANGED <<storage, events, result>>

-----------------------------------------------------------------------------
EmptyMap == [k \in {} |-> k]

FreshStorage ==
    /\ counter = 0
    /\ programs = EmptyMap /\ contributors = EmptyMap /\ processed = {}
    /\ balances = Supply
    /\ events = [p \in ProgramId |-> [funded |-> 0, paid |-> 0, merges |-> 0]]
    /\ result = Ok

(* The contract as `soroban contract deploy` leaves it ... *)
Init ==
    /\ instance = [admin |-> Absent, gateway |-> Absent, token |-> Absent]
    /\ FreshStorage

(* ... and as it is when initialize is the first call that succeeds, which *)
(* is what the tests' setup() does.                                        *)
InitDeployed ==
    /\ \E admin \in Admins, gateway \in Gateways :
           instance = [admin |-> admin, gateway |-> gateway, token |-> Token]
    /\ FreshStorage

Next ==
    \/ \E admin \in Admins, gateway \in Gateways : initialize(admin, gateway)
    \/ \E m \in Signer, repo \in Repo, reward \in Amount, cap \in Cap \cup {NoCap} :
           create_program(m, repo, reward, cap)
    \/ \E p \in AnyId, caller \in Signer :
        \/ \E amount \in Amount : fund(p, caller, amount)
        \/ \E user \in Username, payee \in Payees :
               register_contributor(p, caller, user, payee)
        \/ \E user \in Username, pr \in PrNumber, points \in Points :
               record_merge(caller, p, user, pr, points)
        \/ pause(p, caller)
        \/ resume(p, caller)
        \/ \E reward \in Amount : set_ratio(p, caller, reward)
        \/ withdraw_remaining(p, caller)
    \/ \E from \in Signer, to \in Address, amount \in Amount :
           token_transfer(from, to, amount)

Spec == Init /\ [][Next]_vars
DeployedSpec == InitDeployed /\ [][Next]_vars

-----------------------------------------------------------------------------
(* What the contract owes: the escrow balances of all programs. *)

EscrowOf(p) == IF p \in DOMAIN programs THEN programs[p].escrow_balance ELSE 0

Escrows == [p \in ProgramId |-> EscrowOf(p)]

Liabilities == SumFunction(Escrows)

MergesRecorded(p) == {pr \in PrNumber : <<p, pr>> \in processed}

-----------------------------------------------------------------------------
(* Safety. *)

(* All programs share one token balance, that of the contract.  It always  *)
(* covers the sum of their escrow balances, whatever fund, record_merge    *)
(* and withdraw_remaining moved, also when a payee is the contract itself  *)
(* and when initialize reset the id counter under existing programs.       *)
Solvent == Liabilities <= balances[Contract]

(* record_merge pays at most once per (program, pull request): the number  *)
(* of published MergeRecorded events of a program is the number of its     *)
(* processed pull requests.                                                *)
OnePayoutPerPr ==
    \A p \in ProgramId : events[p].merges = Cardinality(MergesRecorded(p))

(* The milestone cap of create_program bounds everything record_merge ever *)
(* pays from a capped program, across pauses, ratio changes and refills;   *)
(* milestone_spent is the sum of the published payouts.                    *)
MilestoneRespected ==
    \A p \in DOMAIN programs :
        programs[p].milestone_cap # NoCap =>
            /\ programs[p].milestone_spent = events[p].paid
            /\ events[p].paid = 0 \/ events[p].paid <= programs[p].milestone_cap

(* An indexer that follows Funded and MergeRecorded never sees a program   *)
(* hold less than it really does.                                          *)
AuditableBalance ==
    \A p \in ProgramId : EscrowOf(p) + events[p].paid <= events[p].funded

(* Escrow leaves a program in two ways only: to the registered payee of a  *)
(* pull request that was not yet processed, while the program is active    *)
(* (record_merge); or all of it to the maintainer, while it is paused      *)
(* (withdraw_remaining).                                                   *)
PaidForMerge(p) ==
    /\ programs[p].status = "Active"
    /\ \E pr \in PrNumber : processed' \ processed = {<<p, pr>>}
    /\ \E user \in Username :
          /\ <<p, user>> \in DOMAIN contributors
          /\ LET payee == contributors[<<p, user>>]
                 paid == EscrowOf(p) - EscrowOf(p)'
             IN  payee # Contract => balances'[payee] = balances[payee] + paid
Refunded(p) ==
    LET owner == programs[p].maintainer
    IN  /\ programs[p].status = "Paused"
        /\ EscrowOf(p)' = 0
        /\ balances'[owner] = balances[owner] + EscrowOf(p)
OutflowAccounted ==
    [][\A p \in ProgramId :
          EscrowOf(p)' < EscrowOf(p) => PaidForMerge(p) \/ Refunded(p)]_vars

(* create_program never reuses an id: a program keeps its maintainer, its  *)
(* repository and its cap for ever.                                        *)
ProgramIdentityStable ==
    [][\A p \in DOMAIN programs :
          /\ p \in DOMAIN programs'
          /\ programs'[p].maintainer = programs[p].maintainer
          /\ programs'[p].github_repo = programs[p].github_repo
          /\ programs'[p].milestone_cap = programs[p].milestone_cap]_vars

(* Neither a processed pull request nor the payee of a username is ever    *)
(* forgotten or replaced (register_contributor, mark_pr_processed).        *)
RecordsPermanent ==
    [][/\ processed \subseteq processed'
       /\ \A key \in DOMAIN contributors :
             /\ key \in DOMAIN contributors'
             /\ contributors'[key] = contributors[key]]_vars

-----------------------------------------------------------------------------
(* What the docs say and the code does not do. *)

(* docs/contracts/storage-keys-reference.md: ProgramCounter is a           *)
(* "Monotonic id allocator".  initialize sets it back to 0.                *)
CounterMonotonic == [][counter <= counter']_vars

(* docs/PRD.md: withdraw_remaining emits an event, so that the balance of  *)
(* a program is what its events add up to.  The code publishes none.       *)
IndexerBalance ==
    \A p \in ProgramId : EscrowOf(p) = events[p].funded - events[p].paid

-----------------------------------------------------------------------------
(* Treasury is what the contract promises.  A wallet holds what its holder *)
(* owns free of any program; for the contract that is what is stranded in  *)
(* it, by direct transfers and by payouts to itself.                       *)

Ledger == INSTANCE Treasury WITH
    Holder <- Address,
    House <- Contract,
    Pot <- ProgramId,
    Job <- PrNumber,
    wallet <- [balances EXCEPT ![Contract] = @ - Liabilities],
    pot <- Escrows,
    owner <- [p \in DOMAIN programs |-> programs[p].maintainer],
    open <- {p \in DOMAIN programs : programs[p].status = "Active"},
    settled <- processed

(* Every step of a deployed contract is a step of the treasury: tokens     *)
(* move between wallets and pots and are never created or lost.            *)
TreasuryImplemented == Ledger!Spec

=============================================================================
