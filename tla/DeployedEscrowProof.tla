------------------------- MODULE DeployedEscrowProof -------------------------
(* Theorems about a contract that was initialized before any other call:   *)
(* what the id counter guarantees there, and what rests on it.             *)
EXTENDS EscrowProof

-----------------------------------------------------------------------------
(* The inductive invariant.  The ids handed out are 1..counter, each has a *)
(* program, and nothing was ever paid under an id not handed out.  It does *)
(* not hold when create_program comes before initialize, which then sets   *)
(* the counter back to 0.                                                  *)
IdsAllotted ==
    /\ instance.admin # Absent
    /\ DOMAIN programs = 1..counter
    /\ \A p \in ProgramId \ DOMAIN programs : events[p].paid = 0

LEMMA IdsInit == InitDeployed => IdsAllotted
<1> SUFFICES ASSUME InitDeployed PROVE IdsAllotted
  OBVIOUS
<1>1. instance.admin # Absent
  <2>1. PICK admin \in Admins, gateway \in Gateways :
            instance = [admin |-> admin, gateway |-> gateway, token |-> Token]
    BY DEF InitDeployed
  <2> QED BY <2>1, EscrowAssumption DEF Signer
<1>2. counter = 0 /\ programs = EmptyMap
  BY DEF InitDeployed, FreshStorage
<1>3. \A p \in ProgramId : events[p].paid = 0
  BY DEF InitDeployed, FreshStorage
<1> QED BY <1>1, <1>2, <1>3 DEF IdsAllotted, EmptyMap

LEMMA IdsStep == TypeOK /\ IdsAllotted /\ [Next]_vars => IdsAllotted'
<1> SUFFICES ASSUME TypeOK, TypeOK', IdsAllotted, Effect PROVE IdsAllotted'
  BY StepEffect, TypeStep
<1>0. /\ instance.admin # Absent /\ DOMAIN programs = 1..counter
      /\ \A p \in ProgramId \ DOMAIN programs : events[p].paid = 0
      /\ counter \in Nat
  BY EscrowAssumption DEF IdsAllotted, TypeOK
<1>1. ASSUME UNCHANGED <<instance, counter>>, DOMAIN programs' = DOMAIN programs,
             \A q \in ProgramId \ DOMAIN programs : events'[q].paid = events[q].paid
      PROVE  IdsAllotted'
  BY <1>0, <1>1 DEF IdsAllotted
<1>2. ASSUME NEW p \in DOMAIN programs, NEW program,
             programs' = Stored(programs, p, program)
      PROVE  DOMAIN programs' = DOMAIN programs
  BY <1>2 DEF Stored
<1>3. CASE Quiet
  BY <1>0, <1>1, <1>3 DEF Quiet
<1>4. ASSUME NEW p, NEW program, Creates(p, program)
      PROVE  IdsAllotted'
  <2>1. DOMAIN programs' = DOMAIN programs \cup {p}
    BY <1>4 DEF Creates, Stored
  <2>2. p = counter + 1 /\ counter' = counter + 1
    BY <1>4 DEF Creates
  <2>3. DOMAIN programs' = 1..counter'
    BY <1>0, <2>1, <2>2
  <2> QED BY <1>0, <1>4, <2>1, <2>3 DEF IdsAllotted, Creates
<1>5. ASSUME NEW p \in ProgramId, NEW amount \in Nat, Funds(p, amount)
      PROVE  IdsAllotted'
  <2>1. \A q \in ProgramId : events'[q].paid = events[q].paid
    BY <1>5 DEF Funds, TypeOK, Totals
  <2> QED BY <1>1, <1>2, <1>5, <2>1 DEF Funds
<1>6. ASSUME NEW p \in ProgramId, NEW user, NEW payee, Registers(p, user, payee)
      PROVE  IdsAllotted'
  BY <1>1, <1>6 DEF Registers
<1>7. ASSUME NEW p \in ProgramId, NEW user, NEW pr, NEW payout, Pays(p, user, pr, payout)
      PROVE  IdsAllotted'
  <2>1. \A q \in ProgramId \ DOMAIN programs : events'[q].paid = events[q].paid
    BY <1>7 DEF Pays, TypeOK, Totals
  <2> QED BY <1>1, <1>2, <1>7, <2>1 DEF Pays
<1>8. ASSUME NEW p \in ProgramId, NEW status, NEW reward, Adjusts(p, status, reward)
      PROVE  IdsAllotted'
  BY <1>1, <1>2, <1>8 DEF Adjusts
<1>9. ASSUME NEW p \in ProgramId, Refunds(p)
      PROVE  IdsAllotted'
  BY <1>1, <1>2, <1>9 DEF Refunds
<1>10. ASSUME NEW from \in Signer, NEW to \in Address, NEW amount \in Nat,
              Moves(from, to, amount)
       PROVE  IdsAllotted'
  BY <1>1, <1>10 DEF Moves, storage
<1> QED BY <1>3, <1>4, <1>5, <1>6, <1>7, <1>8, <1>9, <1>10 DEF Effect

LEMMA IdsAlwaysAllotted == DeployedSpec => []IdsAllotted
BY IdsInit, IdsStep, TypeCorrect, PTL DEF DeployedSpec

(* A new program never takes the place of another. *)
LEMMA FreshId ==
    ASSUME TypeOK, IdsAllotted, NEW p, NEW program, Creates(p, program)
    PROVE  p \notin DOMAIN programs
BY EscrowAssumption DEF TypeOK, IdsAllotted, Creates

-----------------------------------------------------------------------------
(* A program keeps its maintainer, its repository and its cap for ever:    *)
(* only the maintainer that created it can ever fund, pause or drain it.   *)
THEOREM IdentityKept == DeployedSpec => ProgramIdentityStable
<1> DEFINE Kept(p) == /\ p \in DOMAIN programs'
                      /\ programs'[p].maintainer = programs[p].maintainer
                      /\ programs'[p].github_repo = programs[p].github_repo
                      /\ programs'[p].milestone_cap = programs[p].milestone_cap
<1>1. TypeOK /\ IdsAllotted /\ [Next]_vars => [\A p \in DOMAIN programs : Kept(p)]_vars
  <2> SUFFICES ASSUME TypeOK, IdsAllotted, Effect, NEW q \in DOMAIN programs
               PROVE  Kept(q)
    BY StepEffect
  <2>0. programs[q] \in Program
    BY DEF TypeOK
  <2>1. CASE UNCHANGED programs
    BY <2>1
  <2>2. ASSUME NEW p, NEW program, programs' = Stored(programs, p, program),
               \/ p # q
               \/ /\ program.maintainer = programs[q].maintainer
                  /\ program.github_repo = programs[q].github_repo
                  /\ program.milestone_cap = programs[q].milestone_cap
        PROVE  Kept(q)
    BY <2>2 DEF Stored
  <2>3. ASSUME NEW p, NEW program, Creates(p, program) PROVE Kept(q)
    BY <2>2, <2>3, FreshId DEF Creates
  <2>4. ASSUME NEW p \in ProgramId, NEW amount \in Nat, Funds(p, amount) PROVE Kept(q)
    <3> DEFINE program == [programs[p] EXCEPT !.escrow_balance = @ + amount]
    <3>1. programs' = Stored(programs, p, program)
      BY <2>4 DEF Funds
    <3>2. p = q => /\ program.maintainer = programs[q].maintainer
                   /\ program.github_repo = programs[q].github_repo
                   /\ program.milestone_cap = programs[q].milestone_cap
      BY <2>0 DEF Program
    <3> HIDE DEF program
    <3> QED BY <2>2, <3>1, <3>2
  <2>5. ASSUME NEW p \in ProgramId, NEW user, NEW pr, NEW payout, Pays(p, user, pr, payout)
        PROVE  Kept(q)
    <3>1. programs' = Stored(programs, p, Debited(p, payout))
      BY <2>5 DEF Pays
    <3>2. p = q => /\ Debited(p, payout).maintainer = programs[q].maintainer
                   /\ Debited(p, payout).github_repo = programs[q].github_repo
                   /\ Debited(p, payout).milestone_cap = programs[q].milestone_cap
      BY <2>0 DEF Debited, Program
    <3> QED BY <2>2, <3>1, <3>2
  <2>6. ASSUME NEW p \in ProgramId, NEW status, NEW reward, Adjusts(p, status, reward)
        PROVE  Kept(q)
    <3> DEFINE program == [programs[p] EXCEPT !.status = status, !.reward_per_point = reward]
    <3>1. programs' = Stored(programs, p, program)
      BY <2>6 DEF Adjusts
    <3>2. p = q => /\ program.maintainer = programs[q].maintainer
                   /\ program.github_repo = programs[q].github_repo
                   /\ program.milestone_cap = programs[q].milestone_cap
      BY <2>0 DEF Program
    <3> HIDE DEF program
    <3> QED BY <2>2, <3>1, <3>2
  <2>7. ASSUME NEW p \in ProgramId, Refunds(p) PROVE Kept(q)
    <3>1. programs' = Stored(programs, p, Drained(p))
      BY <2>7 DEF Refunds
    <3>2. p = q => /\ Drained(p).maintainer = programs[q].maintainer
                   /\ Drained(p).github_repo = programs[q].github_repo
                   /\ Drained(p).milestone_cap = programs[q].milestone_cap
      BY <2>0 DEF Drained, Program
    <3> QED BY <2>2, <3>1, <3>2
  <2> QED BY <2>1, <2>3, <2>4, <2>5, <2>6, <2>7
          DEF Effect, Quiet, Registers, Moves, storage
<1> QED BY <1>1, TypeCorrect, IdsAlwaysAllotted, PTL DEF DeployedSpec, ProgramIdentityStable

-----------------------------------------------------------------------------
(* The milestone cap. *)

CapHolds(q) ==
    programs[q].milestone_cap # NoCap =>
        /\ programs[q].milestone_spent = events[q].paid
        /\ events[q].paid = 0 \/ events[q].paid <= programs[q].milestone_cap

LEMMA CapStep ==
    TypeOK /\ IdsAllotted /\ MilestoneRespected /\ [Next]_vars => MilestoneRespected'
<1> SUFFICES ASSUME TypeOK, TypeOK', IdsAllotted, MilestoneRespected, Effect,
                    NEW q \in DOMAIN programs'
             PROVE  CapHolds(q)'
  BY StepEffect, TypeStep DEF MilestoneRespected, CapHolds
<1>0. /\ q \in DOMAIN programs => programs[q] \in Program /\ CapHolds(q)
      /\ q \in ProgramId /\ events[q] \in Totals
  BY DEF TypeOK, MilestoneRespected, CapHolds
<1>1. ASSUME NEW p, NEW program, programs' = Stored(programs, p, program),
             p \in DOMAIN programs, events'[q].paid = events[q].paid,
             p = q => /\ program.milestone_cap = programs[q].milestone_cap
                      /\ program.milestone_spent = programs[q].milestone_spent
      PROVE  CapHolds(q)'
  <2>1. /\ q \in DOMAIN programs
        /\ programs'[q].milestone_cap = programs[q].milestone_cap
        /\ programs'[q].milestone_spent = programs[q].milestone_spent
    BY <1>1 DEF Stored
  <2> QED BY <1>0, <1>1, <2>1 DEF CapHolds
<1>2. CASE UNCHANGED <<programs, events>>
  BY <1>0, <1>2 DEF CapHolds
<1>3. ASSUME NEW p, NEW program, Creates(p, program) PROVE CapHolds(q)'
  <2>1. programs' = Stored(programs, p, program) /\ UNCHANGED events
        /\ program.milestone_spent = 0 /\ p \in ProgramId
    BY <1>3 DEF Creates
  <2>2. CASE p = q
    <3>1. events[p].paid = 0
      BY <1>3, <2>1, FreshId DEF IdsAllotted
    <3> QED BY <2>1, <2>2, <3>1 DEF CapHolds, Stored
  <2>3. CASE p # q
    BY <1>0, <2>1, <2>3 DEF CapHolds, Stored
  <2> QED BY <2>2, <2>3
<1>4. ASSUME NEW p \in ProgramId, NEW amount \in Nat, Funds(p, amount)
      PROVE  CapHolds(q)'
  <2> DEFINE program == [programs[p] EXCEPT !.escrow_balance = @ + amount]
  <2>1. /\ p \in DOMAIN programs /\ programs' = Stored(programs, p, program)
        /\ events' = [events EXCEPT ![p].funded = @ + amount]
    BY <1>4 DEF Funds
  <2>2. events'[q].paid = events[q].paid
    BY <1>0, <2>1 DEF TypeOK, Totals
  <2>3. p = q => /\ program.milestone_cap = programs[q].milestone_cap
                 /\ program.milestone_spent = programs[q].milestone_spent
    BY <1>0, <2>1 DEF Program
  <2> HIDE DEF program
  <2> QED BY <1>1, <2>1, <2>2, <2>3
<1>5. ASSUME NEW p \in ProgramId, NEW user, NEW pr, NEW payout, Pays(p, user, pr, payout)
      PROVE  CapHolds(q)'
  <2>1. /\ p \in DOMAIN programs /\ programs' = Stored(programs, p, Debited(p, payout))
        /\ events' = [events EXCEPT ![p].paid = @ + payout, ![p].merges = @ + 1]
        /\ payout \in Nat
        /\ programs[p].milestone_cap # NoCap =>
              programs[p].milestone_spent + payout <= programs[p].milestone_cap
    BY <1>5 DEF Pays
  <2>2. CASE p # q
    <3>1. events'[q].paid = events[q].paid
      BY <1>0, <2>1, <2>2 DEF TypeOK
    <3> QED BY <1>1, <2>1, <2>2, <3>1
  <2>3. CASE p = q
    <3>1. programs'[q] = Debited(p, payout)
      BY <2>1, <2>3 DEF Stored
    <3>2. events'[q].paid = events[q].paid + payout
      BY <1>0, <2>1, <2>3 DEF TypeOK, Totals
    <3>3. programs'[q].milestone_cap = programs[q].milestone_cap
      BY <1>0, <2>1, <2>3, <3>1 DEF Debited, Program
    <3>4. programs[q].milestone_cap # NoCap =>
            programs'[q].milestone_spent = programs[q].milestone_spent + payout
      BY <1>0, <2>1, <2>3, <3>1 DEF Debited, Program
    <3> QED BY <1>0, <2>1, <2>3, <3>2, <3>3, <3>4 DEF CapHolds
  <2> QED BY <2>2, <2>3
<1>6. ASSUME NEW p \in ProgramId, NEW status, NEW reward, Adjusts(p, status, reward)
      PROVE  CapHolds(q)'
  <2> DEFINE program == [programs[p] EXCEPT !.status = status, !.reward_per_point = reward]
  <2>1. /\ p \in DOMAIN programs /\ programs' = Stored(programs, p, program)
        /\ UNCHANGED events
    BY <1>6 DEF Adjusts
  <2>2. p = q => /\ program.milestone_cap = programs[q].milestone_cap
                 /\ program.milestone_spent = programs[q].milestone_spent
    BY <1>0, <2>1 DEF Program
  <2> HIDE DEF program
  <2> QED BY <1>1, <2>1, <2>2
<1>7. ASSUME NEW p \in ProgramId, Refunds(p) PROVE CapHolds(q)'
  <2>1. /\ p \in DOMAIN programs /\ programs' = Stored(programs, p, Drained(p))
        /\ UNCHANGED events
    BY <1>7 DEF Refunds
  <2>2. p = q => /\ Drained(p).milestone_cap = programs[q].milestone_cap
                 /\ Drained(p).milestone_spent = programs[q].milestone_spent
    BY <1>0, <2>1 DEF Drained, Program
  <2> QED BY <1>1, <2>1, <2>2
<1> QED BY <1>2, <1>3, <1>4, <1>5, <1>6, <1>7
        DEF Effect, Quiet, Registers, Moves, storage

(* All that record_merge ever pays from a capped program is within its     *)
(* cap, and milestone_spent is exactly that sum.                           *)
THEOREM CapRespected == DeployedSpec => []MilestoneRespected
<1>1. InitDeployed => MilestoneRespected
  BY DEF InitDeployed, FreshStorage, EmptyMap, MilestoneRespected
<1> QED BY <1>1, CapStep, TypeCorrect, IdsAlwaysAllotted, PTL DEF DeployedSpec

-----------------------------------------------------------------------------
(* Where escrow goes. *)

LEMMA OutflowStep ==
    ASSUME TypeOK, IdsAllotted, Effect, NEW q \in ProgramId,
           EscrowOf(q)' < EscrowOf(q)
    PROVE  PaidForMerge(q) \/ Refunded(q)
<1>0. /\ EscrowOf(q) \in Nat
      /\ q \in DOMAIN programs =>
            /\ programs[q] \in Program /\ EscrowOf(q) = programs[q].escrow_balance
            /\ programs[q].maintainer \in Address \ {Contract}
  BY EscrowAssumption DEF TypeOK, EscrowOf, Program, Signer
<1>1. ASSUME NEW p, NEW program, programs' = Stored(programs, p, program)
      PROVE  EscrowOf(q)' = IF q = p THEN program.escrow_balance ELSE EscrowOf(q)
  BY <1>1 DEF EscrowOf, Stored
<1>2. CASE UNCHANGED programs
  BY <1>0, <1>2 DEF EscrowOf
<1>3. ASSUME NEW p, NEW program, Creates(p, program) PROVE FALSE
  <2>1. p \notin DOMAIN programs /\ program.escrow_balance = 0
        /\ programs' = Stored(programs, p, program)
    BY <1>3, FreshId DEF Creates
  <2>2. EscrowOf(p) = 0
    BY <2>1 DEF EscrowOf
  <2> QED BY <1>0, <1>1, <2>1, <2>2
<1>4. ASSUME NEW p \in ProgramId, NEW amount \in Nat, Funds(p, amount) PROVE FALSE
  <2> DEFINE program == [programs[p] EXCEPT !.escrow_balance = @ + amount]
  <2>1. p \in DOMAIN programs /\ programs' = Stored(programs, p, program)
    BY <1>4 DEF Funds
  <2>2. p = q => program.escrow_balance = EscrowOf(q) + amount
    BY <1>0, <2>1 DEF Program
  <2> HIDE DEF program
  <2> QED BY <1>0, <1>1, <2>1, <2>2
<1>5. ASSUME NEW p \in ProgramId, NEW user, NEW pr, NEW payout, Pays(p, user, pr, payout)
      PROVE  PaidForMerge(q)
  <2> DEFINE payee == contributors[<<p, user>>]
  <2>1. /\ p \in DOMAIN programs /\ payout \in Nat
        /\ programs[p].status = "Active"
        /\ pr \in PrNumber /\ <<p, pr>> \notin processed
        /\ processed' = processed \cup {<<p, pr>>}
        /\ user \in Username /\ <<p, user>> \in DOMAIN contributors
        /\ programs' = Stored(programs, p, Debited(p, payout))
        /\ balances' = Transferred(Contract, payee, payout)
    BY <1>5 DEF Pays
  <2>2. p = q
    BY <1>0, <1>1, <2>1
  <2>3. EscrowOf(q)' = EscrowOf(q) - payout
    <3>1. Debited(q, payout).escrow_balance = EscrowOf(q) - payout
      BY <1>0, <2>1, <2>2 DEF Debited, Program
    <3> QED BY <1>1, <2>1, <2>2, <3>1
  <2>4. payee \in Address /\ balances[payee] \in Nat
    BY <2>1, EscrowAssumption DEF TypeOK
  <2>5. payee # Contract => balances'[payee] = balances[payee] + (EscrowOf(q) - EscrowOf(q)')
    BY <1>0, <2>1, <2>3, <2>4 DEF Transferred
  <2>6. processed' \ processed = {<<q, pr>>}
    BY <2>1, <2>2
  <2> QED BY <2>1, <2>2, <2>5, <2>6 DEF PaidForMerge
<1>6. ASSUME NEW p \in ProgramId, NEW status, NEW reward, Adjusts(p, status, reward)
      PROVE  FALSE
  <2> DEFINE program == [programs[p] EXCEPT !.status = status, !.reward_per_point = reward]
  <2>1. p \in DOMAIN programs /\ programs' = Stored(programs, p, program)
    BY <1>6 DEF Adjusts
  <2>2. p = q => program.escrow_balance = EscrowOf(q)
    BY <1>0, <2>1 DEF Program
  <2> HIDE DEF program
  <2> QED BY <1>0, <1>1, <2>1, <2>2
<1>7. ASSUME NEW p \in ProgramId, Refunds(p) PROVE Refunded(q)
  <2> DEFINE owner == programs[p].maintainer
             amount == programs[p].escrow_balance
  <2>1. /\ p \in DOMAIN programs /\ programs[p].status = "Paused"
        /\ programs' = Stored(programs, p, Drained(p))
        /\ balances' = Transferred(Contract, owner, amount)
    BY <1>7 DEF Refunds
  <2>2. p = q
    BY <1>0, <1>1, <2>1
  <2>3. EscrowOf(q)' = 0
    <3>1. Drained(q).escrow_balance = 0
      BY <1>0, <2>1, <2>2 DEF Drained, Program
    <3> QED BY <1>1, <2>1, <2>2, <3>1
  <2>4. balances[owner] \in Nat
    BY <1>0, <2>1, <2>2, EscrowAssumption DEF TypeOK
  <2>5. balances'[owner] = balances[owner] + EscrowOf(q)
    BY <1>0, <2>1, <2>2, <2>4 DEF Transferred
  <2> QED BY <2>1, <2>2, <2>3, <2>5 DEF Refunded
<1> QED BY <1>2, <1>3, <1>4, <1>5, <1>6, <1>7
        DEF Effect, Quiet, Registers, Moves, storage

(* Escrow leaves an active program only to the registered payee of a merge *)
(* that was not yet paid, and a paused one only as a whole and to its      *)
(* maintainer.                                                             *)
THEOREM OutflowsAccounted == DeployedSpec => OutflowAccounted
<1> DEFINE Accounted ==
        \A p \in ProgramId : EscrowOf(p)' < EscrowOf(p) => PaidForMerge(p) \/ Refunded(p)
<1>1. TypeOK /\ IdsAllotted /\ [Next]_vars => [Accounted]_vars
  BY StepEffect, OutflowStep
<1> QED BY <1>1, TypeCorrect, IdsAlwaysAllotted, PTL DEF DeployedSpec, OutflowAccounted

-----------------------------------------------------------------------------
(* The contract implements the treasury. *)

Wallets == [balances EXCEPT ![Contract] = @ - Liabilities]
Owners == [p \in DOMAIN programs |-> programs[p].maintainer]
OpenPots == {p \in DOMAIN programs : programs[p].status = "Active"}

LEMMA LedgerInit == InitDeployed => Ledger!Init
<1> SUFFICES ASSUME InitDeployed, TypeOK PROVE Ledger!Init
  BY InitType
<1>1. FreshStorage
  BY DEF InitDeployed
<1>2. Escrows = [p \in ProgramId |-> 0]
  BY <1>1 DEF FreshStorage, EmptyMap, Escrows, EscrowOf
<1>3. Liabilities = 0
  BY <1>1, NothingOwed DEF FreshStorage
<1>4. Wallets \in [Address -> Nat]
  BY <1>3, EscrowAssumption DEF TypeOK, Wallets
<1>5. Owners = [p \in {} |-> p] /\ OpenPots = {} /\ processed = {}
  BY <1>1 DEF FreshStorage, EmptyMap, Owners, OpenPots
<1> QED BY <1>2, <1>4, <1>5 DEF Ledger!Init, Wallets, Owners, OpenPots

(* What storing one program and one transfer mean in the treasury. *)
LEMMA PotsAfterStore ==
    ASSUME NEW p \in ProgramId, NEW program, programs' = Stored(programs, p, program)
    PROVE  Escrows' = [Escrows EXCEPT ![p] = program.escrow_balance]
BY DEF Escrows, EscrowOf, Stored

WalletsOK ==
    /\ Liabilities \in Nat /\ Contract \in Address
    /\ Wallets \in [Address -> Int]
    /\ \A a \in Address :
          Wallets[a] = balances[a] - (IF a = Contract THEN Liabilities ELSE 0)

LEMMA WalletsAt == (TypeOK => WalletsOK) /\ (TypeOK' => WalletsOK')
<1>1. TypeOK => WalletsOK
  BY LiabilitiesType, EscrowAssumption DEF TypeOK, Wallets, WalletsOK
<1> QED BY <1>1, PTL

LEMMA WalletsAfterTransfer ==
    ASSUME TypeOK, TypeOK', NEW from \in Address, NEW to \in Address, NEW amount \in Nat,
           balances' = Transferred(from, to, amount)
    PROVE  \A a \in Address :
              Wallets'[a] = Wallets[a] - (IF a = from THEN amount ELSE 0)
                                       + (IF a = to THEN amount ELSE 0)
                                       - (IF a = Contract THEN Liabilities' - Liabilities ELSE 0)
<1> SUFFICES ASSUME NEW a \in Address
             PROVE  Wallets'[a] = Wallets[a] - (IF a = from THEN amount ELSE 0)
                                       + (IF a = to THEN amount ELSE 0)
                                       - (IF a = Contract THEN Liabilities' - Liabilities ELSE 0)
  OBVIOUS
<1>1. /\ Liabilities \in Nat /\ balances[a] \in Int
      /\ Wallets[a] = balances[a] - (IF a = Contract THEN Liabilities ELSE 0)
  BY WalletsAt DEF WalletsOK, TypeOK
<1>2. /\ Liabilities' \in Nat
      /\ Wallets'[a] = balances'[a] - (IF a = Contract THEN Liabilities' ELSE 0)
  BY WalletsAt DEF WalletsOK
<1>3. balances'[a] = balances[a] - (IF a = from THEN amount ELSE 0)
                                 + (IF a = to THEN amount ELSE 0)
  BY DEF Transferred
<1> QED BY <1>1, <1>2, <1>3

(* Escrow that moves between the contract's share of the balance and a pot *)
(* touches no wallet but that of the other party.                          *)
LEMMA WalletsAfterFunding ==
    ASSUME TypeOK, TypeOK', NEW from \in Address \ {Contract}, NEW amount \in Nat,
           balances' = Transferred(from, Contract, amount),
           Liabilities' = Liabilities + amount
    PROVE  Wallets' = [Wallets EXCEPT ![from] = @ - amount]
<1>1. \A a \in Address : Wallets'[a] = IF a = from THEN Wallets[a] - amount ELSE Wallets[a]
  BY WalletsAfterTransfer, WalletsAt DEF WalletsOK
<1>2. Wallets \in [Address -> Int]
  BY WalletsAt DEF WalletsOK
<1>3. Wallets' \in [Address -> Int]
  BY WalletsAt DEF WalletsOK
<1> HIDE DEF Wallets
<1> QED BY <1>1, <1>2, <1>3

LEMMA WalletsAfterPayment ==
    ASSUME TypeOK, TypeOK', NEW to \in Address, NEW amount \in Nat,
           balances' = Transferred(Contract, to, amount),
           Liabilities' = Liabilities - amount
    PROVE  Wallets' = [Wallets EXCEPT ![to] = @ + amount]
<1>1. \A a \in Address : Wallets'[a] = IF a = to THEN Wallets[a] + amount ELSE Wallets[a]
  BY WalletsAfterTransfer, WalletsAt DEF WalletsOK
<1>2. Wallets \in [Address -> Int]
  BY WalletsAt DEF WalletsOK
<1>3. Wallets' \in [Address -> Int]
  BY WalletsAt DEF WalletsOK
<1> HIDE DEF Wallets
<1> QED BY <1>1, <1>2, <1>3

(* Owners and open pots after storing a program under an id in use. *)
LEMMA OwnersAfterStore ==
    ASSUME NEW p \in DOMAIN programs, NEW program, programs' = Stored(programs, p, program),
           program.maintainer = programs[p].maintainer
    PROVE  /\ Owners' = Owners
           /\ OpenPots' = IF program.status = "Active" THEN OpenPots \cup {p}
                                                       ELSE OpenPots \ {p}
BY DEF Owners, OpenPots, Stored

(* Escrow moves in and out of pots as it does in the treasury. *)
LEMMA LiabilitiesStored ==
    ASSUME TypeOK, TypeOK', NEW p \in DOMAIN programs, NEW program,
           programs' = Stored(programs, p, program)
    PROVE  /\ p \in ProgramId /\ EscrowOf(p) = programs[p].escrow_balance
           /\ EscrowOf(p) \in Nat /\ programs[p] \in Program
           /\ programs[p].maintainer \in Address \ {Contract}
           /\ program \in Program /\ program.escrow_balance \in Nat
           /\ Liabilities \in Nat
           /\ Liabilities' = Liabilities - EscrowOf(p) + program.escrow_balance
<1>1. p \in ProgramId /\ programs[p] \in Program
  BY DEF TypeOK
<1>2. program \in Program
  BY StoredValue
<1>3. Liabilities' = Liabilities - EscrowOf(p) + program.escrow_balance
  BY <1>1, <1>2, LiabilitiesAfterStore
<1> QED BY <1>1, <1>2, <1>3, LiabilitiesType, EscrowAssumption
        DEF EscrowOf, Program, Signer

LEMMA LedgerStep ==
    ASSUME TypeOK, TypeOK', IdsAllotted, Solvent, Effect
    PROVE  [Ledger!Next]_Ledger!tvars
<1> DEFINE abstract == <<Wallets, Escrows, Owners, OpenPots, processed>>
<1>0. /\ Contract \in Address
      /\ \A a \in Address : balances[a] \in Nat
      /\ Liabilities \in Nat /\ Liabilities <= balances[Contract]
      /\ \A a \in Address : a # Contract => Wallets[a] = balances[a]
  BY WalletsAt, EscrowAssumption DEF WalletsOK, TypeOK, Solvent
<1>1. ASSUME UNCHANGED abstract PROVE UNCHANGED Ledger!tvars
  BY <1>1 DEF Ledger!tvars, Wallets, Owners, OpenPots
<1>2. ASSUME UNCHANGED <<programs, balances, processed>> PROVE UNCHANGED abstract
  BY <1>2 DEF Wallets, Liabilities, Escrows, EscrowOf, Owners, OpenPots
<1>3. ASSUME NEW p, NEW program, Creates(p, program)
      PROVE  \E h \in Address \ {Contract} : Ledger!Open(p, h)
  <2>1. /\ p \in ProgramId /\ p \notin DOMAIN programs /\ program \in Program
        /\ program.escrow_balance = 0 /\ program.status = "Active"
        /\ programs' = Stored(programs, p, program)
        /\ UNCHANGED <<balances, processed>>
    BY <1>3, FreshId DEF Creates
  <2>2. Escrows' = Escrows
    BY <2>1 DEF Escrows, EscrowOf, Stored
  <2>3. Wallets' = Wallets
    BY <2>1, <2>2 DEF Wallets, Liabilities
  <2>4. /\ Owners' = [q \in DOMAIN Owners \cup {p} |->
                        IF q = p THEN program.maintainer ELSE Owners[q]]
        /\ p \notin DOMAIN Owners /\ OpenPots' = OpenPots \cup {p}
    BY <2>1 DEF Owners, OpenPots, Stored
  <2>5. program.maintainer \in Address \ {Contract}
    BY <2>1 DEF Program, Signer
  <2>6. Ledger!Open(p, program.maintainer)
    BY <2>1, <2>2, <2>3, <2>4 DEF Ledger!Open, Wallets, Owners, OpenPots
  <2> QED BY <2>5, <2>6
<1>4. ASSUME NEW p \in ProgramId, NEW amount \in Nat, Funds(p, amount)
      PROVE  \E h \in Address : \E a \in 1..Wallets[h] : Ledger!Deposit(p, a)
  <2> DEFINE program == [programs[p] EXCEPT !.escrow_balance = @ + amount]
             from == programs[p].maintainer
  <2>1. /\ p \in DOMAIN programs /\ amount \in Nat \ {0} /\ amount <= balances[from]
        /\ programs' = Stored(programs, p, program)
        /\ balances' = Transferred(from, Contract, amount)
        /\ UNCHANGED processed
    BY <1>4 DEF Funds, CanTransfer
  <2>2. /\ program.escrow_balance = programs[p].escrow_balance + amount
        /\ program.maintainer = from /\ program.status = programs[p].status
    BY <2>1 DEF TypeOK, Program
  <2> HIDE DEF program
  <2>3. /\ EscrowOf(p) = programs[p].escrow_balance /\ EscrowOf(p) \in Nat
        /\ from \in Address \ {Contract}
        /\ Liabilities' = Liabilities - EscrowOf(p) + program.escrow_balance
    BY <2>1, LiabilitiesStored
  <2>4. Liabilities' = Liabilities + amount
    BY <1>0, <2>2, <2>3
  <2>5. Wallets' = [Wallets EXCEPT ![from] = @ - amount]
    BY <2>1, <2>3, <2>4, WalletsAfterFunding
  <2>6. Escrows' = [Escrows EXCEPT ![p] = @ + amount]
    <3>1. Escrows[p] = programs[p].escrow_balance
      BY <2>3 DEF Escrows
    <3> QED BY <2>1, <2>2, <3>1, PotsAfterStore
  <2>7. Owners' = Owners /\ OpenPots' = OpenPots
    BY <2>1, <2>2, OwnersAfterStore DEF OpenPots
  <2>8. Owners[p] = from /\ p \in DOMAIN Owners /\ amount \in 1..Wallets[from]
    BY <1>0, <2>1, <2>3 DEF Owners
  <2>9. Ledger!Deposit(p, amount)
    BY <2>1, <2>5, <2>6, <2>7, <2>8 DEF Ledger!Deposit, Wallets, Owners, OpenPots
  <2> QED BY <2>3, <2>8, <2>9
<1>5. ASSUME NEW p \in ProgramId, NEW user, NEW pr, NEW payout, Pays(p, user, pr, payout)
      PROVE  \E h \in Address, job \in PrNumber : \E a \in 1..Escrows[p] :
                Ledger!Award(p, h, job, a)
  <2> DEFINE payee == contributors[<<p, user>>]
  <2>1. /\ p \in DOMAIN programs /\ programs[p].status = "Active"
        /\ payout \in Nat \ {0} /\ payout <= programs[p].escrow_balance
        /\ pr \in PrNumber /\ <<p, pr>> \notin processed
        /\ <<p, user>> \in DOMAIN contributors
        /\ programs' = Stored(programs, p, Debited(p, payout))
        /\ balances' = Transferred(Contract, payee, payout)
        /\ processed' = processed \cup {<<p, pr>>}
    BY <1>5 DEF Pays
  <2>2. /\ Debited(p, payout).escrow_balance = programs[p].escrow_balance - payout
        /\ Debited(p, payout).maintainer = programs[p].maintainer
        /\ Debited(p, payout).status = "Active"
    BY <2>1 DEF TypeOK, Program, Debited
  <2>3. /\ EscrowOf(p) = programs[p].escrow_balance /\ EscrowOf(p) \in Nat
        /\ Liabilities' = Liabilities - EscrowOf(p) + Debited(p, payout).escrow_balance
    BY <2>1, LiabilitiesStored
  <2>4. Liabilities' = Liabilities - payout
    BY <1>0, <2>1, <2>2, <2>3
  <2>5. payee \in Address
    BY <2>1, EscrowAssumption DEF TypeOK
  <2>6. Wallets' = [Wallets EXCEPT ![payee] = @ + payout]
    BY <2>1, <2>4, <2>5, WalletsAfterPayment
  <2>7. Escrows[p] = programs[p].escrow_balance /\ payout \in 1..Escrows[p]
    BY <2>1, <2>3 DEF Escrows
  <2>8. Escrows' = [Escrows EXCEPT ![p] = @ - payout]
    BY <2>1, <2>2, <2>7, PotsAfterStore
  <2>9. Owners' = Owners /\ OpenPots' = OpenPots /\ p \in OpenPots
    BY <2>1, <2>2, OwnersAfterStore DEF OpenPots
  <2>10. Ledger!Award(p, payee, pr, payout)
    BY <2>1, <2>6, <2>7, <2>8, <2>9 DEF Ledger!Award, Wallets, Owners, OpenPots
  <2> QED BY <2>1, <2>5, <2>7, <2>10
<1>6. ASSUME NEW p \in ProgramId, NEW status, NEW reward, Adjusts(p, status, reward)
      PROVE  Ledger!Close(p) \/ Ledger!Reopen(p)
  <2> DEFINE program == [programs[p] EXCEPT !.status = status, !.reward_per_point = reward]
  <2>1. /\ p \in DOMAIN programs /\ programs' = Stored(programs, p, program)
        /\ status \in {"Active", "Paused"} /\ UNCHANGED <<balances, processed>>
    BY <1>6 DEF Adjusts
  <2>2. /\ program.escrow_balance = programs[p].escrow_balance
        /\ program.maintainer = programs[p].maintainer /\ program.status = status
    BY <2>1 DEF TypeOK, Program
  <2> HIDE DEF program
  <2>3. Escrows' = Escrows
    BY <2>1, <2>2 DEF Escrows, EscrowOf, Stored
  <2>4. Wallets' = Wallets
    BY <2>1, <2>3 DEF Wallets, Liabilities
  <2>5. /\ Owners' = Owners /\ p \in DOMAIN Owners
        /\ OpenPots' = IF status = "Active" THEN OpenPots \cup {p} ELSE OpenPots \ {p}
    BY <2>1, <2>2, OwnersAfterStore DEF Owners
  <2> QED BY <2>1, <2>3, <2>4, <2>5
          DEF Ledger!Close, Ledger!Reopen, Wallets, Owners, OpenPots
<1>7. ASSUME NEW p \in ProgramId, Refunds(p) PROVE Ledger!Refund(p)
  <2> DEFINE owner == programs[p].maintainer
             amount == programs[p].escrow_balance
  <2>1. /\ p \in DOMAIN programs /\ programs[p].status = "Paused"
        /\ programs' = Stored(programs, p, Drained(p))
        /\ balances' = Transferred(Contract, owner, amount)
        /\ UNCHANGED processed
    BY <1>7 DEF Refunds
  <2>2. /\ Drained(p).escrow_balance = 0 /\ Drained(p).maintainer = owner
        /\ Drained(p).status = "Paused"
    BY <2>1 DEF TypeOK, Program, Drained
  <2>3. /\ EscrowOf(p) = amount /\ amount \in Nat /\ owner \in Address
        /\ Liabilities' = Liabilities - EscrowOf(p) + Drained(p).escrow_balance
    BY <2>1, LiabilitiesStored
  <2>4. Liabilities' = Liabilities - amount
    BY <1>0, <2>2, <2>3
  <2>5. Wallets' = [Wallets EXCEPT ![owner] = @ + amount]
    BY <2>1, <2>3, <2>4, WalletsAfterPayment
  <2>6. Escrows[p] = amount
    BY <2>3 DEF Escrows
  <2>7. Escrows' = [Escrows EXCEPT ![p] = 0]
    BY <2>1, <2>2, PotsAfterStore
  <2>8. /\ Owners' = Owners /\ OpenPots' = OpenPots
        /\ p \in DOMAIN Owners \ OpenPots /\ Owners[p] = owner
    BY <2>1, <2>2, OwnersAfterStore DEF OpenPots, Owners
  <2> QED BY <2>1, <2>5, <2>6, <2>7, <2>8 DEF Ledger!Refund, Wallets, Owners, OpenPots
<1>8. ASSUME NEW from \in Signer, NEW to \in Address, NEW amount \in Nat,
             Moves(from, to, amount)
      PROVE  \E h, g \in Address : \E a \in 1..Wallets[h] : Ledger!Pay(h, g, a)
  <2>1. /\ amount \in Nat \ {0} /\ from # to /\ amount <= balances[from]
        /\ from \in Address \ {Contract}
        /\ balances' = Transferred(from, to, amount)
        /\ UNCHANGED <<programs, processed>>
    BY <1>8 DEF Moves, CanTransfer, Signer, storage
  <2>2. Escrows' = Escrows /\ Owners' = Owners /\ OpenPots' = OpenPots
    BY <2>1 DEF Escrows, EscrowOf, Owners, OpenPots
  <2>3. Liabilities' = Liabilities
    BY <2>2 DEF Liabilities
  <2>4. \A a \in Address :
           Wallets'[a] = Wallets[a] - (IF a = from THEN amount ELSE 0)
                                    + (IF a = to THEN amount ELSE 0)
    <3>1. \A a \in Address : Wallets[a] \in Int
      BY WalletsAt DEF WalletsOK
    <3> QED BY <1>0, <2>1, <2>3, <3>1, WalletsAfterTransfer
  <2>5. Wallets \in [Address -> Int] /\ Wallets' \in [Address -> Int]
    BY WalletsAt DEF WalletsOK
  <2>6. Wallets' = [Wallets EXCEPT ![from] = @ - amount, ![to] = @ + amount]
    <3> HIDE DEF Wallets
    <3> QED BY <2>1, <2>4, <2>5
  <2>7. amount \in 1..Wallets[from]
    BY <1>0, <2>1
  <2>8. Ledger!Pay(from, to, amount)
    BY <2>1, <2>2, <2>6, <2>7 DEF Ledger!Pay, Wallets, Owners, OpenPots
  <2> QED BY <2>1, <2>7, <2>8
<1>9. ASSUME NEW p, NEW program, Creates(p, program) PROVE p \in ProgramId
  BY <1>9 DEF Creates
<1> HIDE DEF abstract
<1> QED BY <1>1, <1>2, <1>3, <1>4, <1>5, <1>6, <1>7, <1>8, <1>9
        DEF Effect, Quiet, Registers, Ledger!Next, Wallets

(* A deployed contract is a treasury: for all ids, amounts, pauses, refills *)
(* and payees (the contract among them), tokens move between wallets and   *)
(* pots as the treasury allows, and none is created or lost.               *)
THEOREM ImplementsTreasury == DeployedSpec => TreasuryImplemented
<1>1. TypeOK /\ TypeOK' /\ IdsAllotted /\ Solvent /\ [Next]_vars
          => [Ledger!Next]_Ledger!tvars
  BY StepEffect, LedgerStep
<1> QED BY <1>1, LedgerInit, TypeCorrect, IdsAlwaysAllotted, StaysSolvent, PTL
        DEF DeployedSpec, TreasuryImplemented, Ledger!Spec

=============================================================================
