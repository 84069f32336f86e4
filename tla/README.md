# WaveFlow: TLA+ specifications and proofs

WaveFlow pays contributors for merged pull requests. A maintainer funds a
program in an escrow contract on Soroban; a gateway turns GitHub's webhooks
into `record_merge` calls and keeps a Postgres record; a REST API administers
that record. This directory holds the specifications of these parts, the TLC
configurations that check them and the proofs about them.

## Inventory

| Part | State | Operations | Interacts with |
|------|-------|------------|----------------|
| Escrow contract `contracts/waveflow-escrow` | instance storage (admin, gateway, token, id counter); persistent `Program`, `Contributor`, `ProcessedPr` | `initialize`, `create_program`, `fund`, `register_contributor`, `record_merge`, `pause`, `resume`, `set_ratio`, `withdraw_remaining`, getters | the token contract (`transfer`), events read by indexers |
| Gateway `crates/gateway` | none of its own: every request is a tokio task over Postgres | `github_webhook`, `process_merge`, `/health`, `/ready`, `/metrics` | GitHub (deliveries), Postgres, Soroban RPC (a stub that always succeeds) |
| REST API `crates/api` | none of its own | admin: create, pause, resume, ratio, register; public reads | Postgres |
| Postgres `migrations` | `programs`, `contributors`, `payouts`, `webhook_events` and their unique indexes | statements of the two services | gateway, API |
| Shared crate `crates/shared` | - | validators, error to status code, configuration | both services |
| Deployment, CI, Docker | - | - | - |

What makes each part correct:

- *Contract*: the shared token balance covers all escrows; a pull request pays
  once; a cap bounds what is paid; escrow leaves only to a registered payee or,
  paused, to the maintainer; ids and registrations are permanent.
- *Gateway*: a delivery id reaches the chain once; a payout row stands for an
  attested merge; acknowledged means paid; the running total counts each payout
  once; a merge that can be paid is paid.
- *API*: its changes may come between any two queries of the gateway; the lists
  it answers with, read one after the other, account for each other.
- *The whole*: the database reports only payments the contract made, and without
  failures all of them, although the two sides keep their own status, ratio and
  registrations.
- *Shared crate*: the slugs, keys, headers and numbers taken from outside mean
  the same everywhere they are used.

What is hard: a contract call is atomic, so there the difficulty is long
sequences of legal calls (late `initialize`, refills, pauses, self-payment).
In the gateway it is interleaving: eight to ten queries per merge, none in a
transaction, against concurrent deliveries of the same merge, redeliveries,
failed queries and dropped handlers. `PROJECT.json` lists every hazard with its
line and the properties that watch it.

## Modules

| Module | Models |
|--------|--------|
| `Escrow` | the contract, the token ledger it uses, totals of the published events |
| `Treasury` | what the contract promises: pots of money with owners |
| `MCEscrow` | instances of `Escrow` for TLC |
| `SumsProof` | the sum of a function over a finite set, as the community modules define it |
| `EscrowProof` | theorems that hold from deployment on (`Spec`) and from `initialize` on (`DeployedSpec`) |
| `DeployedEscrowProof` | theorems that need `initialize` to come first |
| `Store` | the Postgres tables and the constraints an INSERT can violate |
| `AdminApi` | the mutating routes over `Store` |
| `Gateway` | the webhook handlers over `Store`, concurrent with `AdminApi` |
| `ReadApi` | the read routes over `Gateway`, as a dashboard uses them |
| `Payroll` | what the system promises about a merge: paid once, recorded once paid |
| `WaveFlow` | `Gateway` and `AdminApi` next to an instance of `Escrow` |
| `System` | `WaveFlow` with the dashboard of `ReadApi` reading beside it |
| `Validation` | slugs, admin keys, signature header, number conversions |
| `GatewayProof` | theorems about the webhook handlers |
| `SpendingProof` | theorems about `milestone_spent`, in the database and on a dashboard |
| `WaveFlowProof` | theorems about gateway, database and contract together |
| `SystemProof` | theorems about the contract, the books and the dashboard in the whole system |
| `ValidationProof` | theorems about the operators of `Validation` |
| `Deliveries` | the deliveries of the TLC instances |
| `MCGateway`, `MCWaveFlow`, `MCSystem`, `MCValidation` | instances for TLC |

### Escrow

`instance`, `counter`, `programs`, `contributors` and `processed` are the
`DataKey`s of `storage.rs`; an absent key is outside the domain of the map.
`balances` is the token contract's ledger. `events` keeps, per program, the sum
of the `FundedEvent` amounts, the sum of the `MergeRecordedEvent` payouts and
their number. `result` is the outcome the last caller saw.

A call may name any id up to `MaxPrograms`, whether a program has it or not, and
0, which stands for every id that no program ever gets (`AnyId`). Each entry
point is one action, since Soroban commits or rolls back a whole
invocation. Its checks are an operator (`FundCheck`, `RecordMergeCheck`, ...)
that returns the first error in the code's order; an error changes only
`result`. A transfer the token contract refuses traps, which rolls back as well
(`HostError`). `require_auth` is the caller argument. Two bounds are in the
guards: `MaxPrograms` ids and `MaxFunded` deposited into one program.

`Spec` starts with the storage a deployment leaves; `DeployedSpec` starts
after `initialize`, as the contract's tests do.

Repository slugs and usernames are `Symbol`s in the contract. A real Soroban
`Symbol` has no `/` or `-`, whereas `validate_repo` wants a `/` and the tests
use such symbols; the model takes the tests' view, with `ValidRepo` the set of
symbols that pass.

### Treasury

A pot belongs to an owner, pays each job once while open, and is refunded whole
to its owner while closed. `Escrow!Ledger` maps a program's `escrow_balance` to
a pot, its maintainer to the owner, `processed` to the settled jobs and each
token balance to a wallet. The wallet of the contract itself is its balance
less the liabilities: what direct transfers and payouts to the contract itself
have stranded there. Steps that only change a ratio, a registration or
`result` are stuttering steps of the treasury.

### Store, AdminApi, Gateway

A row of `programs` is keyed by its unique, immutable `github_repo`, which
stands for the UUID too. A request of the API is one action when it succeeds;
`register_contributor` reads the program and then inserts, but no program is
ever deleted, so nothing can come between.

A worker of `Gateway` is a request being handled. `jobs[w].pc` names the query
it does next: `seen`, `claim`, `resolve`, `status`, `exists`, `contributor`,
`submit`, `price`, `payout`, `spent`, `audit`, or one of the best-effort audit
rows `reject`, `ignore`, `fail`. An action is that query and what the code does
up to the next one, because a tokio task gives up control only at an await and
shares nothing but the tables. A failed query may or may not have been executed
(the answer may be lost), and `drop` ends a handler at any await: axum drops the
future of a closed connection, and a crash drops all of them. Both count
against `MaxFaults`. GitHub may send each delivery up to `MaxSends` times and
nothing orders the deliveries. Whether the signature verifies is an input.

In `Gateway`, `submit_attestation` always succeeds and changes no chain state:
that is what the code does, with and without a configured contract.

### ReadApi

`page` is what a dashboard shows: the programs of its last `list_programs` or
`get_program`, then the payouts and the contributors of one of them. Each route
is one SELECT (`list_contributors` looks the program up first, but programs are
never deleted), so each answer is true when it is made; the handlers of
`Gateway` go on between two answers. A new list of programs starts a new page.

### WaveFlow and Payroll

The contract is `INSTANCE Escrow` with `chain_programs` and `chain_contributors`
for its maps, from `InitDeployed` on. Its maintainers call it whenever they
like (`maintain`); the admins change the database whenever they like
(`AdminNext`): no code keeps the two in step, so their statuses, ratios and
registrations drift apart freely. The two sides meet in `submit` alone. There
the placeholder of `submit_attestation` is replaced as
`docs/gateway/chain-submission-modes.md` foresees, by a `record_merge`
transaction of the gateway's key that carries the `AttestationRequest`; the code
goes on with `Ok` and returns any error (`?`), a 500 of kind `Chain`. This client
is not in the repository and is marked external. Its answer may be lost, the
transaction executed or not, and the handler may be dropped while it waits:
each counts as a fault. The other actions are those of `Gateway` (`Serve`).

`Payroll` has two sets of merges: `paid`, mapped to the contract's `processed`,
and `recorded`, mapped to the payout rows by on-chain id. A merge is recorded
only after it is paid, and neither is undone.

### System

`System` puts the two compositions over `Gateway` together: a step is one of
`WaveFlow`, or an answer to the dashboard (`Browse`), which changes nothing but
`page`. A program row shows its `on_chain_program_id`, so a reader may look the
payouts it lists up on chain; whether that works is the property of this module.

### Validation

The state is an input: a text that grows by a character, or a number that counts
up. The operators are the code's functions on it, and the properties compare
them with each other or with a definition that does not compute the same way:
`KeysAsWritten` finds the keys by their positions in the variable,
`SignatureVerdict` by encoding the digest instead of decoding the header.
`MaxI64` is `i64::MAX` whatever the width of an integer; a `u64` wraps at
`2 * (MaxI64 + 1)`.

## Runs

Passing:

| Run | Question | Bounds |
|-----|----------|--------|
| `escrow_one` | one program under every entry point, valid and refused arguments: who is paid, how often, up to which cap; refinement of `Treasury` | 4 addresses, payees include the contract, 2 pull requests, points and amounts 1 and 2, i128 maximum 3, deposits up to 2, cap 1 or none |
| `escrow_two` | two programs on one token balance | 2 programs, 1 pull request each, amounts of 1 |
| `escrow_fresh` | calls before `initialize` | 2 programs, from `Spec`, points and amounts 0 and 1 |
| `gateway_faults` | concurrent deliveries of one merge, with and without id, during ratio changes, pauses and registration, with failing queries and dropped handlers | 2 workers, each delivery sent twice, 2 ratios, 2 faults |
| `gateway_live` | is an eligible merge paid? | 2 workers, 4 deliveries (2 of one merge, one of another, one that does not parse), no fault |
| `waveflow` | does the database report what the contract paid? | 2 workers, 2 deliveries of one merge, 2 ratios on either side, deposits of 2, 2 faults |
| `system` | is only an attested merge paid, does what a dashboard lists account for itself, and did the escrow it names pay it? | 1 worker, 3 deliveries (2 merges, one closed unmerged), 2 wallets, on-chain ids with and without a program, no fault |
| `validation` | every text of up to 5 characters over 8, every `u64` | digest of one byte, `i64::MAX` of 7 |

Why these bounds are enough to be interesting: two programs are what it takes
for one to spend the other's money; two pull requests and points up to 2 reach
the cap exactly, one short and one over; the i128 maximum of 3 makes sums
overflow while the supply of 4 makes the token contract refuse a transfer; two
workers and two sends give every race of a delivery with its copy, and of two
deliveries of one merge; two faults let one hit the look-up of an id and the
other its claim, or a submission and what follows it; two ratios and deposits of
2 let the contract refuse, pay and be refunded while the database holds another
ratio; five characters fit two keys with blanks or an empty entry between them,
a slug with a name on either side, and a header with one byte too many.

What they check:

- `Solvent`, `OnePayoutPerPr`, `MilestoneRespected`, `AuditableBalance`,
  `OutflowAccounted`, `ProgramIdentityStable`, `RecordsPermanent`,
  `TreasuryImplemented` for the contract;
- `SubmittedOncePerDelivery`, `PaidWasAttested`, `AcknowledgedIsPaid`,
  `SpentReconciles` (the running total never exceeds the payouts and, without
  faults, equals them up to what a handler is about to add) and the liveness
  property `MergePaid` for the gateway;
- `SpentIsListed` and `WalletIsListed` for a dashboard: the order in which the
  gateway writes and the dashboard reads keeps the lists consistent (checked in
  `system`, where submissions may be refused; `SpendingProof` proves them for
  `ReadSpec` as well, where they cannot);
- `PayrollImplemented`, `PaymentsRecorded`, `PaymentInHand` and
  `AuditReconciles` for the system: the database never claims a payment that
  was not made, a pause or a ratio change after the submission cannot keep a
  payment out of it, and of racing handlers the contract lets one through; the
  audit of `docs/operations/monitoring.md`, rows against announced payments,
  never finds a row too many, and without faults none missing;
- `ListedIsPaid` for the reader of a dashboard who looks a payout up on chain;
- `SlugsAgree`, `KeysAsWritten`, `ReadyMeansConfigured`, `SignatureVerdict`,
  `PayoutFound`, `ProgramIdKept` for what comes from outside.

Each property is stated and explained where it is defined, and has a faulty
variant of the code (an operator `Mutant...`) that violates it.

Violated, each a disagreement between the code and what a document says of it:

| Run | What happens |
|-----|--------------|
| `escrow_counter` | `create_program` works before `initialize`, which then sets the "monotonic" id counter back to 0: the next program overwrites the first |
| `escrow_indexer` | `withdraw_remaining` publishes no event |
| `gateway_answer` | the audit row that ends `process_merge` repeats the claimed delivery id, so a payout for a delivery with an id is answered with 500 |
| `gateway_total` | payout row and running total are two statements; a failure in between is never repaired |

Disagreements seen in the code that have no run of their own:
`create_program` is open to any maintainer, while
`docs/contracts/initialize-and-roles.md` lists it as admin-only; the index that
causes `gateway_answer` also keeps out the `ignored` and `failed` rows of
`docs/PRD.md` (AC-F3.3) and `docs/database/webhook-events-audit.md`; a replay of
a paid pull request gets 200, not the 409 of `docs/gateway/idempotency-layers.md`;
the gateway never reads `milestone_cap`; `docs/database/postgres-chain-state-drift.md`
says that the gateway does not update `milestone_spent`, which it does;
`validate_github_repo` has no limit of 100 characters; the id of a delivery that
failed stays claimed, so its redelivery gets 200 `duplicate_delivery` and is never
paid, while `docs/PRD.md` (AC-F3.4) acknowledges a replay "after first success";
a payment whose answer or payout row is lost is not recorded by any
redelivery, since `record_merge` refuses the second with `PrAlreadyProcessed`
and the answer is 500, while `docs/PRD.md` (section 8) wants a check of the
state on chain before a retry; `docs/api/middleware-and-limits.md` names the
header `X-Admin-Api-Key`, `middleware.rs:29` reads `x-api-key`; line 1 of
`migrations/001_init.sql` begins with `#`, which is no SQL comment.

### Fairness

`FairSpec` has weak fairness of `Handle(w)` for each worker: the runtime polls
every task that can go on, and a query returns or fails (sqlx times out). It
asks nothing of GitHub, of the admins, or of `drop`. `MergePaid` is checked
with `MaxFaults = 0`: after a fault nothing in the code tries again.

No run switches the deadlock check off.

## Proofs

`tlapm` checks them for every value of the constants. Every safety invariant
and action property that a passing run checks is a theorem, and so are both
refinements.

| Theorem | States |
|---------|--------|
| `EscrowProof!TypeCorrect` | `TypeOK`, from deployment (`Spec`) and from `initialize` on (`DeployedSpec`) |
| `EscrowProof!PaysOnce`, `StaysSolvent`, `BalanceAuditable`, `RecordsKept` | the same for `OnePayoutPerPr`, `Solvent`, `AuditableBalance`, `RecordsPermanent` |
| `DeployedEscrowProof!IdentityKept`, `CapRespected`, `OutflowsAccounted` | `ProgramIdentityStable`, `MilestoneRespected`, `OutflowAccounted` of `DeployedSpec` |
| `DeployedEscrowProof!ImplementsTreasury` | `DeployedSpec` refines `Treasury` |
| `GatewayProof!GatewayTyped`, `SubmittedOnce`, `PaidAttested`, `AcknowledgedPaid` | `TypeOK`, `SubmittedOncePerDelivery`, `PaidWasAttested`, `AcknowledgedIsPaid` of `Gateway` |
| `SpendingProof!SpentReconciled` | `SpentReconciles` of `Gateway` |
| `SpendingProof!SpentListed`, `WalletListed` | `SpentIsListed`, `WalletIsListed` of `ReadApi` |
| `WaveFlowProof!PaymentsInHand`, `PaymentsReported` | `PaymentInHand`, `PaymentsRecorded` of `WaveFlow` |
| `WaveFlowProof!ImplementsPayroll` | `WaveFlow` refines `Payroll` |
| `WaveFlowProof!GatewayKept` | the guarantees of `Gateway` in `WaveFlow`, where the chain refuses submissions and answers are lost |
| `SystemProof!ContractKept` | the contract in `WaveFlow` behaves as `Escrow!DeployedSpec` says |
| `SystemProof!ContractSafe`, `ContractConduct`, `SystemIsTreasury` | so every invariant, every action property and the refinement of `Treasury` proved of a deployed contract hold in the system |
| `SystemProof!AuditHolds` | `AuditReconciles` of `WaveFlow` |
| `SystemProof!BooksKept` | `SpentReconciles` in `WaveFlow` |
| `SystemProof!ReadersObserve` | `System` refines `WaveFlow`, so all of this holds with readers |
| `SystemProof!ListedWasPaid`, `PageKept` | `ListedIsPaid` of `System`; `SpentIsListed` and `WalletIsListed` there |
| `ValidationProof!SlugRulesAgree`, `KeysWritten`, `ReadyIsConfigured`, `VerdictOnSignature`, `PayoutsFound`, `ProgramIdsKept` | the six properties of `Validation`, for texts of any length, any digest, any width of integers |

Assumptions, each named in the module that declares the constants and
evaluated by every run:

- `EscrowAssumption`: any sets of addresses, users and repositories; finitely
  many pull request numbers; integer arguments; a non-negative i128 maximum;
  token balances that fit it, none held by the contract at the start.
- `StoreAssumption`, `AdminAssumption`, `GatewayAssumption`: integer rewards and
  caps, finitely many repositories and pull request numbers, deliveries of the
  shape the handlers look at, one delivery per id. Workers may be infinitely many.
- `WaveFlowAssumption`: the constants of the composition satisfy
  `EscrowAssumption`, with the maintainers and the gateway's key as signers. So
  the theorems about the contract apply to it.
- `ReadAssumption`, `ValidationAssumption`: "not read" is no repository, the
  digest is a sequence of bytes.

The bounds of the runs (`MaxPrograms`, `MaxFunded`, `MaxSends`, `MaxFaults`,
`MaxLength`) are arbitrary natural numbers in the proofs.

### The contract

`TypeOK` is inductive; one lemma per entry point shows what its checks leave
true when they return `Ok`. `StepEffect` then sums up `Next`: every step that is
not quiet creates a program, funds one, registers, pays, adjusts, refunds or
moves tokens between holders, with exactly the change of each variable. The
other results are proved from these effects, not from the entry points.
`OnePayoutPerPr`, `Solvent` and `AuditableBalance` are inductive together with
`TypeOK`; for `Solvent`, `LiabilitiesAfterStore` says that storing one program
changes the liabilities by the change of its escrow, whatever their number.

A reused id would break what `DeployedEscrowProof` proves, so it needs a
strengthening, `IdsAllotted`: the ids in use are those up to the counter, every
id above it is untouched in `events`, and the contract is initialized, so that
`initialize` cannot reset the counter. It holds under `DeployedSpec` only; run
`escrow_counter` shows why.

For `ImplementsTreasury` each effect is mapped: creating opens a pot, funding is
a deposit, paying settles a job, withdrawing refunds a closed pot, pausing and
resuming close and reopen it, a token transfer between holders is a payment
between wallets, everything else a stutter.
`Solvent` is what makes the contract's own wallet, its balance less the
liabilities, a natural number; `IdsAllotted` is what makes a created pot new.

### The gateway

`Effect` sums up a step as `StepEffect` does for the contract, over thirteen
queries, requests, submissions, faults and the admin API: the tables only grow
(`Grown`), and a step administers, is the arrival of a delivery, goes on in one
handler, or submits. Each query is shown once to be one of these.

`GatewayInv` is the inductive invariant. None of its properties is inductive
alone:

- `HandlersOK` says what a handler has found out at each step (a merge, its
  program, the registration, the submission, the payout row). `PaidWasAttested`
  needs it when a row is written, `AcknowledgedIsPaid` when it is answered.
- `ClaimsOK` is what `SubmittedOncePerDelivery` needs: a delivery with an id
  that is past its claim has an audit row; one handler at most is between that
  claim and the submission, and then nothing was submitted yet. A failed claim
  whose row was written leaves the row and no handler, which the invariant allows.
- `AttestedOK` bounds the submissions of a delivery, with those its handlers may
  still make, by how often it was sent. It is a count, hence the finite-set
  lemmas, and it is what keeps `attested` in its type.
- `PayoutsOK` keeps payout rows with their programs.

`WaveFlowInv` adds to it what ties the two sides together. `Payment` says what a
step means for a merge: nothing, paid by a `record_merge` that is answered with
`Ok` or lost, or recorded by `persist_payout`. `PaymentInHand` is inductive
because `record_merge` pays no merge that is `processed`: a handler that gets
`Ok` is the only one that can hold it, and stays so until its row is written.
`RecordedIsPaid` and `NoneForgotten` follow the merge from there; `IdsUnique`
keeps `Recorded`, which goes by on-chain id, from confusing two programs.

### The sums

The liabilities of the contract are a sum over its programs, and
`SpentReconciles` compares two sums over rows and handlers. The community
modules define a sum by a fold that picks elements with CHOOSE, recursively.
`SumsProof` shows by induction that the recursion is defined and that the order
does not matter (`SumsAnyOrder`); what the other proofs cite is how a sum
changes with one element (`SumWith`, `SumWithout`) or one summand
(`SumUpdated`), and that it depends on nothing but the summands (`SumSame`).
The library's induction theorems take an operator parameter, so `SetInduction`
and `SubsetInduction` state the induction for a set instead.

`Booking` classifies a step: no payout is written or counted, one is written, or
one is counted. A handler counts the row it has just written; only a fault keeps
a written row from being counted.
`SpendingInv` adds to `GatewayInv` that finitely many handlers are about to count,
which is true of infinitely many workers because each step starts one at most.

`ReadInv` adds `PageOK`: what a page shows is in the tables, which have grown
since. A page that lists payouts did so after it showed the total; at that
moment `SpentReconciles` bounds the total, and a total never decreases.

### The whole system

`Deployed` is the same instance of the contract as `Escrow`, with its theorems.
`CallsContract` maps a step of `WaveFlow` to a step of the contract: a
maintainer's call and a submission are calls by one of its signers, a submission
that names an id without a program is refused as one that names 0 is, and every
other step leaves the contract alone. From there the theorems carry over.

A submission, answered or not, is balanced in the sense of `Booking`, so
`BooksStep` and `WritesBehind`, which ask no more of a step than its `Booking`
and `Effect`, apply to `WaveFlow` as they do to `Gateway`.

`AuditHolds` counts: a program's payout rows map one to one into the pull
requests the contract has processed for its id (`RecordedIsPaid`), onto them
when nothing is in the hands of a handler (`NoneForgotten`, and `IdsUnique` for
the way back); `OnePayoutPerPr` turns processed pull requests into announced
payments. `ListedIsPaid` joins `PageOK`, which says that a page shows a
program's on-chain id as it still is, to `RecordedIsPaid`.

### The validation

`SplitIs` says that the parts of a text are what stands in the gaps between two
neighbouring separators, `TrimIs` that trimming goes from the first to the last
character that is not blank. The two slug rules and the two definitions of a key
are then compared position by position; the verdict on a signature by bytes and
their two digits. Characters are words (`"slash"`, `"blank"`), which the SMT
backend can read, unlike the signs themselves.

### Only model-checked

- `MergePaid`, the liveness property, and the fairness it rests on: out of the
  prover's reach.
- The four violations: a counterexample on a small instance is the proof.

## Not modelled

- Getters of the contract, health, metrics: they change no state and nothing
  depends on them.
- Configuration other than the admin keys, and start-up: copied or run once, in
  order, before any request.
- Rate limits and body limits: tower layers, no state of the program's.
- `validate_stellar_address`: three tests of one string, a set of accepted
  addresses in `AdminApi`.
- The HMAC and JSON computations: their outcomes are inputs.
- Amounts near 2^63 and the errors they cause (`Internal`): a merge is one point,
  and a failing UPDATE is one of the faults.
- A retry inside the RPC client: it is not in the repository.
- Ledger archival (TTL): an archived entry cannot be read as absent.

## Plan

Done: all modules of the table above, with every safety and action property of
the passing runs proved, all refinements, and the guarantees of the parts
carried over to the whole.

Left: what of `TreasuryImplemented` and `IdsAllotted` survives a late
`initialize`, under the hypothesis that no program was created before it. The
conservation of money is not stated: `balances` is the ledger of a token
contract that is not in the repository, and a transfer conserves it by
definition; `Solvent` and `TreasuryImplemented` say what the escrow contract
itself has to keep.
