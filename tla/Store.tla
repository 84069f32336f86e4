------------------------------- MODULE Store -------------------------------
(***************************************************************************)
(* The Postgres tables that the gateway and the REST API share             *)
(* (migrations/001_init.sql, 002_webhook_delivery_id.sql).                 *)
(*                                                                         *)
(* A program row is keyed by its github_repo, which is UNIQUE and never    *)
(* updated; it stands for the row's UUID too.  Rows are never deleted.     *)
(* Columns no handler reads back (timestamps, payloads, maintainer_address,*)
(* tx_hash, points) are left out.  Amounts stay far below 2^63, and pull   *)
(* request numbers and on-chain ids fit an i64.                            *)
(*                                                                         *)
(* Operators named Mutant... are faulty variants of the operator after     *)
(* them; no action uses them.                                              *)
(***************************************************************************)
EXTENDS Integers, FiniteSets

CONSTANTS
    Repo,         \* github_repo slugs
    OnChainId,    \* on_chain_program_id values
    Account,      \* stellar_address values
    User,         \* github_username values (not empty)
    PrNumber,     \* pull request numbers
    Reward,       \* reward_per_point values (BIGINT)
    Cap, NoCap,   \* milestone_cap values, and NULL
    Delivery,     \* the webhook deliveries GitHub may send: records, see Gateway
    NoId          \* no x-github-delivery header: delivery_id IS NULL

ASSUME StoreAssumption ==
    /\ Reward \subseteq Int /\ Cap \subseteq Int /\ NoCap \notin Int
    /\ IsFiniteSet(Repo \X PrNumber)

VARIABLES
    programs,      \* Repo -> row
    contributors,  \* <<Repo, User>> -> stellar_address
    payouts,       \* <<Repo, PrNumber>> -> row
    webhook_events \* the audit rows

tables == <<programs, contributors, payouts, webhook_events>>

ProgramRow == [on_chain_program_id: OnChainId, reward_per_point: {r \in Reward : r > 0},
               escrow_balance: Nat, milestone_cap: Cap \cup {NoCap},
               milestone_spent: Nat, status: {"active", "paused"}]
PayoutRow == [stellar_address: Account, amount: Nat \ {0}]
EventStatus == {"processing", "processed", "ignored", "failed", "rejected"}
EventRow == [delivery: Delivery, status: EventStatus]

TablesOK ==
    /\ DOMAIN programs \subseteq Repo
    /\ programs \in [DOMAIN programs -> ProgramRow]
    /\ DOMAIN contributors \subseteq Repo \X User
    /\ contributors \in [DOMAIN contributors -> Account]
    /\ DOMAIN payouts \subseteq Repo \X PrNumber
    /\ payouts \in [DOMAIN payouts -> PayoutRow]
    /\ webhook_events \subseteq EventRow

EmptyTable == [key \in {} |-> key]

EmptyTables ==
    /\ programs = EmptyTable /\ contributors = EmptyTable /\ payouts = EmptyTable
    /\ webhook_events = {}

(* INSERT of a row under a new key. *)
Inserted(table, key, row) ==
    [k \in DOMAIN table \cup {key} |-> IF k = key THEN row ELSE table[k]]

(* The constraints an INSERT can violate. *)

ProgramConflict(repo, on_chain_id) ==
    \/ repo \in DOMAIN programs
    \/ \E r \in DOMAIN programs : programs[r].on_chain_program_id = on_chain_id

MutantUpsert(repo, user) == FALSE
ContributorConflict(repo, user) == <<repo, user>> \in DOMAIN contributors

MutantConflictByRepo(repo, pr) == \E key \in DOMAIN payouts : key[1] = repo
PayoutConflict(repo, pr) == <<repo, pr>> \in DOMAIN payouts

EventConflict(delivery) ==
    /\ delivery.id # NoId
    /\ \E row \in webhook_events : row.delivery.id = delivery.id

=============================================================================
