------------------------------ MODULE AdminApi ------------------------------
(***************************************************************************)
(* The mutating routes of the REST API (crates/api/src/routes/admin.rs),   *)
(* behind require_admin_key.  A request that is refused (missing key,      *)
(* validation, constraint, no row updated, database error) changes no      *)
(* table and is a stuttering step here; each action is the request that    *)
(* succeeds.                                                               *)
(***************************************************************************)
EXTENDS Store

CONSTANTS
    ValidRepo,    \* the slugs validate_github_repo accepts
    ValidAccount, \* the addresses validate_stellar_address accepts
    AdminKey      \* has the caller one of API_ADMIN_KEYS?

ASSUME AdminAssumption == ValidAccount \subseteq Account

require_admin_key == AdminKey

create_program(repo, on_chain_id, maintainer, reward, cap) ==
    /\ require_admin_key
    /\ repo \in ValidRepo /\ reward > 0 /\ maintainer \in ValidAccount
    /\ ~ProgramConflict(repo, on_chain_id)
    /\ programs' = Inserted(programs, repo,
          [on_chain_program_id |-> on_chain_id, reward_per_point |-> reward,
           escrow_balance |-> 0, milestone_cap |-> cap, milestone_spent |-> 0,
           status |-> "active"])
    /\ UNCHANGED <<contributors, payouts, webhook_events>>

SwitchStatus(repo, from, to) ==
    /\ require_admin_key
    /\ repo \in DOMAIN programs /\ programs[repo].status = from
    /\ programs' = [programs EXCEPT ![repo].status = to]
    /\ UNCHANGED <<contributors, payouts, webhook_events>>

pause_program(repo) == SwitchStatus(repo, "active", "paused")
resume_program(repo) == SwitchStatus(repo, "paused", "active")

update_ratio(repo, reward) ==
    /\ require_admin_key
    /\ reward > 0 /\ repo \in DOMAIN programs
    /\ programs' = [programs EXCEPT ![repo].reward_per_point = reward]
    /\ UNCHANGED <<contributors, payouts, webhook_events>>

(* The program is looked up before the INSERT; as program rows are never   *)
(* deleted, nothing can come between the two.                              *)
register_contributor(repo, user, account) ==
    /\ require_admin_key
    /\ account \in ValidAccount
    /\ repo \in DOMAIN programs
    /\ ~ContributorConflict(repo, user)
    /\ contributors' = Inserted(contributors, <<repo, user>>, account)
    /\ UNCHANGED <<programs, payouts, webhook_events>>

AdminNext ==
    \E repo \in Repo :
        \/ \E on_chain_id \in OnChainId, maintainer \in Account, reward \in Reward,
              cap \in Cap \cup {NoCap} :
               create_program(repo, on_chain_id, maintainer, reward, cap)
        \/ pause_program(repo)
        \/ resume_program(repo)
        \/ \E reward \in Reward : update_ratio(repo, reward)
        \/ \E user \in User, account \in Account : register_contributor(repo, user, account)

=============================================================================
