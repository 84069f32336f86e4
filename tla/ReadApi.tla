------------------------------ MODULE ReadApi ------------------------------
(***************************************************************************)
(* The read routes of the REST API (crates/api/src/routes/mod.rs), used    *)
(* while the gateway and the admin API write: a dashboard asks for the     *)
(* programs, then for the payouts and the contributors of one of them.     *)
(* Each answer is one SELECT, so it is true when it is made, but nothing   *)
(* holds the three answers together.                                       *)
(*                                                                         *)
(* A request for an id that names no program is answered with 404, or with *)
(* an empty list (list_payouts), and tells the dashboard nothing.          *)
(***************************************************************************)
EXTENDS Gateway

CONSTANT NotRead  \* a list the dashboard has not asked for yet

ASSUME ReadAssumption == NotRead \notin Repo

VARIABLE page     \* what the dashboard shows: the last answers it got

rvars == <<gvars, page>>

ProgramStatus == [active |-> "Active", paused |-> "Paused"]

(* The rows a route answers with, by their keys. *)
OfProgram(table, repo) == [key \in {k \in DOMAIN table : k[1] = repo} |-> table[key]]

into_record(row) == [row EXCEPT !.status = ProgramStatus[@]]

Show(repos) ==
    page' = [programs |-> [repo \in repos |-> into_record(programs[repo])],
             repo |-> NotRead, payouts |-> NotRead, contributors |-> NotRead]

list_programs == Show(DOMAIN programs) /\ UNCHANGED gvars

get_program(repo) ==
    /\ repo \in DOMAIN programs
    /\ Show({repo})
    /\ UNCHANGED gvars

(* Of the payouts only the newest, as a page size of one would give. *)
MutantNewestOnly(repo) ==
    /\ repo \in DOMAIN page.programs
    /\ \E keys \in SUBSET DOMAIN OfProgram(payouts, repo) :
          /\ Cardinality(keys) = IF OfProgram(payouts, repo) = EmptyTable THEN 0 ELSE 1
          /\ page' = [page EXCEPT !.repo = repo, !.contributors = NotRead,
                                  !.payouts = [key \in keys |-> payouts[key]]]
    /\ UNCHANGED gvars
list_payouts(repo) ==
    /\ repo \in DOMAIN page.programs
    /\ page' = [page EXCEPT !.repo = repo, !.contributors = NotRead,
                            !.payouts = OfProgram(payouts, repo)]
    /\ UNCHANGED gvars

list_contributors ==
    /\ page.repo \in DOMAIN programs
    /\ page' = [page EXCEPT !.contributors = OfProgram(contributors, page.repo)]
    /\ UNCHANGED gvars

NothingRead ==
    page = [programs |-> EmptyTable, repo |-> NotRead,
            payouts |-> NotRead, contributors |-> NotRead]

Browse ==
    \/ list_programs
    \/ \E repo \in Repo : get_program(repo) \/ list_payouts(repo)
    \/ list_contributors

ReadInit == Init /\ NothingRead

ReadNext ==
    \/ Next /\ UNCHANGED page
    \/ Browse

ReadSpec == ReadInit /\ [][ReadNext]_rvars

-----------------------------------------------------------------------------
Listed == SumFunction([key \in DOMAIN page.payouts |-> page.payouts[key].amount])

(* The payouts a dashboard lists account for the milestone_spent it shows, *)
(* although handlers pay between the two answers: a payout row is written  *)
(* before it is counted, and asked for after the count.                    *)
SpentIsListed ==
    page.payouts # NotRead => page.programs[page.repo].milestone_spent <= Listed

(* Every listed payout went to a wallet that the list of contributors,     *)
(* asked for afterwards, still names.                                      *)
WalletIsListed ==
    page.contributors # NotRead =>
        \A key \in DOMAIN page.payouts : \E c \in DOMAIN page.contributors :
            page.payouts[key].stellar_address = page.contributors[c]

=============================================================================
