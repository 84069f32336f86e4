------------------------------- MODULE System -------------------------------
(***************************************************************************)
(* The whole system as a contributor sees it: the gateway and the admin    *)
(* API write to Postgres and submit payments to the contract (WaveFlow)    *)
(* while a dashboard reads the same tables through the REST API (ReadApi). *)
(***************************************************************************)
EXTENDS WaveFlow, ReadApi

svars == <<wvars, page>>

SystemInit == WaveFlowInit /\ NothingRead

SystemNext ==
    \/ WaveFlowNext /\ UNCHANGED page
    \/ Browse /\ UNCHANGED chain

SystemSpec == SystemInit /\ [][SystemNext]_svars

-----------------------------------------------------------------------------
(* Every payout a dashboard lists under a program was paid by the escrow   *)
(* the dashboard shows for that program (on_chain_program_id), however the *)
(* handlers, the maintainers and the reader interleave: a row is written   *)
(* only after the contract's answer, and names the program that was asked. *)
ListedIsPaid ==
    page.payouts # NotRead =>
        \A key \in DOMAIN page.payouts :
            <<page.programs[page.repo].on_chain_program_id, key[2]>> \in processed

=============================================================================
