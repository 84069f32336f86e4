----------------------------- MODULE Deliveries -----------------------------
(* What GitHub delivers in the TLC instances. *)
EXTENDS Store

CONSTANTS org_repo, dev, Sent

Event(id, pr) ==
    [id |-> id, type |-> "pull_request", body |-> "pull_request",
     closed |-> TRUE, merged |-> TRUE, on_default_branch |-> TRUE,
     repo |-> org_repo, user |-> dev, pr |-> pr]

(* Two deliveries of one merge, the second without an id; another merge; a *)
(* pull request closed unmerged (other types of events are ignored the     *)
(* same way); and a pull request event whose body lacks its fields (one    *)
(* that is no JSON goes the same way).                                     *)
Catalogue ==
    [first |-> Event("first", 1),
     bare |-> Event(NoId, 1),
     next |-> Event("next", 2),
     closed |-> [Event(NoId, 1) EXCEPT !.merged = FALSE],
     odd |-> [Event("odd", 1) EXCEPT !.body = "json"]]

MCDelivery == {Catalogue[name] : name \in Sent}

=============================================================================
