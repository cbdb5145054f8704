--------------------------- MODULE MCAgentSupervisor ---------------------------
(* Small instances of AgentSupervisor for TLC. *)
EXTENDS AgentSupervisor, TLC

CONSTANTS lead, scout, root

(* A child of the root that delegates to a descendant of its own.              *)
Tree == (lead :> root) @@ (scout :> lead)

(* Two children of the root. *)
Siblings == (lead :> root) @@ (scout :> root)

(* A child that delegates is not followed up, and one that was followed up does *)
(* not delegate: the orders of both together are too many.                     *)
DelegatesOrReopens ==
    Present(scout) => /\ \A a \in Agents : agent[a].gen = 0
                      /\ \A f \in Followers : follower[f] = NoAgent

(* Nobody is followed up while the task of an earlier turn has still to leave. *)
FollowUpsAreFresh == ~StaleFollowup
=============================================================================
