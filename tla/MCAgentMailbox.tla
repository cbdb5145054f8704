---------------------------- MODULE MCAgentMailbox ----------------------------
(* Two ended turns and two waiters: one takes whatever comes (wait), the other *)
(* waits for one child's result (wait_for_agent).                              *)
EXTENDS AgentMailbox, TLC

CONSTANTS r1, r2, all, one

AllOrOne == (all :> {r1, r2}) @@ (one :> {r2})
=============================================================================
