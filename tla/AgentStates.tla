----------------------------- MODULE AgentStates ------------------------------
(***************************************************************************)
(* DispatchState of ovim-core/src/agent_runtime/dispatch.rs, and the moves    *)
(* between its values: what the scheduler enforces and the supervisor relies   *)
(* on.                                                                       *)
(***************************************************************************)

Waiting == {"WaitingForAgent", "WaitingForTool", "WaitingForUser"}
Terminal == {"Completed", "Interrupted", "Failed"}
Executing == {"Starting", "Running"} \cup Waiting
States == {"Created", "Queued"} \cup Executing \cup Terminal

ValidTransition(from, to) ==
    \/ from = "Created" /\ to \in {"Queued", "Interrupted", "Failed"}
    \/ from = "Queued" /\ to \in {"Starting", "Interrupted", "Failed"}
    \/ from = "Starting" /\ to \in {"Running", "Interrupted", "Failed"}
    \/ from = "Running" /\ to \in Waiting \cup Terminal
    \/ from \in Waiting /\ to \in {"Running"} \cup Terminal

HandoffStatuses == {"completed", "failed", "interrupted", "timed_out"}

TerminalStateFor(status) ==
    IF status = "completed" THEN "Completed"
    ELSE IF status = "failed" THEN "Failed" ELSE "Interrupted"
=============================================================================
