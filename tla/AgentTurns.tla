----------------------------- MODULE AgentTurns -----------------------------
(***************************************************************************)
(* What the run log promises about delegated work, without the scheduler,   *)
(* its memory, its failures or its restarts: an agent works in turns, every *)
(* turn has at most one result, a result is durable before the turn is      *)
(* settled with it, and the next turn is opened only after a result that    *)
(* was not a failure.  AgentScheduler implements this specification.        *)
(***************************************************************************)
EXTENDS Naturals

CONSTANTS Agents

VARIABLES
    turn,    \* the turn an agent is in, counted from 0
    status,  \* how far that turn is
    result   \* its result, once there is one

vars == <<turn, status, result>>

Results == {"completed", "failed", "interrupted", "timed_out"}

TypeOK ==
    /\ turn \in [Agents -> Nat]
    /\ status \in [Agents -> {"absent", "open", "reported", "settled", "reopening"}]
    /\ result \in [Agents -> Results \cup {"none"}]

Init ==
    /\ turn = [a \in Agents |-> 0]
    /\ status = [a \in Agents |-> "absent"]
    /\ result = [a \in Agents |-> "none"]

Become(a, n, s, r) ==
    /\ turn' = [turn EXCEPT ![a] = n]
    /\ status' = [status EXCEPT ![a] = s]
    /\ result' = [result EXCEPT ![a] = r]

Admit(a) == status[a] = "absent" /\ Become(a, 0, "open", "none")

(* The result of an open turn is recorded. *)
Report(a, r) == status[a] = "open" /\ Become(a, turn[a], "reported", r)

(* The turn ends with the result that was recorded, now or before. *)
Settle(a, r) ==
    /\ \/ status[a] = "open"
       \/ status[a] = "reported" /\ result[a] = r
    /\ Become(a, turn[a], "settled", r)

(* The next turn is authorized ... *)
Reopen(a) ==
    /\ status[a] = "settled"
    /\ result[a] # "failed"
    /\ \/ Become(a, turn[a] + 1, "reopening", "none")
       \/ Become(a, turn[a] + 1, "open", "none")

(* ... and starts, if it had not right away. *)
Resume(a) == status[a] = "reopening" /\ Become(a, turn[a], "open", "none")

Next ==
    \E a \in Agents :
        \/ Admit(a)
        \/ \E r \in Results : Report(a, r) \/ Settle(a, r)
        \/ Reopen(a)
        \/ Resume(a)

Spec == Init /\ [][Next]_vars
=============================================================================
