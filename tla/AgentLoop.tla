------------------------------ MODULE AgentLoop ------------------------------
(***************************************************************************)
(* The loop that drives one turn of a delegated child: AgentLoopRunner::    *)
(* run_inner and execute_tool_request of ovim-core/src/agent_runtime/       *)
(* loop_runner.rs, with the approvals its gated tools wait for:             *)
(* AgentApprovalBroker of agent_runtime/approval.rs.                        *)
(*                                                                          *)
(* Children share the root's budget, also with loops the module leaves out,  *)
(* and the run's broker.  The provider sends any event at any time, the user *)
(* answers an approval whenever it is pending, and the token of a child may  *)
(* be cancelled or its deadline pass at every await.  A step is what happens *)
(* between two awaits; the broker's operations hold its mutex across their  *)
(* append and are one step each.                                            *)
(***************************************************************************)
EXTENDS AgentStates, Integers, Sequences, FiniteSets

CONSTANTS
    Children,             \* the children of one root that run a loop
    MaxProviderEvents,    \* AgentLoopBudget.max_provider_events
    MaxToolCalls,         \* AgentLoopBudget.max_tool_calls
    RootEvents,           \* RootAgentBudget.max_provider_events
    RootToolCalls,        \* RootAgentBudget.max_tool_calls
    ApprovalTransitions,  \* the hooks take a child from a tool to the user and back
    MaxFaults             \* bound on appends that fail

ASSUME LoopAssumption ==
    /\ MaxProviderEvents \in Nat /\ MaxToolCalls \in Nat
    /\ RootEvents \in Nat /\ RootToolCalls \in Nat
    /\ ApprovalTransitions \in BOOLEAN
    /\ MaxFaults \in Nat

VARIABLES
    loop,       \* loop[c]: where the loop of c is and what it remembers
    ops,        \* ops[c]: the operations of c, as the run log has them
    root,       \* RootAgentBudget: provider events and tool calls reserved
    cancelled,  \* children whose AgentCancellationToken is set
    expired,    \* children whose deadline has passed
    faults,
    phase       \* "up", "down" after the process stopped, "reopened" since

vars == <<loop, ops, root, cancelled, expired, faults, phase>>
signals == <<cancelled, expired, phase>>

-----------------------------------------------------------------------------
(* State. *)

Tools == {"plain", "gated", "refused", "observed"}

(* refused: outside the child's view, or its arguments fail the schema.        *)
Requestable == Tools \ {"observed"}

Sources == {"none", "user", "policy", "timeout", "cancellation", "restart"}

Operation ==
    [tool : Tools,
     started : BOOLEAN,                                   \* ToolStarted
     closed : BOOLEAN,                                    \* ToolResult
     ask : {"none", "requested", "allowed", "denied"},    \* the approval's events
     source : Sources,                                    \* who resolved it
     rulings : 0..2]                                      \* AgentApprovalResolved events

Intent(tool) ==
    [tool |-> tool, started |-> FALSE, closed |-> FALSE, ask |-> "none",
     source |-> "none", rulings |-> 0]

Done == {"ended", "failed", "gone"}

Places == {"starting", "polling", "observing", "intended", "asking", "waiting", "approved",
           "executing", "recording", "submitting", "closing", "repairing"} \cup Done

Endings == HandoffStatuses \cup {"repair"}

LoopRecord ==
    [at : Places,
     state : States,             \* DispatchState, as the hooks have it
     events : Nat,               \* usage.provider_events
     calls : Nat,                \* usage.tool_calls
     observed : SUBSET (1..MaxProviderEvents),  \* observed_tools, not closed
     repaired : BOOLEAN,         \* handoff_repair_attempted
     ending : {"none"} \cup Endings]

TypeOK ==
    /\ loop \in [Children -> LoopRecord]
    /\ \A c \in Children : \A o \in DOMAIN ops[c] : ops[c][o] \in Operation
    /\ root \in [events : 0..RootEvents, calls : 0..RootToolCalls]
    /\ cancelled \subseteq Children /\ expired \subseteq Children
    /\ faults \in 0..MaxFaults
    /\ phase \in {"up", "down", "reopened"}

Init ==
    /\ loop = [c \in Children |->
                  [at |-> "starting", state |-> "Starting", events |-> 0, calls |-> 0,
                   observed |-> {}, repaired |-> FALSE, ending |-> "none"]]
    /\ ops = [c \in Children |-> <<>>]
    /\ root = [events |-> 0, calls |-> 0]
    /\ cancelled = {} /\ expired = {}
    /\ faults = 0
    /\ phase = "up"

-----------------------------------------------------------------------------
(* Steps of a loop. *)

Moves(c, to) == loop' = [loop EXCEPT ![c] = to]

Goes(c, place) == Moves(c, [loop[c] EXCEPT !.at = place])

(* Any error ends the loop with Err; what it had open stays open, and the      *)
(* supervisor closes the child conservatively.                                 *)
Fails(c) == Goes(c, "failed")

(* The operation of the request being served: the last one. *)
Current(c) == Len(ops[c])

Changes(c, o, op) == ops' = [ops EXCEPT ![c][o] = op]

(* AgentLoopRuntimeHooks::transition. The supervisor's hooks ask the scheduler, *)
(* which takes valid transitions only; the hooks of the loop's own tests take   *)
(* the two that an approval needs as well.                                      *)
Accepts(from, to) ==
    \/ ValidTransition(from, to)
    \/ /\ ApprovalTransitions
       /\ {from, to} = {"WaitingForTool", "WaitingForUser"}

Interrupted(c) == c \in cancelled \cup expired

(* provider.start, in a select with the token and the deadline. *)
Start(c) ==
    /\ loop[c].at = "starting"
    /\ \/ Moves(c, [loop[c] EXCEPT !.at = "polling", !.state = "Running"])
       \/ Fails(c)
    /\ UNCHANGED <<ops, root, signals, faults>>

(* A mistake for NothingOpenAtHandoff to catch: a handoff ends the loop at once. *)
ClosingAtOnce(c, ending, l) ==
    [l EXCEPT !.at = IF ending = "completed" THEN "ended" ELSE "closing", !.ending = ending]

(* Before the loop ends, close_observed_tools: the operations it knows the     *)
(* provider to be in are closed one by one.                                    *)
Closing(c, ending, l) == [l EXCEPT !.at = "closing", !.ending = ending]

CloseOne(c) ==
    /\ loop[c].at = "closing"
    /\ \E o \in loop[c].observed :
           /\ \A other \in loop[c].observed : o <= other
           /\ Changes(c, o, [ops[c][o] EXCEPT !.closed = TRUE])
           /\ Moves(c, [loop[c] EXCEPT !.observed = @ \ {o}])
    /\ UNCHANGED <<root, signals, faults>>

End(c) ==
    /\ loop[c].at = "closing"
    /\ loop[c].observed = {}
    /\ Goes(c, IF loop[c].ending = "repair" THEN "repairing" ELSE "ended")
    /\ UNCHANGED <<ops, root, signals, faults>>

(* One repair of an invalid handoff; the provider may refuse it.               *)
Repair(c) ==
    /\ loop[c].at = "repairing"
    /\ \/ /\ ~loop[c].repaired
          /\ Moves(c, [loop[c] EXCEPT !.at = "polling", !.repaired = TRUE, !.ending = "none"])
       \/ Moves(c, [loop[c] EXCEPT !.at = "ended", !.ending = "failed"])
    /\ UNCHANGED <<ops, root, signals, faults>>

(* A mistake for LoopsEnd to catch: the select leaves the deadline out.         *)
InterruptByTokenOnly(c) ==
    /\ loop[c].at = "polling"
    /\ c \in cancelled /\ Moves(c, Closing(c, "interrupted", loop[c]))
    /\ UNCHANGED <<ops, root, signals, faults>>

(* The select at the head of the loop: token and deadline. *)
Interrupt(c) ==
    /\ loop[c].at = "polling"
    /\ \/ c \in cancelled /\ Moves(c, Closing(c, "interrupted", loop[c]))
       \/ c \in expired /\ Moves(c, Closing(c, "timed_out", loop[c]))
    /\ UNCHANGED <<ops, root, signals, faults>>

-----------------------------------------------------------------------------
(* Events of the provider. *)

(* A mistake for TypeOK to catch: reserve lets one event too many through.      *)
EventsLeftOneMore(c) == loop[c].events < MaxProviderEvents /\ root.events <= RootEvents

(* reserve, of the loop's budget and of the root's. *)
EventsLeft(c) == loop[c].events < MaxProviderEvents /\ root.events < RootEvents

CallsLeft(c) == loop[c].calls < MaxToolCalls /\ root.calls < RootToolCalls

(* reserve_provider_event, and the loop's own count. *)
Counted(c) == [loop[c] EXCEPT !.events = @ + 1]
CountsEvent(c) == root' = [root EXCEPT !.events = @ + 1]

OutOfEvents(c) ==
    /\ loop[c].at = "polling" /\ ~EventsLeft(c)
    /\ Moves(c, Closing(c, "interrupted", loop[c]))
    /\ UNCHANGED <<ops, root, signals, faults>>

Receives(c) == loop[c].at = "polling" /\ EventsLeft(c)

(* CallStarted and Checkpoint *)
Chatter(c) ==
    /\ Receives(c)
    /\ Moves(c, Counted(c)) /\ CountsEvent(c)
    /\ UNCHANGED <<ops, signals, faults>>

(* ToolRequest: the intent is recorded, unless the calls are used up.          *)
ToolRequest(c) ==
    /\ Receives(c)
    /\ IF CallsLeft(c)
       THEN \E tool \in Requestable :
              /\ ops' = [ops EXCEPT ![c] = Append(@, Intent(tool))]
              /\ Moves(c, [Counted(c) EXCEPT !.at = "intended", !.calls = @ + 1])
              /\ root' = [events |-> root.events + 1, calls |-> root.calls + 1]
       ELSE /\ Moves(c, [Counted(c) EXCEPT !.at = "submitting"])
            /\ CountsEvent(c)
            /\ UNCHANGED ops
    /\ UNCHANGED <<signals, faults>>

(* ToolObservedStarted: the provider runs a tool of its own.  No budget stops  *)
(* it.                                                                         *)
ToolObservedStarted(c) ==
    /\ Receives(c)
    /\ ops' = [ops EXCEPT ![c] = Append(@, Intent("observed"))]
    /\ Moves(c, [Counted(c) EXCEPT !.at = "observing", !.calls = @ + 1])
    /\ CountsEvent(c)
    /\ UNCHANGED <<signals, faults>>

Observe(c) ==
    LET o == Current(c)
    IN  /\ loop[c].at = "observing"
        /\ IF Accepts(loop[c].state, "WaitingForTool")
           THEN /\ Changes(c, o, [ops[c][o] EXCEPT !.started = TRUE])
                /\ Moves(c, [loop[c] EXCEPT !.at = "polling", !.state = "WaitingForTool",
                                            !.observed = @ \cup {o}])
           ELSE Fails(c) /\ UNCHANGED ops
        /\ UNCHANGED <<root, signals, faults>>

(* ToolObservedFailed; a call the loop does not know is a protocol error.      *)
ToolObservedFailed(c) ==
    /\ Receives(c)
    /\ CountsEvent(c)
    /\ \/ /\ Moves(c, [Counted(c) EXCEPT !.at = "failed"])
          /\ UNCHANGED ops
       \/ \E o \in loop[c].observed :
              /\ Changes(c, o, [ops[c][o] EXCEPT !.closed = TRUE])
              /\ Moves(c, IF Accepts(loop[c].state, "Running")
                          THEN [Counted(c) EXCEPT !.observed = @ \ {o}, !.state = "Running"]
                          ELSE [Counted(c) EXCEPT !.observed = @ \ {o}, !.at = "failed"])
    /\ UNCHANGED <<signals, faults>>

(* Handoff, valid or not, ProviderFailed, Cancelled and TimedOut. *)
LastWord(c) ==
    /\ Receives(c)
    /\ CountsEvent(c)
    /\ \E ending \in Endings : Moves(c, Closing(c, ending, Counted(c)))
    /\ UNCHANGED <<ops, signals, faults>>

-----------------------------------------------------------------------------
(* execute_tool_request *)

EnterTool(c) ==
    LET tool == ops[c][Current(c)].tool
    IN  /\ loop[c].at = "intended"
        /\ IF ~Accepts(loop[c].state, "WaitingForTool")
           THEN Fails(c)
           ELSE Moves(c, [loop[c] EXCEPT
                    !.state = "WaitingForTool",
                    !.at = CASE tool = "refused" -> "recording"
                             [] tool = "plain" -> "approved"
                             [] tool = "gated" -> "asking"])
        /\ UNCHANGED <<ops, root, signals, faults>>

(* resolve_locked: the event is appended before the waiter hears of it. *)
Ruled(op, decision, source) ==
    [op EXCEPT !.ask = decision, !.source = source, !.rulings = @ + 1]

(* A mistake for ApprovalIsDecidedOnce to catch: a request that is resolved    *)
(* already is resolved again.                                                  *)
SystemRulingAgain(op, source) == Ruled(op, "denied", source)

(* resolve_system: whatever was decided first stands. *)
SystemRuling(op, source) ==
    IF op.ask = "requested" THEN Ruled(op, "denied", source) ELSE op

(* begin_request: policy or a passed deadline denies at once; await_bounded    *)
(* may also find the token or the deadline before it asks.                     *)
Ask(c) ==
    LET o == Current(c)
        requested == [ops[c][o] EXCEPT !.ask = "requested"]
        AtOnce == {"policy"} \cup (IF c \in expired THEN {"timeout"} ELSE {})
    IN  /\ loop[c].at = "asking"
        /\ \/ /\ Interrupted(c) \/ ~Accepts(loop[c].state, "WaitingForUser")
              /\ Fails(c)
              /\ UNCHANGED ops
           \/ /\ Accepts(loop[c].state, "WaitingForUser")
              /\ c \notin expired
              /\ Changes(c, o, requested)
              /\ Moves(c, [loop[c] EXCEPT !.at = "waiting", !.state = "WaitingForUser"])
           \/ /\ Accepts(loop[c].state, "WaitingForUser")
              /\ \E source \in AtOnce : Changes(c, o, SystemRuling(requested, source))
              /\ Moves(c, [loop[c] EXCEPT !.at = "recording", !.state = "WaitingForUser"])
        /\ UNCHANGED <<root, signals, faults>>

AfterDecision(op) == IF op.ask = "allowed" THEN "approved" ELSE "recording"

(* The waiter hears the decision. *)
Hear(c) ==
    /\ loop[c].at = "waiting"
    /\ ops[c][Current(c)].ask # "requested"
    /\ Goes(c, AfterDecision(ops[c][Current(c)]))
    /\ UNCHANGED <<ops, root, signals, faults>>

(* The broker's own deadline, which is the loop's. *)
WaitTimesOut(c) ==
    LET o == Current(c)
        ruled == SystemRuling(ops[c][o], "timeout")
    IN  /\ loop[c].at = "waiting"
        /\ c \in expired
        /\ Changes(c, o, ruled)
        /\ Goes(c, AfterDecision(ruled))
        /\ UNCHANGED <<root, signals, faults>>

(* A mistake for PendingIsAwaited to catch: nothing is done at the drop.       *)
GiveUpWaitSilently(c) ==
    /\ loop[c].at = "waiting"
    /\ Interrupted(c)
    /\ Fails(c)
    /\ UNCHANGED <<ops, root, signals, faults>>

(* await_bounded drops the wait, and the drop of PendingWaitGuard resolves it. *)
GiveUpWait(c) ==
    LET o == Current(c)
    IN  /\ loop[c].at = "waiting"
        /\ Interrupted(c)
        /\ Changes(c, o, SystemRuling(ops[c][o], "cancellation"))
        /\ Fails(c)
        /\ UNCHANGED <<root, signals, faults>>

StartTool(c) ==
    LET o == Current(c)
        gated == ops[c][o].tool = "gated"
    IN  /\ loop[c].at = "approved"
        /\ IF gated /\ ~Accepts(loop[c].state, "WaitingForTool")
           THEN Fails(c) /\ UNCHANGED ops
           ELSE /\ Changes(c, o, [ops[c][o] EXCEPT !.started = TRUE])
                /\ Moves(c, [loop[c] EXCEPT !.at = "executing", !.state = "WaitingForTool"])
        /\ UNCHANGED <<root, signals, faults>>

(* The executor answers; the token and the deadline make a failed result.      *)
ToolAnswers(c) ==
    /\ loop[c].at = "executing"
    /\ Goes(c, "recording")
    /\ UNCHANGED <<ops, root, signals, faults>>

RecordResult(c) ==
    LET o == Current(c)
    IN  /\ loop[c].at = "recording"
        /\ Changes(c, o, [ops[c][o] EXCEPT !.closed = TRUE])
        /\ IF Accepts(loop[c].state, "Running")
           THEN Moves(c, [loop[c] EXCEPT !.at = "submitting", !.state = "Running"])
           ELSE Fails(c)
        /\ UNCHANGED <<root, signals, faults>>

(* submit_tool_result: not bounded by the token or the deadline. *)
Submit(c) ==
    /\ loop[c].at = "submitting"
    /\ \/ Goes(c, "polling")
       \/ Fails(c)
    /\ UNCHANGED <<ops, root, signals, faults>>

-----------------------------------------------------------------------------
(* Appends that fail. *)

Fault == faults < MaxFaults /\ faults' = faults + 1

(* A record of the loop itself: the loop ends with the error. *)
RecordFails(c) ==
    /\ Fault
    /\ \/ /\ Receives(c)
          /\ CountsEvent(c)
          /\ Moves(c, [Counted(c) EXCEPT !.at = "failed"])
       \/ /\ loop[c].at \in {"observing", "intended", "asking", "approved", "recording",
                             "submitting", "closing", "repairing"}
          /\ Fails(c)
          /\ UNCHANGED root
    /\ UNCHANGED <<ops, signals>>

(* The ruling of a request: the request stays pending in the broker, and the    *)
(* loop, which was its only waiter, is gone.  The guard of the wait is disarmed *)
(* or its error is dropped.                                                     *)
RulingFails(c) ==
    LET o == Current(c)
    IN  /\ Fault
        /\ \/ /\ loop[c].at = "asking"
              /\ Accepts(loop[c].state, "WaitingForUser")
              /\ Changes(c, o, [ops[c][o] EXCEPT !.ask = "requested"])
           \/ /\ loop[c].at = "waiting"
              /\ Interrupted(c)
              /\ ops[c][o].ask = "requested"
              /\ UNCHANGED ops
        /\ Fails(c)
        /\ UNCHANGED <<root, signals>>

-----------------------------------------------------------------------------
(* The user, the supervisor and the clock; the process. *)

(* The root's other children use the budget up.                                *)
SiblingReserves ==
    /\ phase = "up"
    /\ \/ root.events < RootEvents /\ root' = [root EXCEPT !.events = @ + 1]
       \/ root.calls < RootToolCalls /\ root' = [root EXCEPT !.calls = @ + 1]
    /\ UNCHANGED <<loop, ops, signals, faults>>

(* AgentApprovalBroker::respond: the user answers a request that is pending.   *)
UserAnswers(c) ==
    /\ phase = "up"
    /\ \E o \in DOMAIN ops[c], decision \in {"allowed", "denied"} :
           /\ ops[c][o].ask = "requested"
           /\ Changes(c, o, Ruled(ops[c][o], decision, "user"))
    /\ UNCHANGED <<loop, root, signals, faults>>

Runs(c) == phase = "up" /\ loop[c].at \notin Done

Cancel(c) ==
    /\ Runs(c)
    /\ c \notin cancelled
    /\ cancelled' = cancelled \cup {c}
    /\ UNCHANGED <<loop, ops, root, expired, faults, phase>>

Expire(c) ==
    /\ Runs(c)
    /\ c \notin expired
    /\ expired' = expired \cup {c}
    /\ UNCHANGED <<loop, ops, root, cancelled, faults, phase>>

(* The process stops: its loops and its broker are gone, the run log stays.     *)
Stop ==
    /\ phase = "up"
    /\ phase' = "down"
    /\ loop' = [c \in Children |->
                   IF loop[c].at \in Done THEN loop[c] ELSE [loop[c] EXCEPT !.at = "gone"]]
    /\ UNCHANGED <<ops, root, cancelled, expired, faults>>

Pending == {p \in Children \X (1..MaxProviderEvents) :
                p[2] \in DOMAIN ops[p[1]] /\ ops[p[1]][p[2]].ask = "requested"}

(* AgentApprovalBroker::new on the log of a stopped process denies what is      *)
(* pending, one append each.                                                    *)
DenyAbandoned ==
    /\ phase = "down"
    /\ \E p \in Pending :
           Changes(p[1], p[2], SystemRuling(ops[p[1]][p[2]], "restart"))
    /\ UNCHANGED <<loop, root, signals, faults>>

Reopen ==
    /\ phase = "down"
    /\ Pending = {}
    /\ phase' = "reopened"
    /\ UNCHANGED <<loop, ops, root, cancelled, expired, faults>>

(* Every loop has ended, and what is left is for the supervisor. *)
Rest ==
    /\ \A c \in Children : loop[c].at \in Done
    /\ phase # "down"
    /\ UNCHANGED vars

(* What a loop does by itself, once the token or the deadline bounds its waits. *)
Works(c) ==
    \/ Interrupted(c) /\ (Start(c) \/ ToolAnswers(c) \/ GiveUpWait(c))
    \/ CloseOne(c) \/ End(c) \/ Interrupt(c)
    \/ Observe(c) \/ EnterTool(c) \/ Ask(c) \/ StartTool(c) \/ RecordResult(c)

Provider(c) ==
    \/ Start(c) \/ Repair(c) \/ Submit(c) \/ ToolAnswers(c)
    \/ OutOfEvents(c) \/ Chatter(c) \/ ToolRequest(c)
    \/ ToolObservedStarted(c) \/ ToolObservedFailed(c) \/ LastWord(c)

Next ==
    \/ \E c \in Children :
          \/ Works(c) \/ Provider(c)
          \/ Hear(c) \/ WaitTimesOut(c)
          \/ RecordFails(c) \/ RulingFails(c)
          \/ UserAnswers(c) \/ Cancel(c) \/ Expire(c)
    \/ SiblingReserves
    \/ Stop \/ DenyAbandoned \/ Reopen \/ Rest

Spec == Init /\ [][Next]_vars

(* The runtime polls a loop that can move, and deadlines pass.  Nothing makes a *)
(* provider or a user answer.                                                   *)
Fairness == \A c \in Children : WF_vars(Works(c)) /\ WF_vars(Expire(c))

FairSpec == Spec /\ Fairness

-----------------------------------------------------------------------------
(* Properties. *)

(* However the user, the policy, the deadline, the cancellation and a restart  *)
(* race for a request, it is resolved once, and a gated tool starts only if    *)
(* that one resolution is the user's consent (resolve_locked, resolve_system). *)
ApprovalIsDecidedOnce ==
    \A c \in Children : \A o \in DOMAIN ops[c] :
        LET op == ops[c][o]
        IN  /\ op.rulings = IF op.ask \in {"allowed", "denied"} THEN 1 ELSE 0
            /\ op.tool = "gated" /\ op.started => op.ask = "allowed" /\ op.source = "user"

(* A request that is pending has a loop that waits for it, unless the append   *)
(* of its resolution failed or the process stopped: the user is never asked on *)
(* behalf of nobody (PendingWaitGuard).                                        *)
PendingIsAwaited ==
    \A c \in Children : \A o \in DOMAIN ops[c] :
        ops[c][o].ask = "requested" =>
            \/ loop[c].at = "waiting" /\ o = Current(c)
            \/ faults > 0
            \/ phase = "down"

(* A loop that returns a handoff leaves no operation open, requested or        *)
(* observed, whichever way it ends: finish_with_handoff would refuse it        *)
(* (close_observed_tools, execute_tool_request).                               *)
NothingOpenAtHandoff ==
    \A c \in Children :
        loop[c].at = "ended" => \A o \in DOMAIN ops[c] : ops[c][o].closed

(* Calls of the provider that neither the token nor the deadline cuts short.   *)
Unbounded == {"submitting", "repairing"}

(* Every loop ends by its deadline, whatever the provider, the tools and the   *)
(* user leave unanswered, unless the provider keeps it in such a call.         *)
LoopsEnd == \A c \in Children : <>[](loop[c].at \in Done \cup Unbounded)
=============================================================================
