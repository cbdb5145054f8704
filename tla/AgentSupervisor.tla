---------------------------- MODULE AgentSupervisor ----------------------------
(***************************************************************************)
(* AgentSupervisor of ovim-core/src/agent_runtime/supervisor.rs: it runs the *)
(* queued children of one root run, at most MaxConcurrent at a time, and      *)
(* delivers what became of them.                                             *)
(*                                                                          *)
(* Any number of tasks share it: a run_one task for every started turn, the   *)
(* drains that start turns, interrupts, follow-ups, waits and wait_for_idle.   *)
(* They meet at three locks, always taken in the order drain_lock, live,       *)
(* scheduler.  A step here is what a task does between two awaits, or under    *)
(* one hold of the scheduler lock.                                           *)
(*                                                                          *)
(* The scheduler appears as the part of its state that the supervisor reads;  *)
(* AgentScheduler has the whole of it, with its log and its restarts.         *)
(***************************************************************************)
EXTENDS AgentStates, Naturals, FiniteSets

CONSTANTS
    Agents,         \* children and their descendants
    Root,           \* root_agent_id
    ParentOf,       \* who delegates to whom
    MaxConcurrent,  \* max_concurrent: permits of the semaphore
    MaxQueued,      \* max_queued
    MaxTotal,       \* max_total_per_run
    MaxChildren,    \* max_children_per_parent
    MaxDepth,       \* max_depth
    Interrupters,   \* concurrent calls of interrupt
    Followers,      \* concurrent calls of followup_agent
    Observers,      \* concurrent calls of wait_for_idle
    OnlySettled,    \* follow-ups are asked only of agents that are seen settled
    NoAgent,
    NoTurn,
    MaxGeneration,  \* bound on follow-up turns per agent
    MaxDrains,      \* bound on drains under way: no wait or redrain adds one above it
    MaxFaults       \* bound on failed appends

VARIABLES
    agent,        \* what the scheduler keeps of each agent
    queue,        \* queue[a]: the queued agents that were queued before a
    task,         \* task[a][g]: the run_one task of a's turn g
    live,         \* live[a]: the turn whose LiveAgentHandle the map holds
    cancelled,    \* turns whose cancellation token is set
    parked,       \* pending_terminalizations: the turn that a was parked for
    told,         \* turns whose handoff was posted to the parent's mailbox
    permits,      \* permits that the semaphore has free
    waits,        \* waits[a]: the YieldedConcurrencySlot of a's wait for its children
    debts,        \* dropped slots whose permit is still to be taken back
    drain,        \* the drain that holds drain_lock
    drains,       \* drains that wait for it
    liveLock,     \* "free", "drain", or the interrupt that holds `live` over steps
    interrupter,  \* what each interrupt call does
    follower,     \* the agent that each followup_agent call found not live
    idle,         \* what each wait_for_idle call does
    faults

scheduler == <<agent, queue>>
slots == <<permits, waits, debts>>
draining == <<drain, drains>>
callers == <<interrupter, follower>>
vars == <<scheduler, task, live, cancelled, parked, told, slots, draining, liveLock,
          callers, idle, faults>>

-----------------------------------------------------------------------------
Generations == 0..MaxGeneration
Turns == Agents \X Generations

(* handed is the terminal state of a handoff that is durable while its         *)
(* terminal event is not (pending_handoff).                                   *)
AgentStatus ==
    [state : States \cup {"absent"}, gen : Generations, handed : Terminal \cup {"no"},
     authorized : BOOLEAN]

TaskStates == {"none", "gated", "running", "failed", "settled", "leaving", "freeing"}

Settled(a) == agent[a].state \in Terminal
Present(a) == agent[a].state # "absent"
Unsettled(a) == Present(a) /\ ~Settled(a)
Records == {a \in Agents : Present(a)}

Ancestors[a \in Agents] ==
    IF ParentOf[a] = Root THEN {a} ELSE {a} \cup Ancestors[ParentOf[a]]

(* descendants_including and agent_depth. *)
DescendantsIncluding(a) == {b \in Records : a \in Ancestors[b]}
AgentDepth(a) == Cardinality(Ancestors[a])

ASSUME SupervisorAssumption ==
    /\ Root \notin Agents
    /\ ParentOf \in [Agents -> Agents \cup {Root}]
    /\ \A n \in {MaxConcurrent, MaxQueued, MaxTotal, MaxChildren, MaxDepth} :
           n \in Nat /\ n >= 1
    /\ {"free", "drain"} \cap Interrupters = {}
    /\ OnlySettled \in BOOLEAN
    /\ NoAgent \notin Agents
    /\ NoTurn \notin Generations
    /\ {MaxGeneration, MaxDrains, MaxFaults} \subseteq Nat

-----------------------------------------------------------------------------
(* What the parts of an operation do. *)

Fault == faults < MaxFaults /\ faults' = faults + 1

(* queued_dispatches, sorted by queue_sequence: an agent is queued by its state, *)
(* and the oldest has none before it.                                         *)
Queued(ag) == {a \in Agents : ag[a].state = "Queued"}
Oldest == {a \in Queued(agent) : queue[a] = {}}
Without(q, S) == [a \in Agents |-> IF a \in S THEN {} ELSE q[a] \ S]

(* The scheduler settles a: in the state of the handoff that is already        *)
(* durable, if there is one, else in `to`.                                    *)
Settle(s, to) ==
    [s EXCEPT !.state = IF s.handed = "no" THEN to ELSE s.handed, !.handed = "no"]

(* It fails to: before the handoff is durable, or after.                       *)
Unfinished(s, to) ==
    {s, [s EXCEPT !.handed = IF s.handed = "no" THEN to ELSE s.handed]}

Ends(a, to) ==
    /\ agent' = [agent EXCEPT ![a] = Settle(agent[a], to)]
    /\ queue' = Without(queue, {a})

FailsToEnd(a, to) ==
    /\ Fault
    /\ \E s \in Unfinished(agent[a], to) : agent' = [agent EXCEPT ![a] = s]
    /\ UNCHANGED queue

(* changed.notify_waiters() reaches the armed waiters, and leaves no permit.   *)
Woken ==
    [o \in Observers |-> [idle[o] EXCEPT !.woken = @ \/ idle[o].at # "off"]]

(* A permit is added to the semaphore, which serves its waiters first.         *)
AddPermit(w) ==
    \/ \E a \in Agents : /\ w[a] = "resuming"
                         /\ waits' = [w EXCEPT ![a] = "no"]
                         /\ UNCHANGED <<permits, debts>>
    \/ debts > 0 /\ debts' = debts - 1 /\ waits' = w /\ UNCHANGED permits
    \/ /\ debts = 0 /\ \A a \in Agents : w[a] # "resuming"
       /\ permits' = permits + 1 /\ waits' = w /\ UNCHANGED debts

(* Drop of a slot that was not restored: a task is spawned that takes the      *)
(* permit back when it can.                                                   *)
DropSlot(a) ==
    IF waits[a] = "no" THEN UNCHANGED slots
    ELSE /\ waits' = [waits EXCEPT ![a] = "no"]
         /\ IF permits > 0 THEN permits' = permits - 1 /\ UNCHANGED debts
            ELSE debts' = debts + 1 /\ UNCHANGED permits

(* settle_pending_terminalizations: every parked child is terminated unless it *)
(* is settled by now, except those of F, whose append fails again; they are    *)
(* parked again.                                                              *)
Parked == {a \in Agents : parked[a] # NoTurn}
Rescued(F) == {a \in Parked \ F : ~Settled(a)}

AfterSettle(F) ==
    [agent |-> [a \in Agents |-> IF a \in Rescued(F) THEN Settle(agent[a], "Failed")
                                 ELSE agent[a]],
     queue |-> Without(queue, Rescued(F)),
     parked |-> [a \in Agents |-> IF a \in F THEN parked[a] ELSE NoTurn],
     told |-> told \cup {<<a, agent[a].gen>> : a \in Rescued(F)},
     idle |-> IF Parked \subseteq F THEN idle ELSE Woken]

MayFail(F) == IF F = {} THEN UNCHANGED faults ELSE Fault

NoInterrupt == [at |-> "off", todo |-> {}, ended |-> {}, goal |-> {}]
NotWaiting == [at |-> "off", woken |-> FALSE]

-----------------------------------------------------------------------------
Init ==
    /\ agent = [a \in Agents |-> [state |-> "absent", gen |-> 0, handed |-> "no",
                                  authorized |-> FALSE]]
    /\ queue = [a \in Agents |-> {}]
    /\ task = [a \in Agents |-> [g \in Generations |-> "none"]]
    /\ live = [a \in Agents |-> NoTurn]
    /\ cancelled = {}
    /\ parked = [a \in Agents |-> NoTurn]
    /\ told = {}
    /\ permits = MaxConcurrent
    /\ waits = [a \in Agents |-> "no"]
    /\ debts = 0
    /\ drain = [at |-> "off", agent |-> NoAgent]
    /\ drains = 0
    /\ liveLock = "free"
    /\ interrupter = [i \in Interrupters |-> NoInterrupt]
    /\ follower = [f \in Followers |-> NoAgent]
    /\ idle = [o \in Observers |-> NotWaiting]
    /\ faults = 0

-----------------------------------------------------------------------------
(* Dispatch and drain. *)

ChildrenOf(p) == {a \in Records : ParentOf[a] = p}

(* validate_dispatch_limits. *)
WithinLimits(a, ag) ==
    /\ Cardinality(Records) < MaxTotal
    /\ Cardinality(Queued(ag)) < MaxQueued
    /\ Cardinality(ChildrenOf(ParentOf[a])) < MaxChildren
    /\ AgentDepth(a) <= MaxDepth

(* A descendant is dispatched by its parent's loop, in a tool call.            *)
LoopRuns(a) == \E g \in Generations : task[a][g] = "running"
MayDelegate(p) == p # Root => LoopRuns(p) /\ agent[p].state = "WaitingForTool"

(* dispatch and dispatch_nonblocking: settle, allocate, and drain.             *)
Dispatch(a) ==
    /\ ~Present(a)
    /\ MayDelegate(ParentOf[a])
    /\ \E F \in SUBSET Parked :
          LET s == AfterSettle(F)
          IN /\ MayFail(F)
             /\ WithinLimits(a, s.agent)
             /\ agent' = [s.agent EXCEPT ![a].state = "Queued"]
             /\ queue' = [s.queue EXCEPT ![a] = Queued(s.agent)]
             /\ parked' = s.parked
             /\ told' = s.told
             /\ idle' = s.idle
    /\ drains' = drains + 1
    /\ UNCHANGED <<task, live, cancelled, slots, drain, liveLock, callers>>

(* start_recovered: another drain. *)
Redrain ==
    /\ drains < MaxDrains
    /\ drains' = drains + 1
    /\ UNCHANGED <<scheduler, task, live, cancelled, parked, told, slots, drain, liveLock,
                   callers, idle, faults>>

(* drain_ready takes drain_lock and settles what is parked.                    *)
BeginDrain ==
    /\ drain.at = "off"
    /\ drains > 0
    /\ drains' = drains - 1
    /\ drain' = [drain EXCEPT !.at = "loop"]
    /\ \E F \in SUBSET Parked :
          LET s == AfterSettle(F)
          IN /\ MayFail(F)
             /\ agent' = s.agent
             /\ queue' = s.queue
             /\ parked' = s.parked
             /\ told' = s.told
             /\ idle' = s.idle
    /\ UNCHANGED <<task, live, cancelled, slots, liveLock, callers>>

(* try_acquire_owned. *)
TakePermit ==
    /\ drain.at = "loop"
    /\ IF permits > 0 THEN permits' = permits - 1 /\ drain' = [drain EXCEPT !.at = "permit"]
       ELSE drain' = [drain EXCEPT !.at = "off"] /\ UNCHANGED permits
    /\ UNCHANGED <<scheduler, task, live, cancelled, parked, told, waits, debts, drains,
                   liveLock, callers, idle, faults>>

(* Nothing is queued: the drain ends, and so it does when the oldest queued    *)
(* child cannot be moved to Starting.                                         *)
EndDrain ==
    /\ drain.at = "permit"
    /\ liveLock = "free"
    /\ \/ Oldest = {} /\ UNCHANGED faults
       \/ \E a \in Oldest : \/ agent[a].handed # "no" /\ UNCHANGED faults
                            \/ agent[a].handed = "no" /\ Fault
    /\ AddPermit(waits)
    /\ drain' = [drain EXCEPT !.at = "off"]
    /\ UNCHANGED <<scheduler, task, live, cancelled, parked, told, drains, liveLock,
                   callers, idle>>

Started(a) ==
    /\ agent' = [agent EXCEPT ![a].state = "Starting"]
    /\ queue' = Without(queue, {a})
    /\ task' = [task EXCEPT ![a][agent[a].gen] = "gated"]
    /\ drain' = [at |-> "publish", agent |-> a]

(* A mistake for StartedIsLive to catch: `live` is not held meanwhile.         *)
PromoteUnlocked ==
    /\ drain.at = "permit"
    /\ liveLock = "free"
    /\ \E a \in Oldest : agent[a].handed = "no" /\ Started(a)
    /\ UNCHANGED <<live, cancelled, parked, told, slots, drains, liveLock, callers, idle,
                   faults>>

(* The oldest queued child is moved to Starting and its task spawned behind a  *)
(* gate, and `live` stays locked ...                                          *)
Promote ==
    /\ drain.at = "permit"
    /\ liveLock = "free"
    /\ \E a \in Oldest : agent[a].handed = "no" /\ Started(a)
    /\ liveLock' = "drain"
    /\ UNCHANGED <<live, cancelled, parked, told, slots, drains, callers, idle, faults>>

(* ... until its handle is in the map; then the gate opens.                    *)
Publish ==
    /\ drain.at = "publish"
    /\ LET a == drain.agent
           g == CHOOSE g \in Generations : task[a][g] = "gated"
       IN /\ live' = [live EXCEPT ![a] = g]
          /\ task' = [task EXCEPT ![a][g] = "running"]
    /\ liveLock' = "free"
    /\ drain' = [at |-> "loop", agent |-> NoAgent]
    /\ UNCHANGED <<scheduler, cancelled, parked, told, slots, drains, callers, idle, faults>>

-----------------------------------------------------------------------------
(* run_one, one task per started turn. *)

Becomes(a, g, at) == task' = [task EXCEPT ![a][g] = at]

(* The loop moves its own child, through the scheduler, which knows agents,    *)
(* not turns.                                                                 *)
LoopMoves(a, g, to) ==
    /\ task[a][g] = "running"
    /\ waits[a] = "no"
    /\ agent[a].handed = "no"
    /\ ValidTransition(agent[a].state, to)
    /\ agent' = [agent EXCEPT ![a].state = to]
    /\ UNCHANGED <<queue, task, live, cancelled, parked, told, slots, draining, liveLock,
                   callers, idle, faults>>

(* The loop returns an error: before its provider is bound, or because an      *)
(* append failed, or because the scheduler refuses what it records.            *)
LoopFails(a, g) ==
    /\ task[a][g] = "running"
    /\ \/ agent[a].state = "Starting" /\ UNCHANGED faults
       \/ (Settled(a) \/ agent[a].handed # "no" \/ agent[a].gen # g) /\ UNCHANGED faults
       \/ Unsettled(a) /\ Fault
    /\ Becomes(a, g, "failed")
    /\ DropSlot(a)
    /\ UNCHANGED <<scheduler, live, cancelled, parked, told, draining, liveLock, callers,
                   idle>>

(* The loop returns a handoff, its own or a synthetic one for a cancellation   *)
(* or a timeout, and the scheduler finishes the turn with it, or fails to.     *)
LoopEnds(a, g, to) ==
    /\ task[a][g] = "running"
    /\ agent[a].state \in Executing \ {"Starting"}
    /\ agent[a].handed = "no"
    /\ \/ Ends(a, to) /\ Becomes(a, g, "settled") /\ UNCHANGED faults
       \/ FailsToEnd(a, to) /\ Becomes(a, g, "failed")
    /\ DropSlot(a)
    /\ UNCHANGED <<live, cancelled, parked, told, draining, liveLock, callers, idle>>

(* terminalize_failed_child: nothing to do, or a conservative handoff, or the  *)
(* child is parked.                                                           *)
Terminalize(a, g) ==
    /\ task[a][g] = "failed"
    /\ \/ Settled(a) /\ Becomes(a, g, "leaving") /\ UNCHANGED <<scheduler, parked, faults>>
       \/ /\ Unsettled(a)
          /\ \E to \in {"Failed", "Interrupted"} :
                \/ Ends(a, to) /\ Becomes(a, g, "settled") /\ UNCHANGED <<parked, faults>>
                \/ /\ FailsToEnd(a, to)
                   /\ parked' = [parked EXCEPT ![a] = g]
                   /\ Becomes(a, g, "leaving")
    /\ UNCHANGED <<live, cancelled, told, slots, draining, liveLock, callers, idle>>

(* notify_terminal.  Where it fails the task has nothing left to terminalize.  *)
NotifyTerminal(a, g) ==
    /\ task[a][g] = "settled"
    /\ \/ told' = told \cup {<<a, g>>} /\ idle' = Woken /\ UNCHANGED faults
       \/ Fault /\ UNCHANGED <<told, idle>>
    /\ Becomes(a, g, "leaving")
    /\ UNCHANGED <<scheduler, live, cancelled, parked, slots, draining, liveLock, callers>>

(* live.remove names the agent, not the turn.                                  *)
Leave(a, g) ==
    /\ task[a][g] = "leaving"
    /\ liveLock = "free"
    /\ live' = [live EXCEPT ![a] = NoTurn]
    /\ Becomes(a, g, "freeing")
    /\ UNCHANGED <<scheduler, cancelled, parked, told, slots, draining, liveLock, callers,
                   idle, faults>>

(* A mistake for TurnsAreAnswered to catch: nobody drains after the task.      *)
FreeSlotOnly(a, g) ==
    /\ task[a][g] = "freeing"
    /\ AddPermit(waits)
    /\ idle' = Woken
    /\ Becomes(a, g, "none")
    /\ UNCHANGED <<scheduler, live, cancelled, parked, told, draining, liveLock, callers,
                   faults>>

(* The permit goes back, the idle waiter is woken and a drain is spawned.      *)
FreeSlot(a, g) ==
    /\ task[a][g] = "freeing"
    /\ AddPermit(waits)
    /\ idle' = Woken
    /\ drains' = drains + 1
    /\ Becomes(a, g, "none")
    /\ UNCHANGED <<scheduler, live, cancelled, parked, told, drain, liveLock, callers,
                   faults>>

-----------------------------------------------------------------------------
(* wait_for_agent_updates: a parent that waits for its children yields its     *)
(* slot to them.                                                              *)

BeginWait(a, g) ==
    /\ task[a][g] = "running"
    /\ waits[a] = "no"
    /\ agent[a].handed = "no"
    /\ ValidTransition(agent[a].state, "WaitingForAgent")
    /\ drains < MaxDrains
    /\ agent' = [agent EXCEPT ![a].state = "WaitingForAgent"]
    /\ AddPermit([waits EXCEPT ![a] = "waiting"])
    /\ drains' = drains + 1
    /\ UNCHANGED <<queue, task, live, cancelled, parked, told, drain, liveLock, callers,
                   idle, faults>>

(* A mistake for SlotsBoundLoops to catch: the slot is not taken back.         *)
EndWaitUnrestored(a) ==
    /\ waits[a] = "waiting"
    /\ waits' = [waits EXCEPT ![a] = "no"]
    /\ UNCHANGED <<scheduler, task, live, cancelled, parked, told, permits, debts, draining,
                   liveLock, callers, idle, faults>>

(* Updates, or the timeout: restore takes a permit before the parent resumes.  *)
EndWait(a) ==
    /\ waits[a] = "waiting"
    /\ IF permits > 0 THEN permits' = permits - 1 /\ waits' = [waits EXCEPT ![a] = "no"]
       ELSE waits' = [waits EXCEPT ![a] = "resuming"] /\ UNCHANGED permits
    /\ UNCHANGED <<scheduler, task, live, cancelled, parked, told, debts, draining,
                   liveLock, callers, idle, faults>>

-----------------------------------------------------------------------------
(* interrupt. *)

(* The records are read before the lock is taken.                              *)
BeginInterrupt(i, a) ==
    /\ interrupter[i].at = "off"
    /\ Present(a)
    /\ interrupter' = [interrupter EXCEPT
           ![i] = [at |-> "asked", todo |-> DescendantsIncluding(a), ended |-> {},
                   goal |-> {<<b, agent[b].gen>> : b \in DescendantsIncluding(a)}]]
    /\ UNCHANGED <<scheduler, task, live, cancelled, parked, told, slots, draining,
                   liveLock, follower, idle, faults>>

LockLive(i) ==
    /\ interrupter[i].at = "asked"
    /\ liveLock = "free"
    /\ liveLock' = i
    /\ interrupter' = [interrupter EXCEPT ![i].at = "pass"]
    /\ UNCHANGED <<scheduler, task, live, cancelled, parked, told, slots, draining,
                   follower, idle, faults>>

Passed(i, a) == [interrupter EXCEPT ![i].todo = @ \ {a}]

(* A mistake for InterruptStopsAll to catch: who is not live is skipped.       *)
PassOverUnstarted(i, a) ==
    /\ interrupter[i].at = "pass"
    /\ a \in interrupter[i].todo
    /\ \/ live[a] # NoTurn /\ cancelled' = cancelled \cup {<<a, live[a]>>}
       \/ live[a] = NoTurn /\ UNCHANGED cancelled
    /\ interrupter' = Passed(i, a)
    /\ UNCHANGED <<scheduler, task, live, parked, told, slots, draining, liveLock, follower,
                   idle, faults>>

(* A live child is cancelled, a settled one skipped.                           *)
PassOver(i, a) ==
    /\ interrupter[i].at = "pass"
    /\ a \in interrupter[i].todo
    /\ \/ live[a] # NoTurn /\ cancelled' = cancelled \cup {<<a, live[a]>>}
       \/ live[a] = NoTurn /\ Settled(a) /\ UNCHANGED cancelled
    /\ interrupter' = Passed(i, a)
    /\ UNCHANGED <<scheduler, task, live, parked, told, slots, draining, liveLock, follower,
                   idle, faults>>

(* A child that has not started, or is parked, is finished here.               *)
InterruptChild(i, a) ==
    /\ interrupter[i].at = "pass"
    /\ a \in interrupter[i].todo
    /\ live[a] = NoTurn
    /\ Unsettled(a)
    /\ agent[a].handed = "no"
    /\ Ends(a, "Interrupted")
    /\ interrupter' = [Passed(i, a) EXCEPT ![i].ended = @ \cup {<<a, agent[a].gen>>}]
    /\ UNCHANGED <<task, live, cancelled, parked, told, slots, draining, liveLock, follower,
                   idle, faults>>

(* Or cannot be: its append fails, or a handoff is pending, or a parked child  *)
(* has left a tool operation open.  The call returns the error at once.        *)
InterruptFails(i, a) ==
    /\ interrupter[i].at = "pass"
    /\ a \in interrupter[i].todo
    /\ live[a] = NoTurn
    /\ Unsettled(a)
    /\ \/ agent[a].handed = "no" /\ FailsToEnd(a, "Interrupted")
       \/ /\ agent[a].handed # "no" \/ agent[a].state = "WaitingForTool"
          /\ UNCHANGED <<scheduler, faults>>
    /\ interrupter' = [interrupter EXCEPT ![i] = NoInterrupt]
    /\ liveLock' = "free"
    /\ UNCHANGED <<task, live, cancelled, parked, told, slots, draining, follower, idle>>

UnlockLive(i) ==
    /\ interrupter[i].at = "pass"
    /\ interrupter[i].todo = {}
    /\ liveLock' = "free"
    /\ interrupter' = [interrupter EXCEPT ![i].at = "tell"]
    /\ UNCHANGED <<scheduler, task, live, cancelled, parked, told, slots, draining,
                   follower, idle, faults>>

(* What it ended is told to the parents; a failure returns the error, and      *)
(* nobody tells the rest.                                                     *)
TellInterrupted(i, t) ==
    /\ interrupter[i].at = "tell"
    /\ t \in interrupter[i].ended
    /\ \/ /\ told' = told \cup {t}
          /\ interrupter' = [interrupter EXCEPT ![i].ended = @ \ {t}]
          /\ idle' = Woken
          /\ UNCHANGED faults
       \/ /\ Fault
          /\ interrupter' = [interrupter EXCEPT ![i] = NoInterrupt]
          /\ UNCHANGED <<told, idle>>
    /\ UNCHANGED <<scheduler, task, live, cancelled, parked, slots, draining, liveLock,
                   follower>>

EndInterrupt(i) ==
    /\ interrupter[i].at = "tell"
    /\ interrupter[i].ended = {}
    /\ interrupter' = [interrupter EXCEPT ![i] = NoInterrupt]
    /\ idle' = Woken
    /\ UNCHANGED <<scheduler, task, live, cancelled, parked, told, slots, draining,
                   liveLock, follower, faults>>

-----------------------------------------------------------------------------
(* followup_agent. *)

(* FollowupTargetBusy unless the agent is not in the map, now.                 *)
CheckNotLive(f, a) ==
    /\ follower[f] = NoAgent
    /\ liveLock = "free"
    /\ Present(a)
    /\ OnlySettled => Settled(a)
    /\ live[a] = NoTurn
    /\ follower' = [follower EXCEPT ![f] = a]
    /\ UNCHANGED <<scheduler, task, live, cancelled, parked, told, slots, draining,
                   liveLock, interrupter, idle, faults>>

Reopenable(a) ==
    agent[a].state \in {"Completed", "Interrupted"} /\ ~agent[a].authorized

(* begin_followup and a drain; or its second append fails; or it is refused.   *)
BeginFollowup(f, a) ==
    /\ follower[f] = a
    /\ follower' = [follower EXCEPT ![f] = NoAgent]
    /\ \/ /\ Reopenable(a)
          /\ agent[a].gen < MaxGeneration
          /\ \/ /\ agent' = [agent EXCEPT ![a].state = "Queued", ![a].gen = @ + 1]
                /\ queue' = [queue EXCEPT ![a] = Queued(agent)]
                /\ drains' = drains + 1
                /\ UNCHANGED faults
             \/ /\ agent' = [agent EXCEPT ![a].authorized = TRUE, ![a].gen = @ + 1]
                /\ Fault
                /\ UNCHANGED <<queue, drains>>
       \/ /\ ~Reopenable(a) \/ agent[a].gen = MaxGeneration
          /\ UNCHANGED <<scheduler, drains, faults>>
    /\ UNCHANGED <<task, live, cancelled, parked, told, slots, drain, liveLock, interrupter,
                   idle>>

(* begin_followup reopens an agent that is back in the live map, or about to be: *)
(* followup_agent has looked at the map before, and let go of it.  The task of   *)
(* the turn that is there then takes the new turn out of the map.               *)
StaleFollowup ==
    \E f \in Followers, a \in Agents :
        /\ BeginFollowup(f, a)
        /\ agent' # agent
        /\ live[a] # NoTurn \/ drain = [at |-> "publish", agent |-> a]

-----------------------------------------------------------------------------
(* wait_for_idle. *)

(* Arm the waiter, then settle what is parked ...                              *)
ArmWaiter(o) ==
    /\ idle[o].at = "off" \/ (idle[o].at = "asleep" /\ idle[o].woken)
    /\ \E F \in SUBSET Parked :
          LET s == AfterSettle(F)
          IN /\ MayFail(F)
             /\ agent' = s.agent
             /\ queue' = s.queue
             /\ parked' = s.parked
             /\ told' = s.told
             /\ idle' = [s.idle EXCEPT ![o] = [at |-> "armed", woken |-> ~(Parked \subseteq F)]]
    /\ UNCHANGED <<task, live, cancelled, slots, draining, liveLock, callers>>

(* ... read the scheduler ... *)
ReadState(o) ==
    /\ idle[o].at = "armed"
    /\ idle' = [idle EXCEPT ![o].at = IF \A a \in Records : Settled(a) THEN "read" ELSE "busy"]
    /\ UNCHANGED <<scheduler, task, live, cancelled, parked, told, slots, draining,
                   liveLock, callers, faults>>

(* ... then the map: nothing is left to do, or it sleeps ...                   *)
ReadLive(o) ==
    /\ idle[o].at = "read"
    /\ liveLock = "free"
    /\ idle' = [idle EXCEPT ![o] = IF \A a \in Agents : live[a] = NoTurn THEN NotWaiting
                                   ELSE [idle[o] EXCEPT !.at = "busy"]]
    /\ UNCHANGED <<scheduler, task, live, cancelled, parked, told, slots, draining,
                   liveLock, callers, faults>>

(* A mistake for NoLostIdleWakeup to catch: the waiter is armed only now.      *)
FallAsleepUnarmed(o) ==
    /\ idle[o].at = "busy"
    /\ idle' = [idle EXCEPT ![o] = [at |-> "asleep", woken |-> FALSE]]
    /\ UNCHANGED <<scheduler, task, live, cancelled, parked, told, slots, draining,
                   liveLock, callers, faults>>

(* ... until something changes, or the deadline.                               *)
FallAsleep(o) ==
    /\ idle[o].at = "busy"
    /\ idle' = [idle EXCEPT ![o].at = "asleep"]
    /\ UNCHANGED <<scheduler, task, live, cancelled, parked, told, slots, draining,
                   liveLock, callers, faults>>

IdleTimesOut(o) ==
    /\ idle[o].at = "asleep"
    /\ idle' = [idle EXCEPT ![o] = NotWaiting]
    /\ UNCHANGED <<scheduler, task, live, cancelled, parked, told, slots, draining,
                   liveLock, callers, faults>>

-----------------------------------------------------------------------------
RunOne(a, g) ==
    \/ \E to \in {"Running", "WaitingForTool"} : LoopMoves(a, g, to)
    \/ \E to \in Terminal : LoopEnds(a, g, to)
    \/ LoopFails(a, g)
    \/ Terminalize(a, g)
    \/ NotifyTerminal(a, g)
    \/ Leave(a, g)
    \/ FreeSlot(a, g)
    \/ BeginWait(a, g)

Drain == BeginDrain \/ TakePermit \/ EndDrain \/ Promote \/ Publish

Interrupt(i) ==
    \/ \E a \in Agents : \/ BeginInterrupt(i, a) \/ PassOver(i, a)
                         \/ InterruptChild(i, a) \/ InterruptFails(i, a)
    \/ LockLive(i)
    \/ UnlockLive(i)
    \/ \E t \in Turns : TellInterrupted(i, t)
    \/ EndInterrupt(i)

FollowUp(f) == \E a \in Agents : CheckNotLive(f, a) \/ BeginFollowup(f, a)

WaitForIdle(o) ==
    ArmWaiter(o) \/ ReadState(o) \/ ReadLive(o) \/ FallAsleep(o) \/ IdleTimesOut(o)

Next ==
    \/ \E a \in Agents : Dispatch(a) \/ EndWait(a)
    \/ \E t \in Turns : RunOne(t[1], t[2])
    \/ Redrain
    \/ Drain
    \/ \E i \in Interrupters : Interrupt(i)
    \/ \E f \in Followers : FollowUp(f)
    \/ \E o \in Observers : WaitForIdle(o)

Spec == Init /\ [][Next]_vars

(* Tasks are scheduled, mutexes are handed over in order, loops have deadlines,  *)
(* waits have timeouts.  Nobody must dispatch, interrupt, follow up or redrain.  *)
Fairness ==
    /\ WF_vars(BeginDrain) /\ WF_vars(TakePermit) /\ WF_vars(Publish)
    /\ SF_vars(Promote) /\ SF_vars(EndDrain)
    /\ \A t \in Turns :
          LET a == t[1]
              g == t[2]
          IN /\ WF_vars(LoopMoves(a, g, "Running"))
             /\ WF_vars(\E to \in Terminal : LoopEnds(a, g, to))
             /\ WF_vars(Settled(a) /\ LoopFails(a, g))
             /\ WF_vars(Terminalize(a, g)) /\ WF_vars(NotifyTerminal(a, g))
             /\ SF_vars(Leave(a, g)) /\ WF_vars(FreeSlot(a, g))
    /\ \A i \in Interrupters :
          /\ SF_vars(LockLive(i)) /\ WF_vars(UnlockLive(i)) /\ WF_vars(EndInterrupt(i))
          /\ \A a \in Agents :
                /\ WF_vars(PassOver(i, a)) /\ WF_vars(InterruptChild(i, a))
                /\ WF_vars(agent[a].handed # "no" /\ InterruptFails(i, a))
          /\ \A t \in Turns : WF_vars(TellInterrupted(i, t))

FairSpec == Spec /\ Fairness

-----------------------------------------------------------------------------
(* Properties. *)

TypeOK ==
    /\ agent \in [Agents -> AgentStatus]
    /\ queue \in [Agents -> SUBSET Agents]
    /\ task \in [Agents -> [Generations -> TaskStates]]
    /\ live \in [Agents -> Generations \cup {NoTurn}]
    /\ cancelled \subseteq Turns
    /\ parked \in [Agents -> Generations \cup {NoTurn}]
    /\ told \subseteq Turns
    /\ permits \in Nat
    /\ waits \in [Agents -> {"no", "waiting", "resuming"}]
    /\ debts \in Nat
    /\ drain \in [at : {"off", "loop", "permit", "publish"}, agent : Agents \cup {NoAgent}]
    /\ drains \in Nat
    /\ liveLock \in {"free", "drain"} \cup Interrupters
    /\ interrupter \in [Interrupters ->
          [at : {"off", "asked", "pass", "tell"}, todo : SUBSET Agents,
           ended : SUBSET Turns, goal : SUBSET Turns]]
    /\ follower \in [Followers -> Agents \cup {NoAgent}]
    /\ idle \in [Observers ->
          [at : {"off", "armed", "read", "busy", "asleep"}, woken : BOOLEAN]]
    /\ faults \in 0..MaxFaults

(* A child that has left the queue and is not settled can be cancelled: the    *)
(* map holds the handle of its turn, or a drain is about to put it there with  *)
(* the map locked, or it is parked because its end could not be recorded.      *)
StartedIsLive ==
    \A a \in Agents :
        agent[a].state \in Executing =>
            \/ live[a] = agent[a].gen
            \/ parked[a] = agent[a].gen
            \/ drain = [at |-> "publish", agent |-> a] /\ liveLock = "drain"

(* No more provider loops execute than there are permits, whatever parents do  *)
(* with theirs while they wait; the permit that a loop dropped inside its wait  *)
(* owes is exceeded until the task that takes it back has it.                  *)
Executes(t) == task[t[1]][t[2]] = "running" /\ waits[t[1]] = "no"
SlotsBoundLoops == Cardinality({t \in Turns : Executes(t)}) <= MaxConcurrent + debts

(* When an interrupt lets go of the map, every descendant it set out to stop   *)
(* is settled, or the token of its running turn is set, or has been reopened.  *)
InterruptStopsAll ==
    [][\A i \in Interrupters :
          interrupter[i].at = "pass" /\ interrupter'[i].at = "tell" =>
              \A t \in interrupter[i].goal :
                  Settled(t[1]) \/ t \in cancelled \/ agent[t[1]].gen # t[2]]_vars

(* The tool call in which a parent waits for its children is accepted, and     *)
(* yields its slot to them.                                                   *)
NestedWaitsAreAccepted ==
    \A a \in Agents, g \in Generations :
        /\ task[a][g] = "running"
        /\ agent[a].state = "WaitingForTool" /\ agent[a].handed = "no"
        /\ waits[a] = "no" /\ drains < MaxDrains
        => ENABLED BeginWait(a, g)

(* wait_for_idle is not left asleep: once everything is settled and nobody is  *)
(* live, it has been woken, or whoever changed that is about to wake it.       *)
RunIdle == \A a \in Agents : ~Unsettled(a) /\ live[a] = NoTurn

NoLostIdleWakeup ==
    \A o \in Observers :
        idle[o].at = "asleep" /\ ~idle[o].woken /\ RunIdle =>
            \/ \E t \in Turns : task[t[1]][t[2]] = "freeing"
            \/ \E i \in Interrupters : interrupter[i].at \in {"pass", "tell"}

(* Every turn that is dispatched or reopened is ended and told to the parent,  *)
(* whatever is interrupted, waits or fails before its provider is bound.       *)
TurnsAreAnswered ==
    \A t \in Turns :
        (Present(t[1]) /\ agent[t[1]].gen = t[2]) ~> (t \in told)
=============================================================================
