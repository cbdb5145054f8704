--------------------------- MODULE AgentScheduler ---------------------------
(***************************************************************************)
(* AgentDispatchScheduler of ovim-core/src/agent_runtime/dispatch.rs: the   *)
(* per-run owner of delegated agents.  It keeps every agent twice: in the   *)
(* process (`mem`, the HashMap of ScheduledAgent) and as events of the      *)
(* append-only run log.  Every change is appended first and applied in      *)
(* memory second; an append may fail between the two appends of one         *)
(* operation, and the process may stop at any point.  After a restart       *)
(* `rehydrate` folds the log back into memory and repairs what was cut off. *)
(*                                                                          *)
(* The log is represented by its fold: disk[a] is what rehydrate's loop     *)
(* body has made of the events of agent a so far, and InvalidHistory as     *)
(* soon as it would refuse one.  The loop body reads nothing but that fold  *)
(* and the next event, so folding as the events are appended and folding    *)
(* them from the start at a restart give the same value.                    *)
(***************************************************************************)
EXTENDS AgentStates, Naturals, Sequences

CONSTANTS
    Agents,             \* agent identities; each names at most one dispatch
    Root,               \* the external parent (set_external_parent)
    TaskNames,
    Operations,         \* OperationIds of tool calls
    Workspaces,
    Strategies,         \* workspace strategies that dispatches ask for
    Capabilities,
    WriteCapabilities,  \* WorkspaceWrite and Shell: can_write()
    Routes,             \* effective model routes
    Requests,           \* the dispatches asked for: [spec, caps] records
    NoRoute,            \* the catalog does not resolve the request
    NoAgent,            \* no agent: not in the map, not in the log, no holder
    InvalidHistory,     \* rehydrate refuses the agent's events
    LastEventId,        \* event ids of one agent's chain run 0..LastEventId and wrap
    MaxGeneration,      \* bound on follow-up turns per agent
    MaxFaults           \* bound on failed appends and process stops

VARIABLES
    mem,      \* mem[a]: the ScheduledAgent of a in this process, or NoAgent
    disk,     \* disk[a]: the fold of a's durable events
    lease,    \* shared_writer: workspace -> agent
    catalog,  \* the route the current model catalog resolves requests to
    phase,    \* "up", "down", or the pass of rehydrate that is running
    todo,     \* the agents that pass has listed and not handled yet
    ending,   \* the terminate_conservatively call that is running, or NoAgent
    faults    \* failed appends and stops so far

vars == <<mem, disk, lease, catalog, phase, todo, ending, faults>>

-----------------------------------------------------------------------------
(* Values. *)

Handoffs == HandoffStatuses \cup {"none"}
OperationStates == {"absent", "intended", "started", "terminal"}

(* The part of a dispatch request that never changes afterwards. *)
Specs == [task : TaskNames, parent : Agents \cup {Root}, workspace : Workspaces,
          strategy : Strategies, route : Routes]

(* The events of one agent form one causal chain.  An id is only compared    *)
(* with the id of the chain's last event, and an event caused by any other    *)
(* is refused, so an id need only differ from the one before it: they wrap.   *)
EventIds == 0..LastEventId
FirstEvent == 0
NextEvent(id) == IF id = LastEventId THEN 0 ELSE id + 1

(* ScheduledAgent; tip is its last_event_id. *)
ScheduledAgent ==
    [spec : Specs, caps : SUBSET Capabilities, state : States, gen : Nat,
     authorized : BOOLEAN, tip : EventIds, pending : Handoffs,
     ops : [Operations -> OperationStates]]

(* What the log says of an agent: what rehydrate restores, and the status of *)
(* the AgentHandoff event its last terminal lifecycle event is caused by.    *)
DurableAgent ==
    [spec : Specs, caps : SUBSET Capabilities, state : States, gen : Nat,
     authorized : BOOLEAN, tip : EventIds, pending : Handoffs,
     ops : [Operations -> OperationStates], evidence : Handoffs]

(* terminate_conservatively at work: the agent it ends, with which status, and *)
(* which of the operations it has listed it has not closed yet.                *)
Endings ==
    [agent : Agents, status : HandoffStatuses \ {"completed"}, open : SUBSET Operations]

(* rehydrate's passes over the agents, in their order. *)
Passes == {"handoffs", "followups", "in_flight", "routes", "leases"}

PassAfter(pass) ==
    CASE pass = "handoffs" -> "followups"
      [] pass = "followups" -> "in_flight"
      [] pass = "in_flight" -> "routes"
      [] OTHER -> "leases"

ASSUME SchedulerAssumption ==
    /\ Root \notin Agents
    /\ WriteCapabilities \subseteq Capabilities
    /\ Requests \subseteq [spec : Specs, caps : SUBSET Capabilities]
    /\ NoRoute \notin Routes
    /\ NoAgent \notin Agents \cup {Root, InvalidHistory}
    /\ NoAgent \notin ScheduledAgent \cup DurableAgent \cup Endings
    /\ InvalidHistory \notin DurableAgent
    /\ LastEventId \in Nat /\ LastEventId >= 1
    /\ MaxGeneration \in Nat
    /\ MaxFaults \in Nat

CanWrite(caps) == caps \cap WriteCapabilities # {}
SharedWriter(r) == CanWrite(r.caps) /\ r.spec.strategy = "shared"

IsOpen(op) == op \in {"intended", "started"}
OpenOperations(r) == {o \in Operations : IsOpen(r.ops[o])}

(* validate_runtime_operation and apply_runtime_operation: what an event of  *)
(* kind k does to an operation in state s.                                   *)
OperationStep(k, s) ==
    IF k = "intent" /\ s = "absent" THEN "intended"
    ELSE IF k = "started" /\ s = "intended" THEN "started"
    ELSE IF k \in {"completed", "unknown_after_crash"} /\ s = "started" THEN "terminal"
    ELSE IF k \in {"failed", "interrupted"} /\ IsOpen(s) THEN "terminal"
    ELSE "refused"

-----------------------------------------------------------------------------
(* rehydrate's loop body: which events it accepts and what it makes of them. *)

Created(spec, caps) == [kind |-> "created", spec |-> spec, caps |-> caps]
Lifecycle(to, cause) == [kind |-> "lifecycle", state |-> to, cause |-> cause]
Handoff(status, cause) == [kind |-> "handoff", status |-> status, cause |-> cause]
Runtime(k, op, cause) == [kind |-> "runtime", event |-> k, op |-> op, cause |-> cause]
Progress(cause) == [kind |-> "progress", cause |-> cause]
Followup(gen, caps, cause) ==
    [kind |-> "followup", gen |-> gen, caps |-> caps, cause |-> cause]

(* The lifecycle event of an authorized follow-up that returns to the queue. *)
ReplayResumes(d, to) == d.authorized /\ d.state \in Terminal /\ to = "Queued"

AcceptsCreated(d, e) ==
    d = NoAgent /\ ~(CanWrite(e.caps) /\ e.spec.strategy = "read_only")

AcceptsLifecycle(d, e) ==
    /\ e.cause = d.tip
    /\ e.state = "Completed" => d.pending # "none"
    /\ d.pending # "none" => e.state = TerminalStateFor(d.pending)
    /\ ValidTransition(d.state, e.state) \/ ReplayResumes(d, e.state)

AcceptsHandoff(d, e) ==
    /\ e.cause = d.tip
    /\ d.pending = "none"
    /\ OpenOperations(d) = {}
    /\ ValidTransition(d.state, TerminalStateFor(e.status))

AcceptsRuntime(d, e) ==
    /\ e.cause = d.tip
    /\ d.state \notin Terminal
    /\ e.kind = "runtime" => OperationStep(e.event, d.ops[e.op]) # "refused"

AcceptsFollowup(d, e) ==
    /\ e.cause = d.tip
    /\ d.state \in {"Completed", "Interrupted"}
    /\ ~d.authorized
    /\ e.gen = d.gen + 1
    /\ d.evidence # "none"
    /\ e.caps # {} /\ e.caps \subseteq d.caps

Accepts(d, e) ==
    IF e.kind = "created" THEN AcceptsCreated(d, e)
    ELSE /\ d # NoAgent
         /\ CASE e.kind = "lifecycle" -> AcceptsLifecycle(d, e)
              [] e.kind = "handoff" -> AcceptsHandoff(d, e)
              [] e.kind \in {"runtime", "progress"} -> AcceptsRuntime(d, e)
              [] e.kind = "followup" -> AcceptsFollowup(d, e)

Absorb(d, e) ==
    CASE e.kind = "created" ->
            [spec |-> e.spec, caps |-> e.caps, state |-> "Created", gen |-> 0,
             authorized |-> FALSE, tip |-> FirstEvent, pending |-> "none",
             ops |-> [o \in Operations |-> "absent"], evidence |-> "none"]
      [] e.kind = "lifecycle" ->
            [d EXCEPT !.state = e.state,
                      !.tip = NextEvent(@),
                      !.authorized = IF ReplayResumes(d, e.state) THEN FALSE ELSE @,
                      !.evidence = IF e.state \in Terminal THEN d.pending ELSE @,
                      !.pending = IF e.state \in Terminal THEN "none" ELSE @]
      [] e.kind = "handoff" ->
            [d EXCEPT !.pending = e.status, !.tip = NextEvent(@)]
      [] e.kind = "runtime" ->
            [d EXCEPT !.ops[e.op] = OperationStep(e.event, @), !.tip = NextEvent(@)]
      [] e.kind = "progress" ->
            [d EXCEPT !.tip = NextEvent(@)]
      [] e.kind = "followup" ->
            [d EXCEPT !.caps = e.caps, !.gen = e.gen, !.authorized = TRUE,
                      !.tip = NextEvent(@)]

Replay(d, e) ==
    IF d # InvalidHistory /\ Accepts(d, e) THEN Absorb(d, e) ELSE InvalidHistory

(* What rehydrate restores of a durable agent. *)
Restored(d) ==
    IF d = NoAgent THEN NoAgent
    ELSE [spec |-> d.spec, caps |-> d.caps, state |-> d.state, gen |-> d.gen,
          authorized |-> d.authorized, tip |-> d.tip, pending |-> d.pending,
          ops |-> d.ops]

-----------------------------------------------------------------------------
(* The operations, as they change one agent.  p.m is its ScheduledAgent and  *)
(* p.d its durable image; each operator appends one event, which the sink     *)
(* adds to the log, and then applies its own in-memory assignments.           *)

(* transition_internal.  resume is its `authorized_followup`. *)
LifecycleStep(p, to, resume) ==
    [m |-> [p.m EXCEPT !.state = to,
                       !.tip = NextEvent(@),
                       !.pending = IF to \in Terminal THEN "none" ELSE @,
                       !.authorized = IF resume THEN FALSE ELSE @],
     d |-> Replay(p.d, Lifecycle(to, p.m.tip))]

(* The handoff append of finish_with_handoff_and_warnings. *)
HandoffStep(p, status) ==
    [m |-> [p.m EXCEPT !.pending = status, !.tip = NextEvent(@)],
     d |-> Replay(p.d, Handoff(status, p.m.tip))]

(* record_runtime_event with an operation ... *)
RuntimeStep(p, k, op) ==
    [m |-> [p.m EXCEPT !.ops[op] = OperationStep(k, @), !.tip = NextEvent(@)],
     d |-> Replay(p.d, Runtime(k, op, p.m.tip))]

(* ... and without one: provider, usage, progress and repair events. *)
ProgressStep(p) ==
    [m |-> [p.m EXCEPT !.tip = NextEvent(@)],
     d |-> Replay(p.d, Progress(p.m.tip))]

(* A mistake for ReplayAgrees to catch: memory keeps the old capabilities. *)
FollowupStepOldCapabilities(p, caps) ==
    [m |-> [p.m EXCEPT !.gen = @ + 1, !.authorized = TRUE, !.tip = NextEvent(@)],
     d |-> Replay(p.d, Followup(p.m.gen + 1, caps, p.m.tip))]

(* The authorization append of begin_followup. *)
FollowupStep(p, caps) ==
    [m |-> [p.m EXCEPT !.caps = caps, !.gen = @ + 1, !.authorized = TRUE,
                       !.tip = NextEvent(@)],
     d |-> Replay(p.d, Followup(p.m.gen + 1, caps, p.m.tip))]

Now(a) == [m |-> mem[a], d |-> disk[a]]

(* The states an operation passes through, one append apart: it ends in the   *)
(* last one, or in an earlier one when an append fails.                       *)
FinishStages(p, status) ==
    LET handed == HandoffStep(p, status)
    IN <<p, handed, LifecycleStep(handed, TerminalStateFor(status), FALSE)>>

(* complete_pending_handoff. *)
ResumeStages(p) == <<p, LifecycleStep(p, TerminalStateFor(p.m.pending), FALSE)>>

(* The ToolResult with which an operation is closed: unknown if it had started. *)
CloseStages(p, op) ==
    <<p, RuntimeStep(p, IF p.m.ops[op] = "started" THEN "unknown_after_crash"
                        ELSE "failed", op)>>

FollowupStages(p, caps) ==
    LET authorized == FollowupStep(p, caps)
    IN <<p, authorized, LifecycleStep(authorized, "Queued", TRUE)>>

-----------------------------------------------------------------------------
(* Applying an operation. *)

Fault == faults < MaxFaults /\ faults' = faults + 1

(* A mistake for WriterHoldsLease to catch: the lease goes with the handoff. *)
ReleaseLeaseAtHandoff(a, m) ==
    IF (m.state \in Terminal \/ m.pending # "none") /\ lease[m.spec.workspace] = a
    THEN [lease EXCEPT ![m.spec.workspace] = NoAgent]
    ELSE lease

(* A terminal transition releases the writer lease the agent holds. *)
ReleaseLease(a, m) ==
    IF m.state \in Terminal /\ lease[m.spec.workspace] = a
    THEN [lease EXCEPT ![m.spec.workspace] = NoAgent]
    ELSE lease

Apply(a, p) ==
    /\ mem' = [mem EXCEPT ![a] = p.m]
    /\ disk' = [disk EXCEPT ![a] = p.d]
    /\ lease' = ReleaseLease(a, p.m)

(* The scheduler is gone; nothing but the log survives. *)
Drop ==
    /\ mem' = [a \in Agents |-> NoAgent]
    /\ lease' = [w \in Workspaces |-> NoAgent]
    /\ phase' = "down"
    /\ todo' = {}

(* All appends of an operation succeed, or one fails.  A running scheduler     *)
(* then returns the error with what was done so far in place; rehydrate        *)
(* returns it too, and the scheduler it was making is dropped.                 *)
Attempt(a, stages) ==
    \/ /\ Apply(a, stages[Len(stages)])
       /\ todo' = todo \ {a}
       /\ UNCHANGED <<phase, faults>>
    \/ \E i \in 1..(Len(stages) - 1) :
          /\ Fault
          /\ IF phase = "up"
             THEN Apply(a, stages[i]) /\ UNCHANGED <<phase, todo>>
             ELSE disk' = [disk EXCEPT ![a] = stages[i].d] /\ Drop

-----------------------------------------------------------------------------
Init ==
    /\ mem = [a \in Agents |-> NoAgent]
    /\ disk = [a \in Agents |-> NoAgent]
    /\ lease = [w \in Workspaces |-> NoAgent]
    /\ catalog \in Routes
    /\ phase = "up"
    /\ todo = {}
    /\ ending = NoAgent
    /\ faults = 0

Known(a) == mem[a] # NoAgent

(* The scheduler runs and no call holds its mutex. *)
Idle == phase = "up" /\ ending = NoAgent

(* dispatch.  A failed first append changes nothing; a failed second one      *)
(* (QueueAfterCreationFailed) leaves an agent that only the log knows.        *)
Dispatch(a, spec, caps) ==
    LET durable == Replay(disk[a], Created(spec, caps))
    IN /\ Idle
       /\ disk[a] = NoAgent
       /\ \A b \in Agents : Known(b) => mem[b].spec.task # spec.task
       /\ spec.parent = Root \/ (spec.parent \in Agents /\ Known(spec.parent))
       /\ ~(CanWrite(caps) /\ spec.strategy = "read_only")
       /\ spec.route = catalog
       /\ CanWrite(caps) /\ spec.strategy = "shared" => lease[spec.workspace] = NoAgent
       /\ \/ /\ disk' = [disk EXCEPT ![a] = Replay(durable, Lifecycle("Queued", FirstEvent))]
             /\ mem' = [mem EXCEPT ![a] =
                    [spec |-> spec, caps |-> caps, state |-> "Queued", gen |-> 0,
                     authorized |-> FALSE, tip |-> NextEvent(FirstEvent),
                     pending |-> "none",
                     ops |-> [o \in Operations |-> "absent"]]]
             /\ lease' = IF CanWrite(caps) /\ spec.strategy = "shared"
                         THEN [lease EXCEPT ![spec.workspace] = a] ELSE lease
             /\ UNCHANGED faults
          \/ /\ disk' = [disk EXCEPT ![a] = durable]
             /\ Fault
             /\ UNCHANGED <<mem, lease>>
       /\ UNCHANGED <<catalog, phase, todo, ending>>

(* A mistake for ReopenedOnlyByFollowup and ImplementsTurns to catch: failed   *)
(* agents are reopened too.                                                    *)
BeginFollowupOfFailed(a, caps) ==
    /\ Idle
    /\ Known(a)
    /\ mem[a].state \in Terminal
    /\ ~mem[a].authorized
    /\ caps # {} /\ caps \subseteq mem[a].caps
    /\ mem[a].spec.route = catalog
    /\ disk[a].evidence # "none"
    /\ mem[a].gen < MaxGeneration
    /\ Attempt(a, FollowupStages(Now(a), caps))
    /\ UNCHANGED <<catalog, ending>>

(* begin_followup, asked by the agent's own parent: reopen a settled agent.   *)
BeginFollowup(a, caps) ==
    /\ Idle
    /\ Known(a)
    /\ mem[a].state \in {"Completed", "Interrupted"}
    /\ ~mem[a].authorized
    /\ caps # {} /\ caps \subseteq mem[a].caps
    /\ mem[a].spec.route = catalog
    /\ disk[a].evidence # "none"
    /\ mem[a].gen < MaxGeneration
    /\ Attempt(a, FollowupStages(Now(a), caps))
    /\ UNCHANGED <<catalog, ending>>

(* transition, as drain_ready, the agent loop and wait_for_agent_updates call *)
(* it: never to a terminal state.                                             *)
Transition(a, to) ==
    /\ Idle
    /\ Known(a)
    /\ ValidTransition(mem[a].state, to)
    /\ mem[a].pending = "none"
    /\ Apply(a, LifecycleStep(Now(a), to, FALSE))
    /\ UNCHANGED <<catalog, phase, todo, ending, faults>>

(* finish_with_handoff[_and_warnings]: the validated result of a loop, or the *)
(* interruption of an agent that is not running.                              *)
Finish(a, status) ==
    /\ Idle
    /\ Known(a)
    /\ ValidTransition(mem[a].state, TerminalStateFor(status))
    /\ mem[a].pending = "none"
    /\ OpenOperations(mem[a]) = {}
    /\ Attempt(a, FinishStages(Now(a), status))
    /\ UNCHANGED <<catalog, ending>>

(* A mistake for DurableHandoffDecides to catch: a handoff that is already     *)
(* durable is not resumed but replaced.                                        *)
EndConservativelyAnew(a, status) ==
    /\ ending' = [agent |-> a, status |-> status, open |-> OpenOperations(mem[a])]
    /\ todo' = todo \ {a}
    /\ UNCHANGED <<mem, disk, lease, phase, faults>>

(* A mistake for HistoryReplays to catch: an operation that was only intended  *)
(* is not listed, so it is still open when the handoff is appended.            *)
EndConservativelyStarted(a, status) ==
    IF mem[a].pending # "none"
    THEN Attempt(a, ResumeStages(Now(a))) /\ UNCHANGED ending
    ELSE /\ ending' = [agent |-> a, status |-> status,
                       open |-> {o \in Operations : mem[a].ops[o] = "started"}]
         /\ todo' = todo \ {a}
         /\ UNCHANGED <<mem, disk, lease, phase, faults>>

(* terminate_conservatively: a handoff that is already durable is resumed;     *)
(* otherwise the open operations are listed, each is closed by an append of    *)
(* its own (CloseOperation), and a handoff follows (EndWithHandoff).  The       *)
(* caller holds the scheduler's mutex throughout, or is rehydrate.              *)
EndConservatively(a, status) ==
    IF mem[a].pending # "none"
    THEN Attempt(a, ResumeStages(Now(a))) /\ UNCHANGED ending
    ELSE /\ ending' = [agent |-> a, status |-> status, open |-> OpenOperations(mem[a])]
         /\ todo' = todo \ {a}
         /\ UNCHANGED <<mem, disk, lease, phase, faults>>

(* terminate_conservatively on a live process: the supervisor ends a child    *)
(* whose loop failed.                                                          *)
Terminate(a, status) ==
    /\ Idle
    /\ Known(a)
    /\ mem[a].state \notin Terminal
    /\ EndConservatively(a, status)
    /\ UNCHANGED catalog

(* The listed operations are closed in the order of a HashMap, which is any.   *)
(* The validation in record_runtime_event and finish_with_handoff is that of   *)
(* Replay (OperationStep, AcceptsHandoff), so it is not a guard here: what it   *)
(* would refuse shows as InvalidHistory.                                        *)
CloseOperation(op) ==
    /\ ending # NoAgent
    /\ op \in ending.open
    /\ Attempt(ending.agent, CloseStages(Now(ending.agent), op))
    /\ ending' = IF faults' = faults THEN [ending EXCEPT !.open = @ \ {op}] ELSE NoAgent
    /\ UNCHANGED catalog

EndWithHandoff ==
    /\ ending # NoAgent
    /\ ending.open = {}
    /\ Attempt(ending.agent, FinishStages(Now(ending.agent), ending.status))
    /\ ending' = NoAgent
    /\ UNCHANGED catalog

(* The agent's loop records its trace, between Starting and its own handoff.   *)
(* It may have several operations open: the loop runner appends an intent      *)
(* before it asks for WaitingForTool, and ends with an error when that is       *)
(* refused because another tool is still at work.                              *)
LoopAttached(a) ==
    Known(a) /\ mem[a].state \in Executing /\ mem[a].pending = "none"

(* A mistake for TypeOK to catch: the operation's state is not validated. *)
RecordRuntimeUnvalidated(a, k, op) ==
    /\ Idle
    /\ LoopAttached(a)
    /\ Apply(a, RuntimeStep(Now(a), k, op))
    /\ UNCHANGED <<catalog, phase, todo, ending, faults>>

RecordRuntime(a, k, op) ==
    /\ Idle
    /\ LoopAttached(a)
    /\ OperationStep(k, mem[a].ops[op]) # "refused"
    /\ Apply(a, RuntimeStep(Now(a), k, op))
    /\ UNCHANGED <<catalog, phase, todo, ending, faults>>

RecordProgress(a) ==
    /\ Idle
    /\ LoopAttached(a)
    /\ Apply(a, ProgressStep(Now(a)))
    /\ UNCHANGED <<catalog, phase, todo, ending, faults>>

-----------------------------------------------------------------------------
(* Stops and restarts. *)

(* The process stops. *)
Stop ==
    /\ phase # "down"
    /\ Fault
    /\ Drop
    /\ ending' = NoAgent
    /\ UNCHANGED <<disk, catalog>>

(* A mistake for RecoveryLeavesNothingInFlight to catch: the agent whose first *)
(* Queued event failed is overlooked.                                          *)
NeedsButCreated(pass, r, route) ==
    CASE pass = "handoffs" -> r.pending # "none"
      [] pass = "followups" -> r.authorized /\ r.state \in Terminal
      [] pass = "in_flight" -> r.state \in Executing
      [] pass = "routes" -> r.state = "Queued" /\ r.spec.route # route
      [] OTHER -> FALSE

(* The filter with which a pass of rehydrate makes its list.                   *)
Needs(pass, r, route) ==
    CASE pass = "handoffs" -> r.pending # "none"
      [] pass = "followups" -> r.authorized /\ r.state \in Terminal
      [] pass = "in_flight" -> r.state \in {"Created"} \cup Executing
      [] pass = "routes" -> r.state = "Queued" /\ r.spec.route # route
      [] OTHER -> FALSE

Listed(pass, agents, route) ==
    {a \in Agents : agents[a] # NoAgent /\ Needs(pass, agents[a], route)}

(* rehydrate starts: fold the whole log, under whatever catalog is now        *)
(* configured.  It refuses a log with an event it cannot place.               *)
Rehydrate ==
    /\ phase = "down"
    /\ \A a \in Agents : disk[a] # InvalidHistory
    /\ mem' = [a \in Agents |-> Restored(disk[a])]
    /\ catalog' \in Routes \cup {NoRoute}
    /\ phase' = "handoffs"
    /\ todo' = Listed("handoffs", mem', catalog')
    /\ UNCHANGED <<disk, lease, ending, faults>>

(* A pass is over when it has been through its list; the next one makes its    *)
(* own from what the agents are now.  None looks back.                         *)
NextPass ==
    /\ phase \in Passes \ {"leases"}
    /\ todo = {}
    /\ ending = NoAgent
    /\ phase' = PassAfter(phase)
    /\ todo' = Listed(phase', mem, catalog)
    /\ UNCHANGED <<mem, disk, lease, catalog, ending, faults>>

(* A pass handles the agents of its list, in any order, one at a time.         *)
Handles(pass, a) == phase = pass /\ a \in todo /\ ending = NoAgent

(* 1. A handoff that is already durable decides the terminal state. *)
RecoverHandoff(a) ==
    /\ Handles("handoffs", a)
    /\ Attempt(a, ResumeStages(Now(a)))
    /\ UNCHANGED <<catalog, ending>>

(* 2. An authorized follow-up that never reached the queue is queued. *)
RecoverFollowup(a) ==
    /\ Handles("followups", a)
    /\ Attempt(a, <<Now(a), LifecycleStep(Now(a), "Queued", TRUE)>>)
    /\ UNCHANGED <<catalog, ending>>

(* A mistake for SettledWithEvidence to catch: the interruption has no handoff. *)
RecoverInFlightSilently(a) ==
    /\ Handles("in_flight", a)
    /\ Attempt(a, <<Now(a), LifecycleStep(Now(a), "Interrupted", FALSE)>>)
    /\ UNCHANGED <<catalog, ending>>

(* 3. Work that may have crossed a provider or tool boundary is interrupted. *)
RecoverInFlight(a) ==
    /\ Handles("in_flight", a)
    /\ EndConservatively(a, "interrupted")
    /\ UNCHANGED catalog

(* 4. Queued work whose route changed is interrupted, never rerouted. *)
RecoverRoute(a) ==
    /\ Handles("routes", a)
    /\ EndConservatively(a, "interrupted")
    /\ UNCHANGED catalog

SharedWriters(w) ==
    {a \in Agents : /\ Known(a)
                    /\ mem[a].state \notin Terminal
                    /\ SharedWriter(mem[a])
                    /\ mem[a].spec.workspace = w}

OneWriter(w) == \A a, b \in SharedWriters(w) : a = b

(* 5. The leases are rebuilt, and the scheduler is handed over ... *)
Recovered ==
    /\ phase = "leases"
    /\ \A w \in Workspaces : OneWriter(w)
    /\ lease' = [w \in Workspaces |->
                    IF SharedWriters(w) = {} THEN NoAgent
                    ELSE CHOOSE a \in SharedWriters(w) : TRUE]
    /\ phase' = "up"
    /\ UNCHANGED <<mem, disk, catalog, todo, ending, faults>>

(* ... and two writers of one workspace are refused. *)
Refused ==
    /\ phase = "leases"
    /\ \E w \in Workspaces : ~OneWriter(w)
    /\ Drop
    /\ UNCHANGED <<disk, catalog, ending, faults>>

-----------------------------------------------------------------------------
Operate(a) ==
    \/ \E request \in Requests : Dispatch(a, request.spec, request.caps)
    \/ \E caps \in SUBSET Capabilities : BeginFollowup(a, caps)
    \/ \E to \in Executing : Transition(a, to)
    \/ \E status \in HandoffStatuses : Finish(a, status)
    \/ \E status \in HandoffStatuses \ {"completed"} : Terminate(a, status)
    \/ \E k \in {"intent", "started", "completed", "failed", "interrupted"},
          op \in Operations : RecordRuntime(a, k, op)
    \/ RecordProgress(a)

End == (\E op \in Operations : CloseOperation(op)) \/ EndWithHandoff

Recover(a) ==
    RecoverHandoff(a) \/ RecoverFollowup(a) \/ RecoverInFlight(a) \/ RecoverRoute(a)

Next ==
    \/ \E a \in Agents : Operate(a) \/ Recover(a)
    \/ End
    \/ Stop
    \/ Rehydrate
    \/ NextPass
    \/ Recovered
    \/ Refused

Spec == Init /\ [][Next]_vars

-----------------------------------------------------------------------------
(* Properties. *)

TypeOK ==
    /\ mem \in [Agents -> ScheduledAgent \cup {NoAgent}]
    /\ disk \in [Agents -> DurableAgent \cup {NoAgent, InvalidHistory}]
    /\ lease \in [Workspaces -> Agents \cup {NoAgent}]
    /\ catalog \in Routes \cup {NoRoute}
    /\ phase \in {"up", "down"} \cup Passes
    /\ todo \subseteq Agents
    /\ ending \in Endings \cup {NoAgent}
    /\ faults \in 0..MaxFaults

(* The log a scheduler writes is one its own rehydrate accepts: whatever      *)
(* failed or stopped before, no restart ends in InvalidHistory because of an  *)
(* agent's events.                                                            *)
HistoryReplays == \A a \in Agents : disk[a] # InvalidHistory

(* Folding the log gives exactly the ScheduledAgent in memory, after every    *)
(* operation and every partly failed one; the only agent the log knows and    *)
(* memory does not is the one whose first Queued append failed.               *)
ReplayAgrees ==
    phase # "down" =>
        \A a \in Agents :
            IF Known(a) THEN mem[a] = Restored(disk[a])
            ELSE disk[a] = NoAgent \/ disk[a].state = "Created"

(* A terminal agent ended with the handoff that its terminal event names as   *)
(* cause, in the state that handoff stands for, and left no tool operation    *)
(* open: what parents, follow-ups and mailbox recovery rely on.               *)
Placed(d) == d \notin {NoAgent, InvalidHistory}

SettledWithEvidence ==
    \A a \in Agents :
        (Placed(disk[a]) /\ disk[a].state \in Terminal) =>
            /\ disk[a].evidence # "none"
            /\ disk[a].state = TerminalStateFor(disk[a].evidence)
            /\ OpenOperations(disk[a]) = {}

(* Once a handoff is durable it decides how the turn ends: no later failure,  *)
(* stop or recovery turns it into another outcome.                            *)
DurableHandoffDecides ==
    [][\A a \in Agents :
          (Placed(disk[a]) /\ disk[a].pending # "none") =>
              \/ disk'[a] = disk[a]
              \/ /\ Placed(disk'[a])
                 /\ disk'[a].pending = "none"
                 /\ disk'[a].evidence = disk[a].pending
                 /\ disk'[a].state = TerminalStateFor(disk[a].pending)]_vars

(* What is settled stays settled until a follow-up opens the next turn: only  *)
(* a completed or interrupted agent is reopened, one generation at a time,    *)
(* and never with more capabilities than before.                              *)
ReopenedOnlyByFollowup ==
    [][\A a \in Agents :
          (Placed(disk[a]) /\ disk[a].state \in Terminal) =>
              \/ disk'[a] = disk[a]
              \/ /\ disk[a].state \in {"Completed", "Interrupted"}
                 /\ ~disk[a].authorized
                 /\ Placed(disk'[a])
                 /\ disk'[a].gen = disk[a].gen + 1
                 /\ disk'[a].caps \subseteq disk[a].caps
              \/ /\ disk[a].authorized
                 /\ Placed(disk'[a])
                 /\ disk'[a].state = "Queued"
                 /\ disk'[a].gen = disk[a].gen]_vars

(* One pass per repair is enough: when rehydrate hands the scheduler over, no *)
(* agent is where an old process may have left it, whatever an earlier pass or *)
(* an earlier recovery that was cut off made of it: each is settled, or queued *)
(* with the route it was given.                                                *)
RecoveryLeavesNothingInFlight ==
    [][(phase \in Passes /\ phase' = "up") =>
          \A a \in Agents :
              mem'[a] # NoAgent =>
                  \/ mem'[a].state \in Terminal /\ mem'[a].pending = "none"
                                                /\ ~mem'[a].authorized
                  \/ mem'[a].state = "Queued" /\ mem'[a].spec.route = catalog']_vars

(* At most one agent that can write has unsettled work in a shared workspace. *)
OneSharedWriter == phase = "up" => \A w \in Workspaces : OneWriter(w)

(* A writer whose first turn is unsettled holds the lease of its workspace, so *)
(* that there is one: through failed appends, other writers' follow-ups and    *)
(* restarts.  (A reopened writer does not take it back: OneSharedWriter.)      *)
WriterHoldsLease ==
    phase = "up" =>
        \A w \in Workspaces : \A a \in SharedWriters(w) : mem[a].gen = 0 => lease[w] = a

(* The durable history as turns and results. *)
Settled(d) == d.state \in Terminal /\ ~d.authorized

TurnStatus(d) ==
    IF ~Placed(d) THEN "absent"
    ELSE IF d.authorized THEN "reopening"
    ELSE IF d.state \in Terminal THEN "settled"
    ELSE IF d.pending # "none" THEN "reported" ELSE "open"

TurnResult(d) ==
    IF ~Placed(d) THEN "none"
    ELSE IF Settled(d) THEN d.evidence ELSE d.pending

TurnNumber(d) == IF ~Placed(d) THEN 0 ELSE d.gen

Turns == INSTANCE AgentTurns WITH
    turn <- [a \in Agents |-> TurnNumber(disk[a])],
    status <- [a \in Agents |-> TurnStatus(disk[a])],
    result <- [a \in Agents |-> TurnResult(disk[a])]

(* The log of a scheduler that fails, stops and recovers anywhere still reads *)
(* as turns with one result each.                                             *)
ImplementsTurns == Turns!Spec
=============================================================================
