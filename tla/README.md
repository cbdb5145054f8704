# TLA+ models of ovim's agent runtime and document synchronisation

ovim is a modal editor. Its own logic with the most to go wrong is where several actors
share state: delegated agents that run concurrently and whose every decision must
survive a failed append and a restart (`ovim-core/src/agent_runtime`), durable chats that several
editors open (`run_log`, `editor/ai_durable_chat.rs`), and the language servers' copies of
the buffers (`lsp`, `editor/lsp_integration`). This directory holds TLA+ modules of those
parts, TLC configurations that check them on small instances, and TLAPS proofs, for every value of the
constants, about each of them.

Paths below are relative to the repository (`ovim-core/...`, `user-docs/...`).

## 1. Inventory

| component | state it keeps | operations | status here |
|---|---|---|---|
| Agent dispatch scheduler, `agent_runtime/dispatch.rs` | `agents` (one `ScheduledAgent` each), `shared_writer` leases, the run log | dispatch, begin_followup, transition, finish_with_handoff, terminate_conservatively, record_runtime_event, rehydrate | `AgentScheduler`, `AgentTurns` |
| Messages and mailboxes, `agent_runtime/mailbox.rs` | projections of log events; a watch channel as wakeup | queue, claim, finish_delivery, reject_queued, reconcile_after_restart; notify, consume, wait | `AgentMessages`, `AgentMailbox` |
| Supervisor, `agent_runtime/supervisor.rs` | `live`, semaphore, `pending_terminalizations`, locks | dispatch, drain_ready, run_one, interrupt, followup_agent, wait_for_idle, wait_for_agent_updates | `AgentSupervisor`, and its paths in the three modules above |
| Agent loop, `loop_runner.rs` | deadline, cancellation token, budgets, observed tools | run_inner, execute_tool_request | `AgentLoop` |
| Approval broker, `approval.rs` | pending and resolved approvals, in memory and in the log | request, respond, resolve_system, the drop of a wait, rehydrate | `AgentLoop` |
| Agent runtime service, `service.rs` | conversations: turns, operations, branch tips | restore_conversation, begin_turn, tool transitions, finish_turn, fork, select | `RunHistory`, `DurableChat` (partly) |
| Durable chat, `editor/ai_durable_chat.rs`; run log recovery; catalog | the conversation binding, run owners, the run log | prepare_durable_ai_chat, apply_recovery, start/open/update conversation | `DurableChat`, `RunHistory` |
| Run log store, `run_log/*.rs` | append-only events in SQLite, artifacts, manifests | append, append_if_last | used as an atomic log (partly) |
| LSP document synchronisation, `lsp/notifications.rs`, `editor/lsp_integration/document_*.rs` | `DocumentSyncState`, versions, baselines, debouncers, gates | sync_open_documents, ensure_lsp_document_synced, did_open/change/close_broadcast, flush | `LspDocumentSync` (partly) |
| LSP server lifecycle, `lsp/recovery.rs`, `server.rs` | servers, restart attempts | supervise_servers, restart_server, forget_server_documents | `LspDocumentSync` (partly) |
| Provider sessions, handoff validation, policy, model catalog, workspaces | none of note | stream translation, pure validation, git and file I/O | not modelled |
| Delegation tools, `editor/ai_subagents.rs` | run registry, prepared delegations | tool calls, UI control | not modelled; decides where two supervisor calls come from |
| Buffers, undo, edit log, saving | text, change tree, file stamps | edits, undo, async save | not modelled |
| AI chat and providers, DAP, launch, daemon, API, frontends, Lua, motions, syntax, git, LSP features | - | - | not modelled: external protocols, I/O, presentation, pure text |

How the modelled parts meet:

* The **scheduler** sits behind one mutex. Each operation appends one or two events
  to the run log and then changes memory. A restart folds the log.
* The **supervisor** starts queued children (`drain_ready`), one tokio task each
  (`run_one`), as many as the semaphore has permits. Its locks are always taken in the
  order `drain_lock`, `live`, scheduler. Whatever ends a child goes through
  `terminalize_locked`: the terminal event, then the sweep of its unsettled messages,
  under the scheduler's mutex.
* **Messages** go from a parent to a live child through the log; the child's loop
  claims one between provider operations. **Mailbox notifications** go from an ended
  child to its parent through the log, with a watch channel as wakeup.
* Consumers of the log append by compare-and-append (`append_if_last`) on the sequence
  of the *whole* run, so unrelated agents make each other retry.

* A child's turn is driven by an **agent loop**, which asks the scheduler for its transitions
  through the supervisor's hooks. A gated tool asks the run's **approval broker**, which the user answers
  from another task.
* A **durable chat** is one row of the catalog, which names a run; the run's log belongs to whoever
  opened it, and several processes may have. Events of delegated children are in the same run.
* The **editor's tick** and its requests call the LSP manager; the manager's timers spawn flushes; the
  supervisor of servers restarts them. All share the manager's maps, each with a lock of its own.

What is hard, and what makes each part correct:

* *two appends per operation*: the second may fail, or the process may stop. Memory must
  equal the replay of the log; a durable handoff decides the turn; nothing may be lost or
  ended twice;
* *restart*: work that may have crossed a provider or tool boundary is interrupted, queued
  work survives on its recorded route only, messages are rejected rather than redelivered,
  missing notifications are recreated once;
* *interleaving*: promotion against interrupt, termination against messages, follow-up
  against the old task, two consumers of one mailbox, `notify_waiters` without a permit;
* *several processes on one run*: only recovery's appends are guarded, and processes die between any two;
* *stale copies*: what the editor believes the servers have, the baselines that
  edits are computed against, and what the servers have are three things, kept equal by versions;
* *capacity*: permits that parents give away while they wait, drains that give up
  when there is no permit.

`PROJECT.json` lists the single places under `hazards`, with the properties that watch them.

## 2. Modules

| module | lines of the source | what it is |
|---|---|---|
| `AgentStates` | `DispatchState`, `valid_transition` | states and legal transitions, shared |
| `AgentScheduler` | `dispatch.rs` | the detailed specification of the scheduler |
| `AgentTurns` | - | the abstract one: turns with at most one result each |
| `AgentMessages` | `mailbox.rs`, `supervisor.rs` | steering messages to one child |
| `AgentMailbox` | `mailbox.rs`, `supervisor.rs` | one parent's mailbox |
| `AgentSupervisor` | `supervisor.rs` | tasks, permits, drains, interrupts, follow-ups |
| `AgentLoop` | `loop_runner.rs`, `approval.rs` | one turn's loop, its tools and approvals |
| `RunHistory` | `service.rs`, `run_log/recovery.rs` | what a log says: restoring and recovering as functions of a history |
| `DurableChat` | `ai_durable_chat.rs`, `catalog.rs`, `service.rs`, `recovery.rs` | processes that open, write and recover one chat |
| `LspDocumentSync` | `lsp/*.rs`, `editor/lsp_integration/*.rs` | one document and its servers |
| `AgentSchedulerProofs`, `AgentMessagesProofs`, `AgentMailboxProofs`, `AgentSupervisorProofs`, `AgentLoopProofs`, `DurableChatProofs`, `LspDocumentSyncProofs`, `LspRequestsProofs` | - | the theorems about each component and their proofs (section 4) |
| `MCAgentScheduler`, `MCAgentMailbox`, `MCAgentSupervisor`, `MCDurableChat`, `MCLspDocumentSync` | - | constants for TLC |

### AgentScheduler

`mem[a]` is the `ScheduledAgent` in the process; `disk[a]` is the *fold* of the
agent's durable events by `rehydrate`'s loop body. The loop body reads only that fold and
the next event, so folding while appending and folding at a restart are the same; the log
itself need not be in the state. `InvalidHistory` is the fold once an event is refused. `disk[a].tip` stands
for the id of the last event of the agent's causal chain; ids are compared
for equality with the tip only, so they wrap (`LastEventId`).

An operation is a sequence of *stages*, the pairs (memory, disk) after each of its
appends (`FinishStages`, `FollowupStages`, `ResumeStages`, `CloseStages`). `Attempt` either takes the
last, or stops at an earlier one and spends a `Fault`. `Stop` drops memory.

A loop may have any number of tool operations open: it records an intent before it asks for `WaitingForTool`, and fails
when that is refused because another tool is at work. `EndConservatively` (`terminate_conservatively`) therefore is a call of several
steps: a durable handoff is resumed; otherwise `ending` holds the list of open operations, made once, `CloseOperation` closes one of them by an
append of its own, in any order, and `EndWithHandoff` appends the handoff and the terminal event when the list is empty. Each
append may fail, and the process may stop between any two. While `ending` is set the scheduler's mutex is held (`Idle`).
`CloseOperation` and `EndWithHandoff` do not ask whether the log takes their event: one that it refuses makes the image `InvalidHistory`.

`Rehydrate` folds, and then come its passes in the order of the code: pending handoffs, authorized follow-ups, in-flight
work, routes. A pass lists whom it has to handle (`todo`, by `Needs`) when it begins, the `Recover...` actions handle one of
the list each, and `NextPass` begins the next pass when the list is empty. `Recovered` rebuilds the leases; like the code it looks at
nothing but the shared writers, so that nothing is left in flight is checked and not assumed. A failed append drops the scheduler half-way.

Abstracted: texts, roles, schema versions of older logs (with their direct
`Queued -> Started`), and causes that point outside the agent's chain. `Progress` stands for every trace event that has no
operation.

### AgentTurns

An agent is absent, open, reported, settled or reopening, in turn n, with at most one
result per turn. `AgentScheduler` implements it under the mapping at the end of the module
(`Turns == INSTANCE AgentTurns WITH ...`): what the log says is a turn history, whatever failed.

### AgentMessages

`msg[m]` is the projection of the events about message m, "invalid" as soon as
`AgentMessageProjection` would refuse one. `task["loop"]` and `task["sweep"]` are the two
compare-and-append loops that can be under way at once: `Read` decides on the log as it is, any append makes
a read `stale` (`Outdated`), `AppendIfLast` needs `current`, `Retry` counts to `MaxRetries`.
`lock` is the scheduler's mutex, held by `send_message` over its two appends and by
`terminalize_locked` over the sweep. `reconcile_after_restart` is two passes over lists made once (`todo`): the messages without a
notification (`Unannounced`, `RecoverAnnouncement`), then, as `Reconcile` lists them, all that were sent (`Addressed`, `RecoverMessage`); it ends
when it is through, whatever is left. The provider is external: it takes a message or refuses it.

### AgentMailbox

One parent, the results of its children, and several waiters (`wait`, `wait_for_agent`), each
a clone of the mailbox. The append of a notification and its wakeup are separate steps; a
waiter subscribes, reads the log, and sleeps until the channel's revision moves. A restart goes once through the
results that the log says are missing when it starts (`todo`) and hands over when it is through.

### AgentSupervisor

Any number of drains, `run_one` tasks, interrupts, follow-ups and `wait_for_idle` calls share
`live`, the semaphore and the scheduler. A step is what a task does between two
awaits or under one hold of the scheduler lock: `Promote` and `Publish` are one hold of
`live`; an interrupt holds `live` over its whole pass (`liveLock`). `task[a][g]` follows the
task of turn g of a from its gate to the drain it spawns, so the tasks of two turns can
overlap. `queue[a]` is the set of agents that queued before a, which is all that the code's
`queue_sequence` says of them. `waits` and `debts` are the yielded slots and the dropped ones that still owe a
permit. The scheduler is the part of its state that the supervisor reads (state, generation, a pending
handoff, an authorized follow-up); the log and restarts are in `AgentScheduler`.

`settle_pending_terminalizations` is one step although it takes the scheduler lock once per
parked child. `BeginWait` takes what `wait_for_agent_updates` accepts: called
from a loop in `Running`, as the test of `supervisor.rs` does; the finding `nested_wait` is about
the call the editor makes.

### AgentLoop

`loop[c]` is where the loop of child c is; a step is what happens between two awaits. `ops[c]` are c's tool operations as
the run log has them: intent, start, result, and for a gated one the approval's events. The provider sends any event at
any time, tools answer when they like, the user answers any pending request, the token may be set and the
deadline pass at every await (`Cancel`, `Expire`). Where the code selects over the token, the deadline and an answer
all branches that are ready may be taken (`Interrupt` against the provider's events, `Hear`, `WaitTimesOut`, `GiveUpWait`).

`Works` is what the loop does by itself once the token or the deadline bounds its waits; `Provider` needs somebody
else. `Accepts` is the transition hook: the scheduler's `ValidTransition`, and with `ApprovalTransitions` also the two moves
between a tool and the user that the hooks of the loop's own tests take and the scheduler refuses. Children meet
only in the root's budget and the broker; in the run the siblings are `SiblingReserves`.

### RunHistory and DurableChat

`RunHistory` reads a sequence of events twice: `Verdict` is `restore_conversation` (the first event it refuses decides,
then unfinished work, then the branches), `Seals` is the recovery plan, in order. Identifiers are positions in the log.
The user's message of a turn is folded into its start, the life cycle of the root agent into the creation of the run.

`DurableChat` has processes, each one run of ovim: the catalog's row, the log and registered owners of each run, and where each
process is. Every catalog transaction and every append is a step, and `Exit` may come between any two. The
path through `prepare_durable_ai_chat` is `OpenBound` or `StartFresh`, `Read`, `Rebind`, `Restore`, then recovery (`AskOwners`,
`Plan`, `SealNext`..., `EndSealing`, `Recheck`) or `Decline`, then `Fork`, `Select`, `Publish`, `RegisterOwner`. The two readings of
the events (whether there are any, and the restore) are one step: a run with events keeps them. The liveness of a process is exact;
a conservative answer is one of the ways to decline, and reuse of a process id is left out.

`HistoryStaysReadable` and `SealsOnlyTheDead` leave one race out by name, `SealedUnseen`: an editor that registers as owner after the
owners were asked may have a turn closed that it began before the plan was made.

### LspDocumentSync

`sync` is the editor's `DocumentSyncState`, `doc` the manager's maps for the document (claimed version, last sent version,
the debouncer's pending change), `base` its baselines (`server_documents`), `server` what the servers really have. A
step is what a task does between two awaits at which it can be suspended: a lock or a server's start. A
notification never waits, it is queued or refused (`Accepts`, `Refuses`). Waiting at a document's gate is the same as
not having reached it. Changes are incremental: `Changed` is sound for a server only if the text the difference was computed
from is the text it has. A process that died may still be written to until its queue is closed (`Reaches`).

`mishaps` names two kinds of trouble that the code does not make good: the document is used while `forget_server_documents`
takes it out of one map after the other, and a close whose flush or didClose failed. After one, nothing more is asked and the
properties, `BaselineIsServerText` apart, say nothing; both are listed as hazards. The few awaits inside `open_document_on_server` are taken as one step.

## 3. Runs

Passing (each property also has a mutant, a plausible bug in a mapped definition, under which TLC
finds it violated):

| run | instance | what it shows |
|---|---|---|
| `scheduler_restart` | one agent, two operations that may both be open, two follow-ups, three faults | types; the log always replays; memory equals the replay; settled turns have evidence and nothing open; a durable handoff decides; only follow-ups reopen; `AgentTurns` is implemented |
| `scheduler_writers` | two writers of one shared workspace, one follow-up each, two faults | a first-turn writer holds the lease; the single passes of a restart leave nothing in flight; two open writers make rehydrate refuse |
| `messages` | two messages, one follow-up, two retries, two faults | the log stays readable; messages cross once and in order; what is recorded of a delivery is true and recorded once; terminal children have no unsettled message; the single passes of a restart settle all; queued messages are settled |
| `mailbox` | two results, two waiters, two faults | no lost wakeup; notified once and consumed once; the one pass of a restart announces what is missing; waiters are served |
| `supervisor` | one permit, an interrupt, a fault, a redrain; a parent that delegates, or agents that two callers follow up, in any state they see | whoever is started can be cancelled or is parked; no more loops than permits and owed permits; an interrupt stops what it set out to stop |
| `supervisor_answers` | two siblings, one permit, a follow-up, `wait_for_idle`, no fault | every turn is answered; `wait_for_idle` is not left asleep |
| `agent_loop` | one child, four events, two tool calls, siblings, one fault, one restart | an approval is decided once and gates its tool; nobody is asked for a loop that is gone; no open operation behind a handoff; loops end by their deadline |
| `resume` | three editors, two at a time, two with `--resume`, a delegation, a tool, one turn each | the log stays readable under all writers; recovery closes only the work of the dead; effects are not denied; one writer per branch; every stop can be recovered, also one inside a recovery |
| `lsp_documents` | two servers, two texts; per instance two edits, or a crash, or a refused message and a late server | baselines are what servers have; no message breaks the protocol; where the editor finds nothing to synchronise before a request, the servers have the current text (after a refused flush the request goes out all the same); every live server comes to have the buffer |

Violations, each a finding in `PROJECT.json` with the text it contradicts:

| run | what TLC shows |
|---|---|
| `reopened_writer` | a followed-up writer does not take its lease back: two open writers in one shared workspace |
| `nested_wait` | a parent waits for its children in a tool call, and `WaitingForTool -> WaitingForAgent` is refused, so it never yields its slot |
| `resume_delegated` | a conversation that ever delegated cannot be resumed: restore takes the child's events for another conversation's, and that answer is an error, with neither recovery nor a new run |

Other things TLC showed while the models were built, kept as notes of the hazards: an interrupt misses a child that is dispatched
between its snapshot and its lock; one failed append while a queued child is interrupted stops the queue until a restart; a parked
terminalization can end the next turn of its child; for a moment after a dropped wait more loops run than there are permits.

### Bounds, and why they are enough

* *One agent* in `scheduler_restart`: the scheduler's operations touch one agent each, and only the leases relate
  two; `scheduler_writers` has two. What the first shows is proved for any number (section 4).
* *Three faults* allow a failure inside the recovery of a failure inside an operation. *Two follow-ups* allow a
  failed one after a successful one. `LastEventId` 3 lets a stale tip differ from the
  next two events.
* *Two messages* are the least with an order; *two retries* of 32 the least with a retry and a limit.
* *Two waiters* race for one acknowledgement. *One permit* makes every yielded slot and every
  drain matter.
* `MaxDrains` bounds drains that somebody asks for (`Redrain`, `BeginWait`); the drains that the
  code spawns itself, after a dispatch, a follow-up or an ended task, are not bounded.
* `StaleFollowup` is the step in which `begin_followup` reopens an agent that is in the live map again, or about to be published in it:
  `followup_agent` looked at the map before, and let go of it. The task of the earlier turn then removes the new turn's handle. The
  code does not exclude it, and with it TLC violates `StartedIsLive` and `InterruptStopsAll` (a hazard). The action constraint
  `FollowUpsAreFresh` of `supervisor` leaves out that step and no other: there are two callers, and they may follow up agents they saw queued,
  running or settled. One agent with two permits, two callers and two generations under the same constraint was checked by hand (357,940 states).
* `OnlySettled = TRUE`, in `supervisor_answers` and `nested_wait` only, asks follow-ups of settled agents; `supervisor_answers` passes with
  `FALSE` too (151,869 states, by hand), `TRUE` keeps it short.
* `DelegatesOrReopens` (a state constraint of `supervisor`): a child that delegates is not followed up, and the other way round. The
  orders of both together are beyond 17 million states, in which no violation was found.
* `agent_loop`: four events are a requested tool, an observed one, its failure and the handoff; two calls exhaust the budget. An
  instance with two children (2 million states) passes too; it adds nothing that `SiblingReserves` does not.
* `resume`: *three editors* are the least in which a recovery races a second one and a third reads what both left; `MaxAtOnce` 2 keeps
  two alive at a time, and `NumRuns` 4 run ids are enough for each to decline once. Turns on a run that nobody else reads or can come
  to read are left out (`Shared`).
* `lsp_documents`: the budgets (`Mixed`) are one server through two edits, a crash and a fault; two without a crash; two without a
  second edit. An edit is also a reload or a close. By hand, safety was also checked for two servers with two edits, a crash and a fault
  (8 million states), and all properties for one server with two edits, a crash and a fault alone. Ticks and requests are not bounded.

`CHECK_DEADLOCK FALSE` where the system may stop: a run whose agents are all settled, a process that has stopped, a user who
does nothing more. `AgentLoop` has a `Rest` step instead.

### Fairness

* `AgentMessages`: a task that is in a compare-and-append loop goes on; a loop ends (it has a
  deadline, `AgentLoopBudget.timeout`; `LoopsEnd` shows it); its task terminalizes the child; a started `rehydrate` is one synchronous call.
  No fairness for sends, restarts, or the retry of what is parked.
* `AgentMailbox`: the task that appended a notification sends the wakeup; a woken waiter runs. Nobody must time out.
* `AgentSupervisor`: weak fairness for tasks that hold what they need; strong fairness for those that
  wait for `live` (tokio's mutex is first come first served); loops end. Nobody must dispatch, interrupt, follow up or redrain.
* `AgentLoop`: the runtime polls a loop that can move, and deadlines pass. No provider, tool or user must answer.
  `LoopsEnd` excepts two calls of the provider that the code bounds by neither the token nor the deadline
  (`submit_tool_result`, `repair_handoff`).
* `LspDocumentSync`: the editor's task, flushes and restarts go on; a retry time comes; ticks come between the user's
  keys (strong fairness: a tick is possible only while no other call of the editor is under way). Nobody must edit, load or ask.
* `AgentScheduler` and `DurableChat` have safety properties only.

## 4. Proofs

Each component has a module of theorems, proved for any sets of agents, messages, processes, servers and so on, and for any bounds
that satisfy the component's assumption (`SchedulerAssumption`, `MessagesAssumption`, ...; TLC evaluates each on the runs, and they say no
more than that the constants have their types and that a marker such as `NoText` is not one of the values it is told apart from).
What is proved of any number of faults, retries, restarts, turns and actors is what the runs can only show of a few.

| module | theorem | states | 
|---|---|---|
| `AgentSchedulerProofs` | `Invariance`, `TypeCorrect` | `IInv`, `TypeOK` |
| | `HistoryAccepted` | `HistoryReplays` |
| | `ReplayCorrect` | `ReplayAgrees` |
| | `EvidenceForSettled` | `SettledWithEvidence` |
| | `HandoffIsFinal` | `DurableHandoffDecides` (an action property) |
| | `SettledStaysSettled` | `ReopenedOnlyByFollowup` (action) |
| | `RecoverySettlesAll` | `RecoveryLeavesNothingInFlight` (action) |
| | `LeasesAreHeld` | `WriterHoldsLease` |
| | `RefinesTurns` | `ImplementsTurns`, the refinement of `AgentTurns` |
| `AgentMessagesProofs` | `TypeCorrect` | `TypeOK` |
| | `Readable` | `LogStaysReadable` |
| | `CrossesOnce` | `CrossesOnceInOrder` |
| | `Truthful` | `LogIsTruthful` |
| | `NothingIsLeft` | `TerminalLeavesNothing` |
| | `RecoveryIsComplete` | `RecoverySettles` (action) |
| `AgentMailboxProofs` | `TypeCorrect` | `TypeOK` |
| | `WakeupsNotMissed` | `NoMissedWakeup` |
| | `HappensOnce` | `UpdatesHappenOnce` |
| | `RecoveryAnnouncesAll` | `RecoveryNotifiesAll` (action) |
| `AgentSupervisorProofs` | `Invariant`, `TypeCorrect` | `IInv`, `TypeOK` |
| | `SlotsBound` | `SlotsBoundLoops` |
| | `TurnInvariant` | `TurnInv`, or a `StaleFollowup` step is taken |
| | `StartedStaysLive` | `StartedIsLive`, or a `StaleFollowup` step is taken |
| | `InterruptStops` | `InterruptStopsAll` (action), or a `StaleFollowup` step is taken |
| | `NoWakeupIsLost` | `NoLostIdleWakeup`, or a `StaleFollowup` or a `TellingFails` step is taken |
| `AgentLoopProofs` | `TypeCorrect` | `TypeOK` |
| | `DecidedOnce` | `ApprovalIsDecidedOnce` |
| | `RequestsAreAwaited` | `PendingIsAwaited` |
| | `HandoffsAreClosed` | `NothingOpenAtHandoff` |
| `DurableChatProofs` | `Invariant`, `TypeCorrect` | `IInv`, `TypeOK` |
| | `StaysReadable` | `HistoryStaysReadable` |
| | `OnlyTheDeadAreSealed` | `SealsOnlyTheDead` |
| | `EffectsStand` | `EffectsAreNotDenied` |
| | `OneWriterPerBranch` | `BranchHasOneWriter` |
| | `CrashesAreRecoverable` | `CrashIsRecoverable` |
| `LspDocumentSyncProofs` | `TypeCorrect` | `TypeOK` |
| | `BaselineHolds` | `BaselineIsServerText` |
| | `MessagesFit` | `ServersAreSound` |
| `LspRequestsProofs` | `RequestsAreCurrent` | `RequestsSeeCurrentText` |

In every module the shape is the same: `IInv` is the inductive invariant (the document's two have more on top of it, `PInv` and `BInv`), a conjunction of named parts; it holds of `Init`; one lemma per
action, or per kind of effect that several actions have, shows that the action keeps it; the properties follow from it, and an action
property from it and the step. What makes each `IInv` more than the properties it proves:

* **Scheduler.** That an event is accepted depends on the whole image of the agent, and memory may differ from the image only in known
  ways. `IInv` adds that each image is `Sound` (a terminal image has evidence and no open operation; a pending handoff fits the state and
  leaves nothing open) and, per agent, that memory is the restored image (`AgentInv`). `CallInv` says that a termination under way still has
  exactly the open operations to close, so its handoff is accepted however many there were and wherever an earlier attempt stopped. `PassInv`
  says that whoever needs the pass that runs is on its list or being ended, and that nobody needs a pass that is over (`Past`): what
  one pass makes of an agent never makes an earlier one necessary again, which is why a single pass each is enough. The argument goes append by append:
  `Synced(p)` says that a stage's memory and image agree and are sound, one lemma per kind of event shows that the event keeps it, so each stage
  of an operation is `Synced`, wherever a failure cuts it off. The same lemmas say how an image moves (`Advances`), which gives the action
  properties and the refinement. `WriterHoldsLease` is an invariant of its own next to `IInv`: an operation moves leases only for the
  agent it is about, and a restart rebuilds them from memory.
* **Messages.** Between `Read` and `AppendIfLast` a task acts on what it has read. `JobIsSound` says what a reading that is still
  `current` guarantees of the log; any other append makes it stale and a message only moves forward (`Moves`), so what is not current is harmless.
  `RecoveryCovers` (what a pass of the restart has still to repair is on its list) gives `RecoverySettles`,
  `SweepCovers` (what is unsettled is in the sweep's list, under the scheduler's mutex) `TerminalLeavesNothing`; `OfferedInOrder`
  (whatever crossed has a smaller number than whatever may still be offered) gives the order.
* **Mailbox.** A waiter whose reading is current read a log in which its update is unacknowledged (`Heard`); a result is posted
  by one task, or by recovery when that task is gone (`Posted`, `Quiet`), whose list is at every moment what is missing (`ListedMissing`).
* **Supervisor, permits.** `Accounts`: the free permits, those that tasks hold and the one in the drain's hand are the permits there are,
  those still owed and those that waits have given away. It needs that tasks belong to turns that have begun (`TurnsAreFresh`) and that only running turns wait.
* **Supervisor, turns.** `TurnInv` adds that the task of a turn keeps its agent in the live map from the publication to its leaving,
  that no other turn of the agent begins before that (`Lives`), and that an interrupt has stopped whatever of its goal it has passed (`Goals`).
  One step of the system breaks it, `StaleFollowup` (section 3, Bounds), so the theorems have it as an alternative: `P \/ <><<StaleFollowup>>_vars`.
  Nothing is assumed of callers; a run without that step, whatever else its follow-ups, failures and interrupts do, has the property, and so has
  every run up to its first such step. `NoWakeupIsLost` has a second one, `TellingFails`: an interrupt that fails half-way through telling leaves the observers
  of the children it has ended asleep (a hazard).
* **Loop.** `Good(l, s)` relates a loop to the operations of its child: every operation that is not closed is the one it
  serves, one it has observed, or left behind by a loop that failed or is gone (`Known`). Steps are taken by what they do to the operations: nothing, one
  rewritten, one appended.
* **Durable chat.** `LogIsSound` says which shapes of log can come about, and that each event can be read by restore, or the run is
  `SealedUnseen`; `ProcIsSound` says what a process on its way knows: a plan was made of a log whose writers were dead (`OwnersWereDead`), the seals so far are
  the first of that plan (`SealsFollowPlan`), a writer's tip, turn and operation are those of the log (`WriterIsSound`). `Harmless` names what one
  process's append may not do to another. The plan is a function of the log's prefix, so its order is used only through what `ByAge` promises.
* **Durable chat, after a crash.** `CrashIsRecoverable` is about one history and no step: what `apply_recovery` makes of it, undisturbed
  (`Sealed`). `Sealed` is given by position, each closing event looking back on the history and on the plan before it; a cause depends on branches
  only (`SameBranches`), so it is also the event that `SealNext` would append to what is there (`SealedIs`). Thus the lemmas about `SealNext` say that
  one more closing event keeps the history sound and is taken by restore (`OneMoreSeal`). The induction over the plan is the least number of a
  set: were there a first closing event that restore refuses, the one before it was not refused (`SealedIsTaken`). Completeness is
  separate: the plan has a closing event for each open operation and turn (`SealsAreAll`), and none of them selects a branch, so nothing is left
  open and the same branch is selected (`SealedLeavesNothing`).
* **Documents.** The editor's task is sequential, so its place says whether there is a buffer (`EditorHasBuffer`); a dead server has
  nothing open. `BaselineIsServerText` is then inductive, mishaps included.
* **Documents, messages.** `Protocol` is about the manager's maps and holds until a mishap: what `server_documents` records is open at the
  server but for the steps of a close behind its `didClose` (`RecordedIsOpen`); nothing is on its way during a close or while a document is
  forgotten (`CloseIsQuiet`, `ForgettingIsQuiet`); a document without a version starts from nothing (`UnclaimedIsNew`, `ClaimIsFirst`); one
  flush is under way (`OneFlush`); and the versions are in order: the servers', the one being sent, the pending one, the document's (`VersionsGrow`).
* **Documents, requests.** `Bookkeeping` ties `DocumentSyncState` to the servers, next to `Protocol`: what is pending, or being sent, is what was
  last queued, under its version (`QueuedIsNoted`), and newer than all that was sent (`StrictlyNewer`); whoever a flush has passed has its
  text (`FlushProgress`); so what is taken for delivered was (`SyncIsTrue`), and `reconcile_document_sync_with_manager` believes only what is so
  (`ReconciledIsSound`). A server that joins has the buffer before the change that follows (`Joining`); it is no exception any more where
  requests are asked.

Proving changed the models in a few places. `LspDocumentSync`: a `did_open` whose document is forgotten while it is being opened is now a
mishap (`Forgotten`); before, a larger instance violated `RequestsSeeCurrentText` for that reason. Its markers must not be texts (`SyncAssumption`).
`AgentSupervisor`: the queue is the order of `queue_sequence` and not a sequence of its own. `RunHistory`: what the recovery plan lists is
ordered by `ByAge`, `Sealed` is given by position and no longer by a fold (both agree on every state of the `DurableChat_resume` run), and the absent outcome has a name. `DurableChat`: a new run takes an unused identifier, and cannot when there is none. Elsewhere only the form of a definition changed.

Every invariant, and every action property that is not about fairness, of the passing runs is stated by a theorem. Only model-checked:

* every liveness property (`QueuedIsSettled`, `WaitersAreServed`, `TurnsAreAnswered`, `LoopsEnd`, `EventuallySynced`): fairness is out of the prover's reach;
* what the three violation runs refute (`NestedWaitsAreAccepted` among them, which is about `ENABLED` steps besides).

## 5. Plan

In order of importance; all but the last are done.

1. `AgentScheduler`, `AgentTurns`, their runs and proofs.
2. `AgentMessages`, `AgentMailbox`.
3. `AgentSupervisor`.
4. `AgentLoop` with the approval broker.
5. `RunHistory`, `DurableChat`: several processes on one run (the planned `RunLog` became these, as its
   hard part is not the SQLite transaction but who appends between two of them).
6. `LspDocumentSync`.
7. Proofs of every component's types and safety invariants.
8. Proofs of `ServersAreSound` and `RequestsSeeCurrentText`.
9. The proof of `CrashIsRecoverable`.
10. Not begun: a composition of `AgentSupervisor` with the stages of `AgentScheduler`, restarts included; asynchronous saves
   against external changes.

### Not modelled

Pure functions of text (motions, text objects, syntax, handoff validation, policies), external protocols and their clients
(providers, DAP, git), rendering and input, and file I/O (workspaces, manifests, artifacts) hold most of the repository's lines and little
of its interleaving; the repository tests them with examples and properties. Within modelled parts: labels, usage records and display
projections; several locators of one process; didSave and will-save edits, renamed documents, hidden buffers and servers that do not want
opens or changes; back-off times; idempotent event ids of the store. A failed append in `DurableChat` is a process that stops
there: what an editor does that goes on after one is not modelled.

## 6. Running

    tlc -workers 2 -config AgentScheduler_restart.cfg MCAgentScheduler.tla
    tlapm AgentSchedulerProofs.tla      (and the seven other *Proofs modules)

The pairs of module and configuration are under `runs` in `PROJECT.json`. The longest runs, `supervisor_answers` and
`lsp_documents`, take about two minutes each; the longest proofs, those of the durable chat and the supervisor, about as long.
`LspRequestsProofs` extends `LspDocumentSyncProofs`.
