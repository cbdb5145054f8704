---------------------------- MODULE AgentMessages ----------------------------
(***************************************************************************)
(* Steering messages to one delegated child: AgentMessageQueue and          *)
(* AgentMessageProjection of ovim-core/src/agent_runtime/mailbox.rs, with    *)
(* the paths of supervisor.rs that drive them: send_message, the delivery   *)
(* loop of MessageDeliveringSession, the sweep of terminalize_locked and    *)
(* recover_agent_messages.                                                  *)
(*                                                                          *)
(* A message is an event of the run log.  What became of it is decided by   *)
(* later events, each appended by a compare-and-append on the sequence of   *)
(* the WHOLE run: a task reads the log, decides, and appends only if no     *)
(* event of any agent was added since; otherwise it reads again, a limited  *)
(* number of times.  msg[m] is the projection of the events about m.        *)
(***************************************************************************)
EXTENDS Integers, Sequences

CONSTANTS
    NumMessages,  \* messages the parent sends
    MaxRetries,   \* MAX_CONSUME_RETRIES
    MaxTurns,     \* bound on follow-up turns of the child
    MaxFaults     \* bound on failed appends and process stops

ASSUME MessagesAssumption ==
    /\ NumMessages \in Nat /\ NumMessages >= 1
    /\ MaxRetries \in Nat /\ MaxRetries >= 1
    /\ MaxTurns \in Nat
    /\ MaxFaults \in Nat

VARIABLES
    msg,        \* msg[m]: projection of the durable events about message m
    recipient,  \* the child's dispatch state, as far as admission asks
    turn,       \* follow-up turns begun
    loop,       \* where the child's loop task is
    current,    \* the message the loop is delivering, or 0
    task,       \* the compare-and-append the loop and the sweep are in
    todo,       \* messages the sweep, or a pass of a recovery, has still to handle
    lock,       \* who holds the scheduler's mutex
    swept,      \* SteeringSweep of the last terminalization
    parked,     \* the child is in pending_terminalizations
    crossed,    \* messages handed to the provider, in order
    accepted,   \* messages the provider took
    phase,      \* "up", "down", or the pass of a recovery: "announcing", "recovering"
    faults

child == <<recipient, turn, loop, current, parked>>
provider == <<crossed, accepted>>
vars == <<msg, child, task, todo, lock, swept, provider, phase, faults>>

-----------------------------------------------------------------------------
(* Values. *)

Messages == 1..NumMessages
Tasks == {"loop", "sweep"}

Outcomes == {"delivered", "rejected"}
MessageStates == {"absent", "queued", "delivering", "invalid"} \cup Outcomes

(* acks counts MailboxConsumed events, up to the second one. *)
MessageRecord ==
    [state : MessageStates, claimed : BOOLEAN, notified : BOOLEAN, acks : 0..2]

Absent == [state |-> "absent", claimed |-> FALSE, notified |-> FALSE, acks |-> 0]

Settled(m) == msg[m].state \in Outcomes
Unsettled == {m \in Messages : msg[m].state \in {"queued", "delivering"}}

(* queued_for: delivery offers only what was announced. *)
Deliverable == {m \in Messages : msg[m].state = "queued" /\ msg[m].notified}

(* The message is in the log and its notification is not. *)
Unannounced == {m \in Messages : msg[m].state # "absent" /\ ~msg[m].notified}

(* Messages are numbered by their event ids, which are issued in order. *)
First(S) == CHOOSE m \in S : \A n \in S : m <= n

(* A mistake for CrossesOnceInOrder to catch: a rejected claim is queued again. *)
DeliverAgain(r, event) ==
    IF r.state = "queued" /\ event = "started"
    THEN [r EXCEPT !.state = "delivering", !.claimed = TRUE]
    ELSE IF r.state = "delivering" /\ event = "delivered"
    THEN [r EXCEPT !.state = "delivered"]
    ELSE IF r.state = "delivering" /\ event = "rejected"
    THEN [r EXCEPT !.state = "queued"]
    ELSE IF r.state = "queued" /\ event = "rejected"
    THEN [r EXCEPT !.state = "rejected"]
    ELSE [r EXCEPT !.state = "invalid"]

(* apply_delivery: what a delivery event makes of a message.  Any other       *)
(* sequence of events makes every later projection of the run fail.           *)
Deliver(r, event) ==
    IF r.state = "queued" /\ event = "started"
    THEN [r EXCEPT !.state = "delivering", !.claimed = TRUE]
    ELSE IF r.state = "delivering" /\ event = "delivered"
    THEN [r EXCEPT !.state = "delivered"]
    ELSE IF r.state \in {"queued", "delivering"} /\ event = "rejected"
    THEN [r EXCEPT !.state = "rejected"]
    ELSE [r EXCEPT !.state = "invalid"]

(* A second notification of a message is refused, a second acknowledgement    *)
(* is ignored.                                                                *)
Announce(r) ==
    IF r.notified THEN [r EXCEPT !.state = "invalid"] ELSE [r EXCEPT !.notified = TRUE]

Acknowledge(r) == [r EXCEPT !.acks = IF @ < 2 THEN @ + 1 ELSE @]

Idle == [do |-> "none", m |-> 0, ok |-> FALSE, tries |-> 0, read |-> "no"]
Job(do, m, ok) == [do |-> do, m |-> m, ok |-> ok, tries |-> 0, read |-> "no"]

Jobs ==
    [do : {"none", "claim", "finish", "reject", "consume"}, m : 0..NumMessages,
     ok : BOOLEAN, tries : 0..MaxRetries, read : {"no", "current", "stale"}]

-----------------------------------------------------------------------------
Fault == faults < MaxFaults /\ faults' = faults + 1

(* An event was appended: what the tasks have read is no longer the log.      *)
Outdated(t) ==
    [p \in Tasks |-> IF t[p].read = "current" THEN [t[p] EXCEPT !.read = "stale"] ELSE t[p]]

Append1(m, r) == msg' = [msg EXCEPT ![m] = r]

Init ==
    /\ msg = [m \in Messages |-> Absent]
    /\ recipient = "queued"
    /\ turn = 0
    /\ loop = "off"
    /\ current = 0
    /\ task = [p \in Tasks |-> Idle]
    /\ todo = {}
    /\ lock = "free"
    /\ swept = "none"
    /\ parked = FALSE
    /\ crossed = <<>>
    /\ accepted = {}
    /\ phase = "up"
    /\ faults = 0

-----------------------------------------------------------------------------
(* The parent. *)

(* A mistake for TerminalLeavesNothing to catch: the child's state is not asked. *)
SendToAnyone ==
    /\ phase = "up"
    /\ lock = "free"
    /\ \E m \in Messages :
          /\ msg[m].state = "absent"
          /\ \A n \in Messages : n < m => msg[n].state # "absent"
          /\ Append1(m, [Absent EXCEPT !.state = "queued"])
    /\ lock' = "send"
    /\ task' = Outdated(task)
    /\ UNCHANGED <<child, todo, swept, provider, phase, faults>>

(* send_message: the check of the child's state and both appends of `queue`   *)
(* are one critical section of the scheduler's mutex.  The message is first   *)
(* in the log ...                                                             *)
SendMessage ==
    /\ phase = "up"
    /\ lock = "free"
    /\ recipient = "live"
    /\ \E m \in Messages :
          /\ msg[m].state = "absent"
          /\ \A n \in Messages : n < m => msg[n].state # "absent"
          /\ Append1(m, [Absent EXCEPT !.state = "queued"])
    /\ lock' = "send"
    /\ task' = Outdated(task)
    /\ UNCHANGED <<child, todo, swept, provider, phase, faults>>

(* ... and then announced; if that append fails the message stays behind.     *)
AnnounceMessage ==
    /\ phase = "up"
    /\ lock = "send"
    /\ lock' = "free"
    /\ \/ \E m \in Unannounced :
             /\ \A n \in Unannounced : n <= m
             /\ Append1(m, Announce(msg[m]))
          /\ task' = Outdated(task)
          /\ UNCHANGED faults
       \/ Fault /\ UNCHANGED <<msg, task>>
    /\ UNCHANGED <<child, todo, swept, provider, phase>>

-----------------------------------------------------------------------------
(* The compare-and-append loops: claim, finish_delivery, reject_queued and     *)
(* consume, run by the loop task and by the sweep.                             *)

(* The operation is over: the loop is back at a provider boundary, the sweep   *)
(* goes on with the next message.                                             *)
Finished(p, tasks) ==
    /\ task' = [tasks EXCEPT ![p] = Idle]
    /\ UNCHANGED <<lock, swept>>
    /\ IF p = "loop"
       THEN loop' = "boundary" /\ current' = 0 /\ UNCHANGED todo
       ELSE todo' = todo \ {task[p].m} /\ UNCHANGED <<loop, current>>

(* The operation returned an error: the loop ends with it, the sweep gives up. *)
Failed(p) ==
    /\ task' = [task EXCEPT ![p] = Idle]
    /\ IF p = "loop"
       THEN loop' = "ended" /\ current' = 0 /\ UNCHANGED <<todo, lock, swept>>
       ELSE /\ todo' = {}
            /\ lock' = "free"
            /\ swept' = "incomplete"
            /\ loop' = IF loop = "sweeping" THEN "off" ELSE loop
            /\ UNCHANGED current

(* consume_notification and consume: no notification, or acknowledged before.   *)
NothingToAppend(m) == msg[m].acks > 0 \/ ~msg[m].notified

(* Read the log and decide: append, or go on with what is left to do when      *)
(* another task was there first.                                              *)
Read(p) ==
    LET job == task[p]
        state == msg[job.m].state
        append == \/ job.do = "claim" /\ state = "queued"
                  \/ job.do = "finish" /\ state = "delivering"
                  \/ job.do = "reject" /\ ~Settled(job.m)
                  \/ job.do = "consume" /\ ~NothingToAppend(job.m)
        next == IF job.do = "claim" THEN "reject" ELSE "consume"
    IN /\ phase = "up"
       /\ job.do # "none"
       /\ job.read = "no"
       /\ \/ /\ append
             /\ task' = [task EXCEPT ![p].read = "current"]
             /\ UNCHANGED <<loop, current, todo, lock, swept>>
          \/ /\ ~append
             /\ job.do # "consume"
             /\ task' = [task EXCEPT ![p] = Job(next, job.m, FALSE)]
             /\ UNCHANGED <<loop, current, todo, lock, swept>>
          \/ ~append /\ job.do = "consume" /\ Finished(p, task)
       /\ UNCHANGED <<msg, recipient, turn, parked, provider, phase, faults>>

(* A mistake for LogIsTruthful to catch: the provider's answer is dropped. *)
VerdictUnasked(job) == IF job.do = "finish" THEN "delivered" ELSE "rejected"

(* The delivery state that settles a message: finish_delivery records what the *)
(* provider answered, reject_queued rejects.                                   *)
Verdict(job) == IF job.ok THEN "delivered" ELSE "rejected"

(* The event a task appends about its message. *)
Record(p) ==
    LET job == task[p]
    IN /\ \/ /\ job.do = "claim"
             /\ Append1(job.m, Deliver(msg[job.m], "started"))
             /\ task' = Outdated([task EXCEPT ![p] = Idle])
             /\ loop' = "delivering"
             /\ current' = job.m
             /\ UNCHANGED <<todo, lock, swept>>
          \/ /\ job.do \in {"finish", "reject"}
             /\ Append1(job.m, Deliver(msg[job.m], Verdict(job)))
             /\ task' = Outdated([task EXCEPT ![p] = Job("consume", job.m, FALSE)])
             /\ UNCHANGED <<loop, current, todo, lock, swept>>
          \/ /\ job.do = "consume"
             /\ Append1(job.m, Acknowledge(msg[job.m]))
             /\ Finished(p, Outdated(task))
       /\ UNCHANGED <<recipient, turn, parked, provider, phase, faults>>

(* A mistake for LogStaysReadable to catch: a plain append, not append_if_last. *)
AppendAnyway(p) == phase = "up" /\ task[p].read # "no" /\ Record(p)

(* append_if_last, when nothing was appended since the read ... *)
AppendIfLast(p) == phase = "up" /\ task[p].read = "current" /\ Record(p)

(* ... and when something was: read again, or give up (ConcurrentUpdateLimit). *)
Retry(p) ==
    /\ phase = "up"
    /\ task[p].read = "stale"
    /\ \/ /\ task[p].tries + 1 < MaxRetries
          /\ task' = [task EXCEPT ![p].tries = @ + 1, ![p].read = "no"]
          /\ UNCHANGED <<loop, current, todo, lock, swept>>
       \/ task[p].tries + 1 >= MaxRetries /\ Failed(p)
    /\ UNCHANGED <<msg, recipient, turn, parked, provider, phase, faults>>

(* The store fails the read or the append. *)
StoreFails(p) ==
    /\ phase = "up"
    /\ task[p].do # "none"
    /\ Fault
    /\ Failed(p)
    /\ UNCHANGED <<msg, recipient, turn, parked, provider, phase>>

(* Events of the other agents of the run make a pending append lose.           *)
OthersAppend ==
    /\ phase = "up"
    /\ \E p \in Tasks : task[p].read = "current"
    /\ task' = Outdated(task)
    /\ UNCHANGED <<msg, child, todo, lock, swept, provider, phase, faults>>

-----------------------------------------------------------------------------
(* The child's loop: MessageDeliveringSession::deliver_pending. *)

(* drain_ready starts the queued child. *)
Start ==
    /\ phase = "up"
    /\ lock = "free"
    /\ recipient = "queued"
    /\ loop = "off"
    /\ recipient' = "live"
    /\ loop' = "boundary"
    /\ task' = Outdated(task)
    /\ UNCHANGED <<msg, turn, current, parked, todo, lock, swept, provider, phase, faults>>

(* Between two provider operations: take the first deliverable message.        *)
TakeMessage ==
    /\ phase = "up"
    /\ loop = "boundary"
    /\ Deliverable # {}
    /\ loop' = "busy"
    /\ task' = [task EXCEPT !["loop"] = Job("claim", First(Deliverable), FALSE)]
    /\ UNCHANGED <<msg, recipient, turn, current, parked, todo, lock, swept, provider,
                   phase, faults>>

(* The claimed message crosses the provider boundary ... *)
Cross ==
    /\ phase = "up"
    /\ loop = "delivering"
    /\ loop' = "crossing"
    /\ crossed' = Append(crossed, current)
    /\ UNCHANGED <<msg, recipient, turn, current, parked, task, todo, lock, swept,
                   accepted, phase, faults>>

(* ... and the provider answers. *)
Answer(ok) ==
    /\ phase = "up"
    /\ loop = "crossing"
    /\ loop' = "busy"
    /\ accepted' = IF ok THEN accepted \cup {current} ELSE accepted
    /\ task' = [task EXCEPT !["loop"] = Job("finish", current, ok)]
    /\ UNCHANGED <<msg, recipient, turn, current, parked, todo, lock, swept, crossed,
                   phase, faults>>

(* The loop ends: with a handoff, an error, its deadline or a cancellation.    *)
(* The last two also drop a delivery that waits for the provider.             *)
LoopEnds ==
    /\ phase = "up"
    /\ loop \in {"boundary", "crossing"}
    /\ loop' = "ended"
    /\ current' = 0
    /\ UNCHANGED <<msg, recipient, turn, parked, task, todo, lock, swept, provider,
                   phase, faults>>

-----------------------------------------------------------------------------
(* terminalize_locked: the terminal state first, then the sweep, both under    *)
(* the scheduler's mutex.                                                      *)

(* A mistake for QueuedIsSettled to catch: the sweep looks at the messages that  *)
(* delivery would offer.                                                        *)
TerminalizeDeliverable ==
    /\ recipient' = "terminal"
    /\ lock' = "sweep"
    /\ todo' = Deliverable
    /\ swept' = "running"
    /\ task' = Outdated(task)
    /\ UNCHANGED <<msg, turn, current, provider, phase>>

Terminalize ==
    /\ recipient' = "terminal"
    /\ lock' = "sweep"
    /\ todo' = Unsettled
    /\ swept' = "running"
    /\ task' = Outdated(task)
    /\ UNCHANGED <<msg, turn, current, provider, phase>>

(* The task of an ended loop; what it cannot record it parks.                  *)
EndChild ==
    /\ phase = "up"
    /\ loop = "ended"
    /\ lock = "free"
    /\ \/ Terminalize /\ loop' = "sweeping" /\ UNCHANGED <<parked, faults>>
       \/ /\ Fault
          /\ parked' = TRUE
          /\ loop' = "off"
          /\ UNCHANGED <<msg, recipient, turn, current, task, todo, lock, swept,
                         provider, phase>>

(* settle_pending_terminalizations; the retry may fail like the first try.     *)
SettleParked ==
    /\ phase = "up"
    /\ parked
    /\ lock = "free"
    /\ parked' = FALSE
    /\ Terminalize
    /\ UNCHANGED <<loop, faults>>

(* interrupt of a child without a live loop, whatever its state.               *)
InterruptIdle ==
    /\ phase = "up"
    /\ loop = "off"
    /\ lock = "free"
    /\ Terminalize
    /\ UNCHANGED <<loop, parked, faults>>

SweepNext ==
    /\ phase = "up"
    /\ lock = "sweep"
    /\ task["sweep"].do = "none"
    /\ todo # {}
    /\ task' = [task EXCEPT !["sweep"] = Job("reject", First(todo), FALSE)]
    /\ UNCHANGED <<msg, child, todo, lock, swept, provider, phase, faults>>

SweepDone ==
    /\ phase = "up"
    /\ lock = "sweep"
    /\ task["sweep"].do = "none"
    /\ todo = {}
    /\ lock' = "free"
    /\ swept' = "complete"
    /\ loop' = IF loop = "sweeping" THEN "off" ELSE loop
    /\ UNCHANGED <<msg, recipient, turn, current, parked, task, todo, provider, phase,
                   faults>>

(* followup_agent: the child returns to the queue for another turn.            *)
Followup ==
    /\ phase = "up"
    /\ recipient = "terminal"
    /\ loop = "off"
    /\ lock = "free"
    /\ turn < MaxTurns
    /\ recipient' = "queued"
    /\ turn' = turn + 1
    /\ task' = Outdated(task)
    /\ UNCHANGED <<msg, loop, current, parked, todo, lock, swept, provider, phase, faults>>

-----------------------------------------------------------------------------
(* Stops and restarts. *)

Gone ==
    /\ loop' = "off"
    /\ current' = 0
    /\ task' = [p \in Tasks |-> Idle]
    /\ todo' = {}
    /\ lock' = "free"
    /\ swept' = "none"
    /\ parked' = FALSE

Stop ==
    /\ phase # "down"
    /\ Fault
    /\ Gone
    /\ phase' = "down"
    /\ UNCHANGED <<msg, recipient, turn, provider>>

(* A mistake for RecoverySettles to catch: what was settled before the restart   *)
(* is taken to be acknowledged.                                                  *)
AddressedUnsettled == Unsettled

(* reconcile_after_restart is two passes, each over the list it made when it    *)
(* began: the messages that were not announced (Unannounced), and then every     *)
(* message addressed to the child.                                               *)
Addressed == {m \in Messages : msg[m].state # "absent"}

(* AgentDispatchScheduler::rehydrate has interrupted a child that was live.     *)
Rehydrate ==
    /\ phase = "down"
    /\ phase' = "announcing"
    /\ recipient' = IF recipient = "live" THEN "terminal" ELSE recipient
    /\ todo' = Unannounced
    /\ UNCHANGED <<msg, turn, loop, current, parked, task, lock, swept, provider, faults>>

(* A repair that cannot be appended ends the restart with the error.            *)
Repair(m, r, left) ==
    /\ \/ Append1(m, r) /\ todo' = left /\ UNCHANGED <<phase, faults>>
       \/ phase' = "down" /\ todo' = {} /\ Fault /\ UNCHANGED msg
    /\ UNCHANGED <<child, task, lock, swept, provider>>

RecoverAnnouncement ==
    /\ phase = "announcing"
    /\ todo # {}
    /\ LET m == First(todo) IN Repair(m, Announce(msg[m]), todo \ {m})

(* The log is read again. *)
Reconcile ==
    /\ phase = "announcing"
    /\ todo = {}
    /\ phase' = "recovering"
    /\ todo' = Addressed
    /\ UNCHANGED <<msg, child, task, lock, swept, provider, faults>>

(* reject_queued on one message of the list: an unsettled one is rejected and   *)
(* then acknowledged, a settled one acknowledged unless it was.  Nobody else    *)
(* appends while the scheduler is being made.                                   *)
RecoverMessage ==
    /\ phase = "recovering"
    /\ todo # {}
    /\ LET m == First(todo)
       IN \/ ~Settled(m) /\ Repair(m, Deliver(msg[m], "rejected"), todo)
          \/ /\ Settled(m)
             /\ ~NothingToAppend(m)
             /\ Repair(m, Acknowledge(msg[m]), todo \ {m})
          \/ /\ Settled(m)
             /\ NothingToAppend(m)
             /\ todo' = todo \ {m}
             /\ UNCHANGED <<msg, child, task, lock, swept, provider, phase, faults>>

Recovered ==
    /\ phase = "recovering"
    /\ todo = {}
    /\ phase' = "up"
    /\ UNCHANGED <<msg, child, task, todo, lock, swept, provider, faults>>

-----------------------------------------------------------------------------
Step(p) == Read(p) \/ AppendIfLast(p) \/ Retry(p)

Next ==
    \/ SendMessage
    \/ AnnounceMessage
    \/ \E p \in Tasks : Step(p) \/ StoreFails(p)
    \/ OthersAppend
    \/ Start
    \/ TakeMessage
    \/ Cross
    \/ \E ok \in BOOLEAN : Answer(ok)
    \/ LoopEnds
    \/ EndChild
    \/ SettleParked
    \/ InterruptIdle
    \/ SweepNext
    \/ SweepDone
    \/ Followup
    \/ Stop
    \/ Rehydrate
    \/ RecoverAnnouncement
    \/ Reconcile
    \/ RecoverMessage
    \/ Recovered

Spec == Init /\ [][Next]_vars

(* Tasks run on; a loop has a deadline and ends; its task terminalizes the     *)
(* child; a rehydrate that has started is one call.  Nothing else must happen:  *)
(* no restart, no retry of what is parked.                                     *)
Fairness ==
    /\ WF_vars(RecoverAnnouncement \/ Reconcile \/ RecoverMessage \/ Recovered)
    /\ \A p \in Tasks : WF_vars(Step(p))
    /\ WF_vars(AnnounceMessage)
    /\ WF_vars(Cross)
    /\ WF_vars(LoopEnds)
    /\ WF_vars(EndChild)
    /\ WF_vars(SweepNext)
    /\ WF_vars(SweepDone)

FairSpec == Spec /\ Fairness

-----------------------------------------------------------------------------
(* Properties. *)

TypeOK ==
    /\ msg \in [Messages -> MessageRecord]
    /\ recipient \in {"queued", "live", "terminal"}
    /\ turn \in 0..MaxTurns
    /\ loop \in {"off", "boundary", "busy", "delivering", "crossing", "ended", "sweeping"}
    /\ current \in 0..NumMessages
    /\ task \in [Tasks -> Jobs]
    /\ todo \subseteq Messages
    /\ lock \in {"free", "send", "sweep"}
    /\ swept \in {"none", "running", "complete", "incomplete"}
    /\ parked \in BOOLEAN
    /\ crossed \in Seq(Messages)
    /\ accepted \subseteq Messages
    /\ phase \in {"up", "announcing", "recovering", "down"}
    /\ faults \in 0..MaxFaults

(* However the loop, the sweep, the sender, the other agents and a restart     *)
(* interleave, the log never holds an event that AgentMessageProjection         *)
(* refuses: one refused event would make every mailbox of the run unreadable.   *)
LogStaysReadable == \A m \in Messages : msg[m].state # "invalid"

(* A message crosses the provider boundary at most once, over all turns and    *)
(* restarts, and messages cross in the order in which they were sent.           *)
CrossesOnceInOrder ==
    \A i, j \in 1..Len(crossed) : i < j => crossed[i] < crossed[j]

(* The log is truthful: what the provider is given is claimed in it first, it   *)
(* says delivered only of what the provider took, and a message is acknowledged *)
(* once, and not before it is settled.                                         *)
LogIsTruthful ==
    /\ \A i \in 1..Len(crossed) : msg[crossed[i]].claimed
    /\ \A m \in Messages : msg[m].state = "delivered" => m \in accepted
    /\ \A m \in Messages : msg[m].acks > 0 => msg[m].acks = 1 /\ Settled(m)

(* A child whose terminal sweep reported success has no unsettled message       *)
(* left, however sends, deliveries and late terminalizations raced it.          *)
TerminalLeavesNothing ==
    swept = "complete" /\ recipient # "live" => Unsettled = {}

(* One pass over each list is enough: when a restart hands the scheduler over,   *)
(* every message is settled, announced and acknowledged, wherever the process or  *)
(* an earlier restart that was cut off had left it.                               *)
RecoverySettles ==
    [][phase = "recovering" /\ phase' = "up" =>
          \A m \in Messages :
              msg[m].state # "absent" =>
                  Settled(m) /\ msg[m].notified /\ msg[m].acks = 1]_vars

(* A queued message is settled, unless its child's terminal state or sweep      *)
(* could not be recorded or the process stopped.                                *)
QueuedIsSettled ==
    \A m \in Messages :
        msg[m].state = "queued"
            ~> (Settled(m) \/ swept = "incomplete" \/ parked \/ phase = "down")
=============================================================================
