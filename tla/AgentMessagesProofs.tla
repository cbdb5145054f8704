-------------------------- MODULE AgentMessagesProofs --------------------------
(***************************************************************************)
(* Theorems about AgentMessages, for any number of messages, retries, turns  *)
(* and faults.  The log is told apart from the tasks that write it: a        *)
(* message only moves forward (Moves), whoever appends, and every append     *)
(* makes what the other task has read stale, so that what a task is about to *)
(* append fits the log it read (JobIsSound).                                 *)
(***************************************************************************)
EXTENDS AgentMessages, WellFoundedInduction, SequenceTheorems, TLAPS

(* What is to hold of the events about message m, given what the provider took. *)
MessageIsSound(m, r, took) ==
    /\ r \in MessageRecord
    /\ r.state # "invalid"
    /\ r.state = "absent" => r = Absent
    /\ r.state = "queued" => ~r.claimed
    /\ r.claimed => r.notified
    /\ r.acks > 0 => r.acks = 1 /\ r.state \in Outcomes
    /\ r.state = "delivered" => m \in took

LogIsSound == \A m \in Messages : MessageIsSound(m, msg[m], accepted)

(* The messages of the log are the first ones. *)
SentInOrder ==
    \A m, n \in Messages : m < n /\ msg[n].state # "absent" => msg[m].state # "absent"

(* What is to hold of what task p is doing. *)
JobIsSound(p, job, log, took) ==
    /\ job.do = "none" => job.read = "no"
    /\ job.do # "none" => job.m \in Messages /\ log[job.m].state # "absent"
    /\ job.do \in {"claim", "finish"} => p = "loop"
    /\ job.do = "claim" => log[job.m].notified
    /\ job.do = "finish" => log[job.m].state \in {"delivering"} \cup Outcomes
    /\ job.ok => job.do = "finish" /\ job.m \in took
    /\ job.do = "consume" => log[job.m].state \in Outcomes
    /\ job.read = "current" =>
         /\ job.do = "claim" => log[job.m].state = "queued"
         /\ job.do = "finish" => log[job.m].state = "delivering"
         /\ job.do = "reject" => log[job.m].state \notin Outcomes
         /\ job.do = "consume" => log[job.m].acks = 0

JobsAreSound == \A p \in Tasks : JobIsSound(p, task[p], msg, accepted)

(* The loop works on one message at a time ... *)
LoopHasOneMessage ==
    /\ task["loop"].do # "none" => loop = "busy"
    /\ loop \in {"delivering", "crossing"} =>
         /\ current \in Messages /\ msg[current].claimed
         /\ msg[current].state \in {"delivering"} \cup Outcomes

(* ... the sweep under the scheduler's mutex ... *)
SweepHasTheLock == task["sweep"].do # "none" => lock = "sweep" /\ task["sweep"].m \in todo

(* of messages that were sent, ... *)
SweepTakesSent == \A m \in todo : msg[m].state # "absent"

(* ... and neither in a process that is not up. *)
DownIsIdle ==
    phase # "up" => /\ loop = "off" /\ lock = "free" /\ swept = "none"
                    /\ \A p \in Tasks : task[p].do = "none"

(* A message a restart has still to reject or to acknowledge. *)
Unreconciled ==
    {m \in Messages : msg[m].state # "absent" /\ (~Settled(m) \/ msg[m].acks = 0)}

(* What a pass of a restart has not handled yet covers all it has to repair.   *)
RecoveryCovers ==
    /\ phase = "announcing" => todo = Unannounced
    /\ phase = "recovering" => Unannounced = {} /\ Unreconciled \subseteq todo

(* What the sweep has still to reject is all that is left. *)
SweepCovers == lock = "sweep" => recipient = "terminal" /\ Unsettled \subseteq todo

(* The message that is being announced is the newest of the log. *)
NewestIsAnnounced ==
    lock = "send" =>
        \E m \in Messages : /\ msg[m].state # "absent" /\ ~msg[m].notified
                            /\ \A n \in Messages : n > m => msg[n].state = "absent"

(* What crossed has a smaller number than what may still be offered. *)
Before(m) == \A i \in 1..Len(crossed) : crossed[i] < m

OfferedInOrder ==
    /\ \A i \in 1..Len(crossed) : msg[crossed[i]].claimed
    /\ phase = "up" => \A m \in Deliverable : Before(m)
    /\ task["loop"].do = "claim" =>
         Before(task["loop"].m) /\ \A n \in Deliverable : task["loop"].m <= n
    /\ loop = "delivering" => Before(current) /\ \A n \in Deliverable : current < n

IInv ==
    /\ TypeOK /\ LogIsSound /\ SentInOrder
    /\ JobsAreSound /\ LoopHasOneMessage /\ SweepHasTheLock /\ SweepTakesSent /\ DownIsIdle
    /\ RecoveryCovers /\ SweepCovers /\ TerminalLeavesNothing
    /\ NewestIsAnnounced /\ OfferedInOrder /\ CrossesOnceInOrder
-----------------------------------------------------------------------------
(* The messages, and what becomes of one. *)

LEMMA LeastNumber ==
  ASSUME NEW S \in SUBSET Nat, S # {}
  PROVE  \E m \in S : \A n \in S : m <= n
<1> DEFINE R == OpToRel(<, Nat)
<1>1. IsWellFoundedOn(R, Nat)
  BY NatLessThanWellFounded
<1>2. ASSUME NEW m \in Nat, NEW n \in Nat, m < n PROVE <<m, n>> \in R
  BY <1>2 DEF OpToRel
<1> HIDE DEF R
<1>3. PICK m \in S : \A n \in S : ~(<<n, m>> \in R)
  BY <1>1, WFMin
<1>4. ASSUME NEW n \in S PROVE m <= n
  <2>1. m \in Nat /\ n \in Nat /\ ~(n < m)
    BY <1>2, <1>3
  <2>2. QED
    BY <2>1
<1>5. QED
  BY <1>4

LEMMA FirstIsLeast ==
  ASSUME NEW S \in SUBSET Messages, S # {}
  PROVE  First(S) \in S /\ \A n \in S : First(S) <= n
<1>1. S \in SUBSET Nat
  BY DEF Messages
<1>2. \E m \in S : \A n \in S : m <= n
  BY <1>1, LeastNumber
<1>3. QED
  BY <1>2 DEF First

LEMMA AbsentType == Absent \in MessageRecord /\ Absent.state = "absent" /\ ~Absent.claimed
                    /\ ~Absent.notified /\ Absent.acks = 0
  BY DEF Absent, MessageRecord, MessageStates

(* What one event makes of the projection of message m: it is sent, announced,   *)
(* claimed, settled (delivered only what was taken) or acknowledged.             *)
Moves(m, r, s, took) ==
    \/ s = r
    \/ r.state = "absent" /\ s = [Absent EXCEPT !.state = "queued"]
    \/ r.state # "absent" /\ ~r.notified /\ s = [r EXCEPT !.notified = TRUE]
    \/ r.state = "queued" /\ r.notified /\ s = [r EXCEPT !.state = "delivering", !.claimed = TRUE]
    \/ r.state \in {"queued", "delivering"} /\ s = [r EXCEPT !.state = "rejected"]
    \/ r.state = "delivering" /\ m \in took /\ s = [r EXCEPT !.state = "delivered"]
    \/ r.state \in Outcomes /\ r.acks = 0 /\ s = [r EXCEPT !.acks = 1]

(* A sound message moves to a sound message, and never back. *)
LEMMA MovesForward ==
  ASSUME NEW m, NEW r, NEW s, NEW took, MessageIsSound(m, r, took), Moves(m, r, s, took)
  PROVE  /\ MessageIsSound(m, s, took)
         /\ r.state # "absent" => s.state # "absent"
         /\ r.state \in Outcomes => s.state \in Outcomes
         /\ r.state \in {"delivering"} \cup Outcomes => s.state \in {"delivering"} \cup Outcomes
         /\ r.claimed => s.claimed
         /\ r.notified => s.notified
<1> USE DEF MessageIsSound, MessageRecord, MessageStates, Outcomes
<1>1. CASE s = r
  BY <1>1
<1>2. CASE r.state = "absent" /\ s = [Absent EXCEPT !.state = "queued"]
  BY <1>2 DEF Absent
<1>3. CASE r.state # "absent" /\ ~r.notified /\ s = [r EXCEPT !.notified = TRUE]
  BY <1>3
<1>4. CASE r.state = "queued" /\ r.notified
           /\ s = [r EXCEPT !.state = "delivering", !.claimed = TRUE]
  BY <1>4
<1>5. CASE r.state \in {"queued", "delivering"} /\ s = [r EXCEPT !.state = "rejected"]
  BY <1>5
<1>6. CASE r.state = "delivering" /\ m \in took /\ s = [r EXCEPT !.state = "delivered"]
  BY <1>6
<1>7. CASE r.state \in Outcomes /\ r.acks = 0 /\ s = [r EXCEPT !.acks = 1]
  BY <1>7
<1>8. QED
  BY <1>1, <1>2, <1>3, <1>4, <1>5, <1>6, <1>7 DEF Moves

(* What a task appends fits the message, if it read the log as it is. *)
LEMMA DeliverMoves ==
  ASSUME NEW m, NEW r, NEW took, MessageIsSound(m, r, took)
  PROVE  /\ r.state = "queued" /\ r.notified => Moves(m, r, Deliver(r, "started"), took)
         /\ r.state \in {"queued", "delivering"} => Moves(m, r, Deliver(r, "rejected"), took)
         /\ r.state = "delivering" /\ m \in took => Moves(m, r, Deliver(r, "delivered"), took)
         /\ r.state # "absent" /\ ~r.notified => Moves(m, r, Announce(r), took)
         /\ r.state \in Outcomes /\ r.acks = 0 => Moves(m, r, Acknowledge(r), took)
<1>1. r.state = "queued" /\ r.notified => Moves(m, r, Deliver(r, "started"), took)
  BY DEF Deliver, Moves
<1>2. r.state \in {"queued", "delivering"} => Moves(m, r, Deliver(r, "rejected"), took)
  BY DEF Deliver, Moves
<1>3. r.state = "delivering" /\ m \in took => Moves(m, r, Deliver(r, "delivered"), took)
  BY DEF Deliver, Moves
<1>4. r.state # "absent" /\ ~r.notified => Moves(m, r, Announce(r), took)
  BY DEF Announce, Moves
<1>5. r.state \in Outcomes /\ r.acks = 0 => Moves(m, r, Acknowledge(r), took)
  BY DEF Acknowledge, Moves
<1>6. QED
  BY <1>1, <1>2, <1>3, <1>4, <1>5

-----------------------------------------------------------------------------
(* The tasks. *)

(* A message was appended, and whatever a task had read is stale. *)
LEMMA OutdatedJob ==
  ASSUME NEW t \in [Tasks -> Jobs], NEW p \in Tasks
  PROVE  /\ Outdated(t) \in [Tasks -> Jobs]
         /\ Outdated(t)[p] \in {t[p], [t[p] EXCEPT !.read = "stale"]}
         /\ Outdated(t)[p].read # "current"
         /\ Outdated(t)[p].do = t[p].do /\ Outdated(t)[p].m = t[p].m
         /\ Outdated(t)[p].ok = t[p].ok
         /\ t[p].read = "no" => Outdated(t)[p] = t[p]
  BY DEF Outdated, Jobs

LEMMA JobTypes ==
  /\ 0 \in 0..NumMessages /\ 0 \in 0..MaxRetries
  /\ Idle \in Jobs
  /\ Idle.do = "none" /\ Idle.read = "no" /\ ~Idle.ok
  /\ \A do \in {"claim", "finish", "reject", "consume"}, m \in Messages, ok \in BOOLEAN :
        /\ Job(do, m, ok) \in Jobs
        /\ Job(do, m, ok).do = do /\ Job(do, m, ok).m = m /\ Job(do, m, ok).ok = ok
        /\ Job(do, m, ok).read = "no"
<1>1. 0 \in 0..NumMessages /\ 0 \in 0..MaxRetries /\ \A m \in Messages : m \in 0..NumMessages
  BY MessagesAssumption DEF Messages
<1>2. QED
  BY <1>1 DEF Idle, Job, Jobs

(* What is sound stays sound, however the messages move on, as long as a task    *)
(* that read the log as it is sees no append.                                  *)
LEMMA JobKept ==
  ASSUME NEW p, NEW job, NEW old, NEW log, NEW took, NEW taken,
         JobIsSound(p, job, old, took), took \subseteq taken,
         \A m \in Messages : MessageIsSound(m, old[m], taken) /\ Moves(m, old[m], log[m], taken),
         log = old \/ job.read # "current"
  PROVE  JobIsSound(p, job, log, taken)
<1>1. job.do # "none" => job.m \in Messages
  BY DEF JobIsSound
<1>2. job.do # "none" =>
        /\ old[job.m].state # "absent" => log[job.m].state # "absent"
        /\ old[job.m].state \in Outcomes => log[job.m].state \in Outcomes
        /\ old[job.m].state \in {"delivering"} \cup Outcomes
              => log[job.m].state \in {"delivering"} \cup Outcomes
        /\ old[job.m].notified => log[job.m].notified
  BY <1>1, MovesForward
<1>3. CASE job.do = "none"
  BY <1>3 DEF JobIsSound
<1>4. CASE job.do # "none"
  BY <1>1, <1>2, <1>4 DEF JobIsSound
<1>5. QED
  BY <1>3, <1>4

LEMMA OutdatedKept ==
  ASSUME NEW p \in Tasks, NEW t \in [Tasks -> Jobs], NEW log, NEW took,
         JobIsSound(p, t[p], log, took)
  PROVE  JobIsSound(p, Outdated(t)[p], log, took)
<1>1. t[p].do = "none" => Outdated(t)[p] = t[p]
  BY OutdatedJob DEF JobIsSound
<1>2. QED
  BY <1>1, OutdatedJob DEF JobIsSound

LEMMA IdleIsSound == ASSUME NEW p, NEW log, NEW took PROVE JobIsSound(p, Idle, log, took)
  BY DEF JobIsSound, Idle

-----------------------------------------------------------------------------
(* One message of a pass of a restart: its append moves the message, or fails. *)

LEMMA RepairTypes ==
  ASSUME TypeOK, NEW m \in Messages, NEW s, NEW left \in SUBSET todo, Repair(m, s, left),
         s \in MessageRecord
  PROVE  /\ UNCHANGED <<child, task, lock, swept, provider>>
         /\ todo' \subseteq todo /\ faults' \in 0..MaxFaults
         /\ \/ phase' = "down" /\ msg' = msg
            \/ phase' = phase /\ msg' = [msg EXCEPT ![m] = s] /\ todo' = left
  BY MessagesAssumption DEF Repair, Append1, Fault, TypeOK

LEMMA AnnouncementShape ==
  ASSUME IInv, RecoverAnnouncement
  PROVE  \E m \in Messages, s \in MessageRecord :
            /\ phase = "announcing" /\ m \in todo /\ m \in Unannounced
            /\ Moves(m, msg[m], s, accepted) /\ s.notified
            /\ Repair(m, s, todo \ {m})
<1> DEFINE m == First(todo)
           s == Announce(msg[m])
<1>1. /\ TypeOK /\ RecoveryCovers /\ LogIsSound
      /\ phase = "announcing" /\ todo # {} /\ Repair(m, s, todo \ {m})
  BY DEF IInv, RecoverAnnouncement
<1>2. m \in todo /\ m \in Messages
  BY <1>1, FirstIsLeast DEF TypeOK
<1>3. m \in Unannounced /\ msg[m].state # "absent" /\ ~msg[m].notified
  BY <1>1, <1>2 DEF RecoveryCovers, Unannounced
<1>4. MessageIsSound(m, msg[m], accepted)
  BY <1>1, <1>2 DEF LogIsSound
<1> HIDE DEF m
<1>5. Moves(m, msg[m], s, accepted)
  BY <1>3, <1>4, DeliverMoves
<1>6. s \in MessageRecord
  BY <1>4, <1>5, MovesForward DEF MessageIsSound
<1>7. s.notified
  BY <1>3, <1>4 DEF Announce, MessageIsSound, MessageRecord
<1>8. QED
  BY <1>1, <1>2, <1>3, <1>5, <1>6, <1>7

LEMMA ReconciliationShape ==
  ASSUME IInv, RecoverMessage
  PROVE  \E m \in Messages, s \in MessageRecord :
            /\ phase = "recovering" /\ m \in todo /\ msg[m].state # "absent"
            /\ Moves(m, msg[m], s, accepted)
            /\ \/ ~Settled(m) /\ Repair(m, s, todo)
               \/ s.state \in Outcomes /\ s.acks = 1 /\ Repair(m, s, todo \ {m})
               \/ /\ m \notin Unreconciled /\ todo' = todo \ {m}
                  /\ UNCHANGED <<msg, child, task, lock, swept, provider, phase, faults>>
<1> DEFINE m == First(todo)
<1>1. /\ TypeOK /\ RecoveryCovers /\ LogIsSound /\ SweepTakesSent
      /\ phase = "recovering" /\ todo # {}
  BY DEF IInv, RecoverMessage
<1>2. m \in todo /\ m \in Messages
  BY <1>1, FirstIsLeast DEF TypeOK
<1>3. msg[m].state # "absent" /\ msg[m].notified
  BY <1>1, <1>2 DEF RecoveryCovers, Unannounced, SweepTakesSent
<1>4. MessageIsSound(m, msg[m], accepted) /\ msg[m] \in MessageRecord
  BY <1>1, <1>2 DEF LogIsSound, MessageIsSound
<1>5. \/ ~Settled(m) /\ Repair(m, Deliver(msg[m], "rejected"), todo)
      \/ Settled(m) /\ ~NothingToAppend(m) /\ Repair(m, Acknowledge(msg[m]), todo \ {m})
      \/ /\ Settled(m) /\ NothingToAppend(m) /\ todo' = todo \ {m}
         /\ UNCHANGED <<msg, child, task, lock, swept, provider, phase, faults>>
  BY DEF RecoverMessage
<1> HIDE DEF m
<1>6. CASE ~Settled(m) /\ Repair(m, Deliver(msg[m], "rejected"), todo)
  <2>1. msg[m].state \in {"queued", "delivering"}
    BY <1>3, <1>4, <1>6 DEF Settled, MessageIsSound, MessageRecord, MessageStates
  <2>2. Moves(m, msg[m], Deliver(msg[m], "rejected"), accepted)
    BY <1>4, <2>1, DeliverMoves
  <2>3. Deliver(msg[m], "rejected") \in MessageRecord
    BY <1>4, <2>2, MovesForward DEF MessageIsSound
  <2>4. QED
    BY <1>1, <1>2, <1>3, <1>6, <2>2, <2>3
<1>7. CASE Settled(m) /\ ~NothingToAppend(m) /\ Repair(m, Acknowledge(msg[m]), todo \ {m})
  <2>1. msg[m].state \in Outcomes /\ msg[m].acks = 0
    BY <1>4, <1>7 DEF Settled, NothingToAppend, MessageRecord
  <2>2. Moves(m, msg[m], Acknowledge(msg[m]), accepted)
    BY <1>4, <2>1, DeliverMoves
  <2>3. Acknowledge(msg[m]) \in MessageRecord
    BY <1>4, <2>2, MovesForward DEF MessageIsSound
  <2>4. Acknowledge(msg[m]).state \in Outcomes /\ Acknowledge(msg[m]).acks = 1
    BY <1>4, <2>1 DEF Acknowledge, MessageRecord
  <2>5. QED
    BY <1>1, <1>2, <1>3, <1>7, <2>2, <2>3, <2>4
<1>8. CASE /\ Settled(m) /\ NothingToAppend(m) /\ todo' = todo \ {m}
           /\ UNCHANGED <<msg, child, task, lock, swept, provider, phase, faults>>
  <2>1. m \notin Unreconciled
    BY <1>3, <1>4, <1>8 DEF NothingToAppend, Unreconciled, MessageRecord
  <2>2. Moves(m, msg[m], msg[m], accepted)
    BY DEF Moves
  <2>3. QED
    BY <1>1, <1>2, <1>3, <1>4, <1>8, <2>1, <2>2
<1>9. QED
  BY <1>5, <1>6, <1>7, <1>8

(* Both passes: what a step of one may change. *)
LEMMA RecoveryShape ==
  ASSUME IInv, RecoverAnnouncement \/ RecoverMessage
  PROVE  /\ phase \in {"announcing", "recovering"} /\ phase' \in {phase, "down"}
         /\ UNCHANGED <<child, task, lock, swept, provider>>
         /\ todo' \subseteq todo /\ faults' \in 0..MaxFaults
         /\ \/ msg' = msg
            \/ \E m \in Messages, s \in MessageRecord :
                  /\ msg[m].state # "absent" /\ Moves(m, msg[m], s, accepted)
                  /\ msg' = [msg EXCEPT ![m] = s]
<1>1. TypeOK
  BY DEF IInv
<1>2. CASE RecoverAnnouncement
  <2>1. PICK m \in Messages, s \in MessageRecord :
            /\ phase = "announcing" /\ m \in Unannounced
            /\ Moves(m, msg[m], s, accepted) /\ Repair(m, s, todo \ {m})
    BY <1>2, AnnouncementShape
  <2>2. msg[m].state # "absent"
    BY <2>1 DEF Unannounced
  <2>3. QED
    BY <1>1, <2>1, <2>2, RepairTypes
<1>3. CASE RecoverMessage
  <2>1. PICK m \in Messages, s \in MessageRecord :
            /\ phase = "recovering" /\ msg[m].state # "absent" /\ Moves(m, msg[m], s, accepted)
            /\ \/ Repair(m, s, todo) \/ Repair(m, s, todo \ {m})
               \/ /\ todo' = todo \ {m}
                  /\ UNCHANGED <<msg, child, task, lock, swept, provider, phase, faults>>
    BY <1>3, ReconciliationShape
  <2>2. CASE Repair(m, s, todo) \/ Repair(m, s, todo \ {m})
    BY <1>1, <2>1, <2>2, RepairTypes
  <2>3. CASE /\ todo' = todo \ {m}
             /\ UNCHANGED <<msg, child, task, lock, swept, provider, phase, faults>>
    BY <1>1, <2>1, <2>3 DEF TypeOK
  <2>4. QED
    BY <2>1, <2>2, <2>3
<1>4. QED
  BY <1>2, <1>3

-----------------------------------------------------------------------------
(* Types. *)

LEMMA FinishedTypes ==
  ASSUME TypeOK, NEW p \in Tasks, NEW tasks \in [Tasks -> Jobs], Finished(p, tasks)
  PROVE  /\ task' \in [Tasks -> Jobs] /\ lock' = lock /\ swept' = swept
         /\ todo' \subseteq todo /\ current' \in 0..NumMessages
         /\ loop' \in {loop, "boundary"}
  BY JobTypes DEF Finished, TypeOK

LEMMA FailedTypes ==
  ASSUME TypeOK, NEW p \in Tasks, Failed(p)
  PROVE  /\ task' = [task EXCEPT ![p] = Idle] /\ task' \in [Tasks -> Jobs]
         /\ lock' \in {lock, "free"} /\ swept' \in {swept, "incomplete"}
         /\ todo' \subseteq todo /\ current' \in 0..NumMessages
         /\ loop' \in {loop, "off", "ended"}
  BY JobTypes DEF Failed, TypeOK

LEMMA RecordTypes == ASSUME IInv, NEW p \in Tasks, Step(p) PROVE TypeOK'
<1>1. TypeOK /\ task[p] \in Jobs /\ task \in [Tasks -> Jobs]
  BY DEF IInv, TypeOK
<1>2. task[p].do # "none" => task[p].m \in Messages /\ task[p].m \in 0..NumMessages
  BY DEF IInv, JobsAreSound, JobIsSound, Messages
<1>3. CASE Read(p)
  <2>1. task[p].m \in Messages
    BY <1>2, <1>3 DEF Read
  <2>2. [task[p] EXCEPT !.read = "current"] \in Jobs
    BY <1>1 DEF Jobs
  <2>3. /\ Job("reject", task[p].m, FALSE) \in Jobs
        /\ Job("consume", task[p].m, FALSE) \in Jobs
    BY <2>1, JobTypes
  <2>4. \/ /\ task' \in [Tasks -> Jobs]
           /\ UNCHANGED <<loop, current, todo, lock, swept>>
        \/ Finished(p, task)
    BY <1>1, <1>3, <2>2, <2>3 DEF Read
  <2>5. UNCHANGED <<msg, recipient, turn, parked, provider, phase, faults>>
    BY <1>3 DEF Read
  <2>6. QED
    BY <1>1, <2>4, <2>5, FinishedTypes DEF TypeOK, provider
<1>4. CASE Retry(p)
  <2>1. UNCHANGED <<msg, recipient, turn, parked, provider, phase, faults>>
    BY <1>4 DEF Retry
  <2>2. CASE Failed(p)
    BY <1>1, <2>1, <2>2, FailedTypes DEF TypeOK, provider
  <2>3. CASE ~Failed(p)
    <3> DEFINE tries == task[p].tries + 1
    <3>1. tries \in 0..MaxRetries
      BY <1>1, <1>4, <2>3, MessagesAssumption DEF Retry, Jobs
    <3>2. /\ task' = [task EXCEPT ![p] = [task[p] EXCEPT !.tries = tries, !.read = "no"]]
          /\ UNCHANGED <<loop, current, todo, lock, swept>>
      BY <1>4, <2>3 DEF Retry
    <3> HIDE DEF tries
    <3>3. [task[p] EXCEPT !.tries = tries, !.read = "no"] \in Jobs
      BY <1>1, <3>1 DEF Jobs
    <3>4. QED
      BY <1>1, <2>1, <3>2, <3>3 DEF TypeOK, provider
  <2>4. QED
    BY <2>2, <2>3
<1>5. CASE AppendIfLast(p)
  <2>1. UNCHANGED <<recipient, turn, parked, provider, phase, faults>>
    BY <1>5 DEF AppendIfLast, Record
  <2>2. task[p].m \in Messages
    BY <1>2, <1>5 DEF AppendIfLast, Record
  <2>3. msg' \in [Messages -> MessageRecord]
    <3>1. msg[task[p].m] \in MessageRecord
      BY <1>1, <2>2 DEF TypeOK
    <3>2. PICK s : s \in MessageRecord /\ msg' = [msg EXCEPT ![task[p].m] = s]
      <4>1. \A e \in {"started", "delivered", "rejected"} :
                Deliver(msg[task[p].m], e) \in MessageRecord
        BY <3>1 DEF Deliver, MessageRecord, MessageStates, Outcomes
      <4>2. Acknowledge(msg[task[p].m]) \in MessageRecord
        <5>1. msg[task[p].m].acks \in 0..2
          BY <3>1 DEF MessageRecord
        <5>2. (IF msg[task[p].m].acks < 2 THEN msg[task[p].m].acks + 1 ELSE msg[task[p].m].acks) \in 0..2
          BY <5>1
        <5>3. QED
          BY <3>1, <5>2 DEF Acknowledge, MessageRecord
      <4>3. Verdict(task[p]) \in {"delivered", "rejected"}
        BY DEF Verdict
      <4>4. QED
        BY <1>5, <4>1, <4>2, <4>3 DEF AppendIfLast, Record, Append1
    <3>3. QED
      BY <1>1, <3>2 DEF TypeOK
  <2>4. CASE task[p].do = "claim"
    <3>1. task' = Outdated([task EXCEPT ![p] = Idle]) /\ loop' = "delivering"
          /\ current' = task[p].m /\ UNCHANGED <<todo, lock, swept>>
      BY <1>5, <2>4 DEF AppendIfLast, Record
    <3>2. [task EXCEPT ![p] = Idle] \in [Tasks -> Jobs]
      BY <1>1, JobTypes
    <3>3. task' \in [Tasks -> Jobs]
      BY <3>1, <3>2, OutdatedJob
    <3>4. current' \in 0..NumMessages
      BY <1>2, <2>4, <3>1
    <3>5. QED
      BY <1>1, <2>1, <2>3, <3>1, <3>3, <3>4 DEF TypeOK, provider
  <2>5. CASE task[p].do \in {"finish", "reject"}
    <3>1. task' = Outdated([task EXCEPT ![p] = Job("consume", task[p].m, FALSE)])
          /\ UNCHANGED <<loop, current, todo, lock, swept>>
      BY <1>5, <2>5 DEF AppendIfLast, Record
    <3>2. [task EXCEPT ![p] = Job("consume", task[p].m, FALSE)] \in [Tasks -> Jobs]
      BY <1>1, <2>2, JobTypes
    <3>3. task' \in [Tasks -> Jobs]
      BY <3>1, <3>2, OutdatedJob
    <3>4. QED
      BY ZenonT(60), <1>1, <2>1, <2>3, <3>1, <3>3 DEF TypeOK, provider
  <2>6. CASE task[p].do = "consume"
    <3>1. Finished(p, Outdated(task)) /\ Outdated(task) \in [Tasks -> Jobs]
      BY <1>1, <1>5, <2>6, OutdatedJob DEF AppendIfLast, Record, Tasks
    <3>2. QED
      BY <1>1, <2>1, <2>3, <3>1, FinishedTypes DEF TypeOK, provider
  <2>7. QED
    BY <1>5, <2>4, <2>5, <2>6 DEF AppendIfLast, Record
<1>6. QED
  BY <1>3, <1>4, <1>5 DEF Step

LEMMA OtherTypes ==
  IInv /\ [Next]_vars =>
    TypeOK' \/ (\E p \in Tasks : Step(p)) \/ Cross
<1> SUFFICES ASSUME IInv, [Next]_vars, ~\E p \in Tasks : Step(p), ~Cross
             PROVE  TypeOK'
  OBVIOUS
<1>1. TypeOK /\ task \in [Tasks -> Jobs] /\ Outdated(task) \in [Tasks -> Jobs]
      /\ msg \in [Messages -> MessageRecord] /\ faults \in 0..MaxFaults
  <2>1. TypeOK
    BY DEF IInv
  <2>2. "loop" \in Tasks
    BY DEF Tasks
  <2>3. QED
    BY <2>1, <2>2, OutdatedJob DEF TypeOK
<1>2. Fault => faults' \in 0..MaxFaults
  BY <1>1, MessagesAssumption DEF Fault
<1>3. \A m \in Messages : msg[m] \in MessageRecord
  BY <1>1
<1>4. Unannounced \subseteq Messages /\ Addressed \subseteq Messages
      /\ Unsettled \subseteq Messages /\ Deliverable \subseteq Messages
  BY DEF Unannounced, Addressed, Unsettled, Deliverable
<1>5. \A m \in Messages : Announce(msg[m]) \in MessageRecord
  BY <1>3 DEF Announce, MessageRecord, MessageStates
<1>6. [Absent EXCEPT !.state = "queued"] \in MessageRecord
  BY AbsentType DEF MessageRecord, MessageStates
<1> USE DEF TypeOK, child, provider
<1>7. CASE SendMessage
  BY <1>1, <1>6, <1>7 DEF SendMessage, Append1
<1>8. CASE AnnounceMessage
  BY <1>1, <1>2, <1>4, <1>5, <1>8 DEF AnnounceMessage, Append1
<1>9. ASSUME NEW p \in Tasks, StoreFails(p) PROVE TypeOK'
  BY <1>1, <1>2, <1>9, FailedTypes DEF StoreFails
<1>10. CASE OthersAppend
  BY <1>1, <1>10 DEF OthersAppend
<1>11. CASE Start
  BY <1>1, <1>11 DEF Start
<1>12. CASE TakeMessage
  <2>1. First(Deliverable) \in Messages
    BY <1>4, <1>12, FirstIsLeast DEF TakeMessage
  <2>2. Job("claim", First(Deliverable), FALSE) \in Jobs
    BY <2>1, JobTypes
  <2>3. QED
    BY <1>1, <1>12, <2>2 DEF TakeMessage
<1>13. ASSUME NEW ok \in BOOLEAN, Answer(ok) PROVE TypeOK'
  <2>1. current \in Messages
    BY <1>13 DEF Answer, IInv, LoopHasOneMessage
  <2>2. Job("finish", current, ok) \in Jobs
    BY <2>1, JobTypes
  <2>3. QED
    BY <1>1, <1>13, <2>1, <2>2 DEF Answer
<1>14. CASE LoopEnds
  BY <1>1, <1>14, JobTypes DEF LoopEnds
<1>15. CASE EndChild \/ SettleParked \/ InterruptIdle
  BY <1>1, <1>2, <1>4, <1>15 DEF EndChild, SettleParked, InterruptIdle, Terminalize
<1>16. CASE SweepNext
  <2>1. First(todo) \in Messages
    BY <1>1, <1>16, FirstIsLeast DEF SweepNext
  <2>2. Job("reject", First(todo), FALSE) \in Jobs
    BY <2>1, JobTypes
  <2>3. QED
    BY <1>1, <1>16, <2>2 DEF SweepNext
<1>17. CASE SweepDone
  BY <1>1, <1>17 DEF SweepDone
<1>18. CASE Followup
  <2>1. turn' \in 0..MaxTurns
    BY <1>1, <1>18, MessagesAssumption DEF Followup
  <2>2. QED
    BY <1>1, <1>18, <2>1 DEF Followup
<1>19. CASE Stop
  <2>1. [p \in Tasks |-> Idle] \in [Tasks -> Jobs]
    BY JobTypes
  <2>2. QED
    BY <1>1, <1>2, <1>19, <2>1, JobTypes DEF Stop, Gone
<1>20. CASE Rehydrate \/ Reconcile
  BY <1>1, <1>4, <1>20 DEF Rehydrate, Reconcile
<1>21. CASE RecoverAnnouncement \/ RecoverMessage
  <2>1. /\ phase' \in {phase, "down"} /\ UNCHANGED <<child, task, lock, swept, provider>>
        /\ todo' \subseteq todo /\ faults' \in 0..MaxFaults
        /\ \/ msg' = msg
           \/ \E m \in Messages, s \in MessageRecord : msg' = [msg EXCEPT ![m] = s]
    BY <1>21, RecoveryShape
  <2>2. msg' \in [Messages -> MessageRecord]
    BY <1>1, <2>1
  <2>3. QED
    BY <1>1, <2>1, <2>2
<1>22. CASE Recovered
  BY <1>1, <1>22 DEF Recovered
<1>23. CASE UNCHANGED vars
  BY <1>1, <1>23 DEF vars
<1>24. QED
  BY <1>7, <1>8, <1>9, <1>10, <1>11, <1>12, <1>13, <1>14, <1>15, <1>16, <1>17, <1>18, <1>19, <1>20,
     <1>21, <1>22, <1>23 DEF Next

LEMMA TypeStep == IInv /\ [Next]_vars => TypeOK'
<1> SUFFICES ASSUME IInv, [Next]_vars PROVE TypeOK'
  OBVIOUS
<1>1. CASE Cross
  <2>1. current \in Messages /\ crossed \in Seq(Messages)
    BY <1>1 DEF Cross, IInv, TypeOK, LoopHasOneMessage
  <2>2. Append(crossed, current) \in Seq(Messages)
    BY <2>1
  <2>3. QED
    BY <1>1, <2>2 DEF Cross, IInv, TypeOK
<1>2. QED
  BY <1>1, OtherTypes, RecordTypes

-----------------------------------------------------------------------------
(* The log. *)

(* A step appends at most one event of a message, which fits it, and then no task *)
(* has read the log as it is.  A message is sent, and announced, under the      *)
(* scheduler's mutex, or announced by a restart.                               *)
LogMoves ==
    \/ msg' = msg
    \/ \E m \in Messages : \E s :
          /\ Moves(m, msg[m], s, accepted')
          /\ msg' = [msg EXCEPT ![m] = s]
          /\ msg[m].state = "absent" =>
                /\ lock = "free" /\ lock' = "send" /\ recipient' = "live"
                /\ \A n \in Messages : n < m => msg[n].state # "absent"
          /\ s.notified => msg[m].notified \/ lock' = "free"
          /\ \A p \in Tasks : task'[p].read # "current"

LEMMA OutdatedReads ==
  ASSUME TypeOK, task' = Outdated(task)
  PROVE  \A p \in Tasks : task'[p].read # "current"
  BY OutdatedJob DEF TypeOK

LEMMA DeliverNotes ==
  ASSUME NEW m, NEW r, NEW took, MessageIsSound(m, r, took), NEW event
  PROVE  Deliver(r, event).notified = r.notified /\ Acknowledge(r).notified = r.notified
  BY DEF Deliver, Acknowledge, MessageIsSound, MessageRecord

LEMMA StepMoves == ASSUME IInv, NEW p \in Tasks, Step(p) PROVE LogMoves
<1>1. TypeOK /\ LogIsSound /\ task \in [Tasks -> Jobs] /\ JobIsSound(p, task[p], msg, accepted)
  BY DEF IInv, TypeOK, JobsAreSound
<1>2. CASE Read(p) \/ Retry(p)
  BY <1>2 DEF Read, Retry, LogMoves
<1>3. CASE AppendIfLast(p)
  <2> DEFINE m == task[p].m
             r == msg[m]
  <2>1. Record(p) /\ task[p].read = "current"
    BY <1>3 DEF AppendIfLast
  <2>2. m \in Messages /\ MessageIsSound(m, r, accepted) /\ r.state # "absent" /\ accepted' = accepted
    BY <1>1, <2>1 DEF Record, JobIsSound, LogIsSound, provider
  <2>3. CASE task[p].do = "claim"
    <3>1. msg' = [msg EXCEPT ![m] = Deliver(r, "started")]
          /\ task' = Outdated([task EXCEPT ![p] = Idle])
      BY <2>1, <2>3 DEF Record, Append1
    <3>2. Moves(m, r, Deliver(r, "started"), accepted)
          /\ Deliver(r, "started").notified = r.notified
      BY <1>1, <2>1, <2>2, <2>3, DeliverMoves, DeliverNotes DEF JobIsSound
    <3>3. [task EXCEPT ![p] = Idle] \in [Tasks -> Jobs]
      BY <1>1, JobTypes
    <3>4. QED
      BY <2>2, <3>1, <3>2, <3>3, OutdatedJob DEF LogMoves
  <2>4. CASE task[p].do \in {"finish", "reject"}
    <3>1. msg' = [msg EXCEPT ![m] = Deliver(r, Verdict(task[p]))]
          /\ task' = Outdated([task EXCEPT ![p] = Job("consume", m, FALSE)])
      BY <2>1, <2>4 DEF Record, Append1
    <3>4. Moves(m, r, Deliver(r, Verdict(task[p])), accepted)
      <4>1. CASE task[p].do = "finish" /\ task[p].ok
        BY <2>2, <4>1, <1>1, <2>1, DeliverMoves DEF JobIsSound, Verdict
      <4>2. CASE ~(task[p].do = "finish" /\ task[p].ok)
        <5>1. ~task[p].ok
          BY <1>1, <4>2 DEF JobIsSound
        <5>2. Verdict(task[p]) = "rejected"
          BY <5>1 DEF Verdict
        <5>3. r.state \in {"queued", "delivering"}
          BY <1>1, <2>1, <2>2, <2>4
             DEF JobIsSound, MessageIsSound, MessageRecord, MessageStates
        <5>4. QED
          BY <2>2, <5>2, <5>3, DeliverMoves
      <4>3. QED
        BY <4>1, <4>2
    <3>5. [task EXCEPT ![p] = Job("consume", m, FALSE)] \in [Tasks -> Jobs]
      BY <1>1, <2>2, JobTypes
    <3>6. Deliver(r, Verdict(task[p])).notified = r.notified
      BY <2>2, DeliverNotes
    <3>7. QED
      BY <2>2, <3>1, <3>4, <3>5, <3>6, OutdatedJob DEF LogMoves
  <2>5. CASE task[p].do = "consume"
    <3>1. msg' = [msg EXCEPT ![m] = Acknowledge(r)]
          /\ task' = [Outdated(task) EXCEPT ![p] = Idle]
      BY <2>1, <2>5 DEF Record, Append1, Finished
    <3>2. Moves(m, r, Acknowledge(r), accepted)
      BY <1>1, <2>1, <2>2, <2>5, DeliverMoves DEF JobIsSound
    <3>3. \A q \in Tasks : task'[q].read # "current"
      BY <1>1, <3>1, OutdatedJob, JobTypes
    <3>4. Acknowledge(r).notified = r.notified
      BY <2>2, DeliverNotes
    <3>5. QED
      BY <2>2, <3>1, <3>2, <3>3, <3>4 DEF LogMoves
  <2>6. QED
    BY <2>1, <2>3, <2>4, <2>5 DEF Record
<1>4. QED
  BY <1>2, <1>3 DEF Step

LEMMA LogStep == IInv /\ [Next]_vars => LogMoves
<1> SUFFICES ASSUME IInv, [Next]_vars PROVE LogMoves
  OBVIOUS
<1>1. TypeOK /\ LogIsSound /\ DownIsIdle /\ NewestIsAnnounced /\ JobsAreSound
  BY DEF IInv
<1>2. CASE UNCHANGED msg
  BY <1>2 DEF LogMoves
<1>3. CASE SendMessage
  <2> DEFINE s == [Absent EXCEPT !.state = "queued"]
  <2>1. task' = Outdated(task) /\ lock = "free" /\ lock' = "send" /\ recipient' = "live"
    BY <1>3 DEF SendMessage, child
  <2>2. PICK m \in Messages : /\ msg[m].state = "absent" /\ msg' = [msg EXCEPT ![m] = s]
                             /\ \A n \in Messages : n < m => msg[n].state # "absent"
    BY <1>3 DEF SendMessage, Append1
  <2>3. Moves(m, msg[m], s, accepted') /\ ~s.notified
    BY <2>2 DEF Moves, Absent
  <2> HIDE DEF s
  <2>4. QED
    BY <1>1, <2>1, <2>2, <2>3, OutdatedReads DEF LogMoves
<1>4. CASE AnnounceMessage
  <2>1. CASE UNCHANGED msg
    BY <1>2, <2>1
  <2>2. CASE msg' # msg
    <3>1. PICK m \in Unannounced : msg' = [msg EXCEPT ![m] = Announce(msg[m])] /\ task' = Outdated(task)
      BY <1>4, <2>2 DEF AnnounceMessage, Append1
    <3>2. m \in Messages /\ msg[m].state # "absent" /\ ~msg[m].notified /\ accepted' = accepted
          /\ lock' = "free"
      BY <1>4, <3>1 DEF Unannounced, AnnounceMessage, provider
    <3>3. Moves(m, msg[m], Announce(msg[m]), accepted)
      BY <1>1, <3>2, DeliverMoves DEF LogIsSound
    <3>4. QED
      BY <1>1, <3>1, <3>2, <3>3, OutdatedReads DEF LogMoves
  <2>3. QED
    BY <2>1, <2>2
<1>5. CASE (RecoverAnnouncement \/ RecoverMessage) /\ msg' # msg
  <2>1. PICK m \in Messages, s \in MessageRecord :
            /\ msg[m].state # "absent" /\ Moves(m, msg[m], s, accepted)
            /\ msg' = [msg EXCEPT ![m] = s]
    BY <1>5, RecoveryShape
  <2>2. phase # "up" /\ task' = task /\ accepted' = accepted /\ lock' = lock
    BY <1>5, RecoveryShape DEF provider
  <2>3. lock = "free" /\ \A p \in Tasks : task[p].do = "none" /\ task[p].read = "no"
    BY <1>1, <2>2 DEF DownIsIdle, JobsAreSound, JobIsSound
  <2>4. QED
    BY <2>1, <2>2, <2>3 DEF LogMoves
<1>6. \/ UNCHANGED msg \/ SendMessage \/ AnnounceMessage \/ (\E p \in Tasks : Step(p))
      \/ RecoverAnnouncement \/ RecoverMessage
  BY DEF Next, StoreFails, OthersAppend, Start, TakeMessage, Cross, Answer, LoopEnds, EndChild,
         SettleParked, InterruptIdle, Terminalize, SweepNext, SweepDone, Followup, Stop, Rehydrate,
         Reconcile, Recovered, vars
<1>7. QED
  BY <1>2, <1>3, <1>4, <1>5, <1>6, StepMoves

(* What the provider took it keeps. *)
LEMMA AcceptedGrows == [Next]_vars => accepted \subseteq accepted'
  BY DEF Next, SendMessage, AnnounceMessage, Step, Read, AppendIfLast, Record, Retry, StoreFails,
         OthersAppend, Start, TakeMessage, Cross, Answer, LoopEnds, EndChild, SettleParked,
         InterruptIdle, Terminalize, SweepNext, SweepDone, Followup, Stop, Rehydrate, Repair,
         RecoverAnnouncement, Reconcile, RecoverMessage, Recovered, provider, vars

LEMMA MessagesMove ==
  ASSUME IInv, [Next]_vars
  PROVE  /\ accepted \subseteq accepted'
         /\ \A m \in Messages : /\ MessageIsSound(m, msg[m], accepted')
                               /\ Moves(m, msg[m], msg'[m], accepted')
                               /\ MessageIsSound(m, msg'[m], accepted')
         /\ msg' = msg \/ \A p \in Tasks : task'[p].read # "current"
<1>1. accepted \subseteq accepted' /\ LogMoves /\ msg \in [Messages -> MessageRecord]
  BY AcceptedGrows, LogStep DEF IInv, TypeOK
<1>2. ASSUME NEW m \in Messages
      PROVE MessageIsSound(m, msg[m], accepted') /\ Moves(m, msg[m], msg'[m], accepted')
  <2>1. MessageIsSound(m, msg[m], accepted')
    BY <1>1 DEF IInv, LogIsSound, MessageIsSound
  <2>2. Moves(m, msg[m], msg'[m], accepted')
    <3>1. CASE msg' = msg
      BY <3>1 DEF Moves
    <3>2. CASE msg' # msg
      <4>1. PICK n, s : /\ n \in Messages /\ Moves(n, msg[n], s, accepted')
                       /\ msg' = [msg EXCEPT ![n] = s]
        BY <1>1, <3>2 DEF LogMoves
      <4>2. CASE m = n
        BY <1>1, <4>1, <4>2
      <4>3. CASE m # n
        <5>1. msg'[m] = msg[m]
          BY <1>1, <4>1, <4>3
        <5>2. QED
          BY <5>1 DEF Moves
      <4>4. QED
        BY <4>2, <4>3
    <3>3. QED
      BY <3>1, <3>2
  <2>3. QED
    BY <2>1, <2>2
<1>3. \A m \in Messages : MessageIsSound(m, msg'[m], accepted')
  BY <1>2, MovesForward
<1>4. QED
  BY <1>1, <1>2, <1>3 DEF LogMoves

LEMMA LogIsSoundStep == IInv /\ [Next]_vars => LogIsSound' /\ SentInOrder'
<1> SUFFICES ASSUME IInv, [Next]_vars PROVE LogIsSound' /\ SentInOrder'
  OBVIOUS
<1>1. LogIsSound'
  BY MessagesMove DEF LogIsSound
<1>2. SentInOrder'
  <2>1. SentInOrder /\ msg \in [Messages -> MessageRecord] /\ LogMoves
    BY LogStep DEF IInv, TypeOK
  <2>2. CASE msg' = msg
    BY <2>1, <2>2 DEF SentInOrder
  <2>3. CASE msg' # msg
    <3>1. PICK m, r :
             /\ m \in Messages
             /\ msg' = [msg EXCEPT ![m] = r]
             /\ msg[m].state = "absent" => \A n \in Messages : n < m => msg[n].state # "absent"
      BY <2>1, <2>3 DEF LogMoves
    <3>2. \A n \in Messages : msg[n].state # "absent" => msg'[n].state # "absent"
      BY MessagesMove, MovesForward
    <3>3. ASSUME NEW n \in Messages, n # m PROVE msg'[n] = msg[n]
      <4>1. msg' = [msg EXCEPT ![m] = r] /\ msg \in [Messages -> MessageRecord]
        BY <2>1, <3>1
      <4>2. QED
        BY <3>3, <4>1
    <3>4. SUFFICES ASSUME NEW a \in Messages, NEW b \in Messages, a < b, msg'[b].state # "absent"
                   PROVE  msg'[a].state # "absent"
      BY DEF SentInOrder
    <3>5. CASE msg[b].state # "absent"
      BY <2>1, <3>2, <3>4, <3>5 DEF SentInOrder
    <3>6. CASE msg[b].state = "absent"
      <4>1. b = m
        BY <3>3, <3>4, <3>6
      <4>2. msg[a].state # "absent"
        BY <3>1, <3>4, <3>6, <4>1
      <4>3. QED
        BY <3>2, <4>2
    <3>7. QED
      BY <3>5, <3>6
  <2>4. QED
    BY <2>2, <2>3
<1>3. QED
  BY <1>1, <1>2

-----------------------------------------------------------------------------
(* The tasks. *)

(* A job that a step leaves, or makes stale. *)
LEMMA JobStays ==
  ASSUME IInv, [Next]_vars, NEW p \in Tasks, task'[p] \in {task[p], Outdated(task)[p]}
  PROVE  JobIsSound(p, task'[p], msg', accepted')
<1>1. task \in [Tasks -> Jobs] /\ JobIsSound(p, task[p], msg, accepted)
  BY DEF IInv, TypeOK, JobsAreSound
<1>2. JobIsSound(p, task'[p], msg, accepted)
  BY <1>1, OutdatedKept
<1>3. QED
  BY <1>2, MessagesMove, JobKept

(* Every step of the other task, and of the rest of the system. *)
OthersStay(p) == \A q \in Tasks \ {p} : task'[q] \in {task[q], Outdated(task)[q]}

LEMMA JobsStep == IInv /\ [Next]_vars => JobsAreSound'
<1> SUFFICES ASSUME IInv, [Next]_vars PROVE JobsAreSound'
  OBVIOUS
<1>1. /\ TypeOK /\ task \in [Tasks -> Jobs] /\ LogIsSound
      /\ \A p \in Tasks : JobIsSound(p, task[p], msg, accepted)
      /\ "loop" \in Tasks /\ "sweep" \in Tasks
  BY DEF IInv, TypeOK, JobsAreSound, Tasks
<1>2. CASE task' = task \/ task' = Outdated(task)
  BY <1>2, JobStays DEF JobsAreSound
<1>3. ASSUME NEW p \in Tasks, JobIsSound(p, task'[p], msg', accepted'), OthersStay(p)
      PROVE  JobsAreSound'
  BY <1>3, JobStays DEF JobsAreSound, OthersStay
<1>4. ASSUME NEW p \in Tasks, task' = [task EXCEPT ![p] = Idle] PROVE JobsAreSound'
  <2>1. task'[p] = Idle /\ OthersStay(p)
    BY <1>1, <1>4 DEF OthersStay
  <2>2. QED
    BY <1>3, <2>1, IdleIsSound
<1>5. ASSUME NEW p \in Tasks, Read(p) PROVE JobsAreSound'
  <2> DEFINE m == task[p].m
  <2>1. m \in Messages /\ msg' = msg /\ accepted' = accepted
        /\ task[p].do # "none" /\ task[p].read = "no"
    BY <1>1, <1>5 DEF Read, JobIsSound, provider
  <2>2. CASE task' = [task EXCEPT ![p] = Idle]
    BY <1>4, <2>2
  <2>3. CASE task' = [task EXCEPT ![p].read = "current"]
    <3>1. \/ task[p].do = "claim" /\ msg[m].state = "queued"
          \/ task[p].do = "finish" /\ msg[m].state = "delivering"
          \/ task[p].do = "reject" /\ ~Settled(m)
          \/ task[p].do = "consume" /\ ~NothingToAppend(m)
          \/ task' = [task EXCEPT ![p] = Idle]
          \/ \E next \in {"reject", "consume"} : task' = [task EXCEPT ![p] = Job(next, m, FALSE)]
      BY <1>5 DEF Read, Finished
    <3>2. task'[p].read = "current"
      BY <1>1, <2>3 DEF Jobs
    <3>3. \/ task[p].do = "claim" /\ msg[m].state = "queued"
          \/ task[p].do = "finish" /\ msg[m].state = "delivering"
          \/ task[p].do = "reject" /\ ~Settled(m)
          \/ task[p].do = "consume" /\ ~NothingToAppend(m)
      <4>1. Job("reject", m, FALSE).read = "no" /\ Job("consume", m, FALSE).read = "no"
        BY <2>1, JobTypes
      <4>2. task' # [task EXCEPT ![p] = Idle]
        BY <1>1, <3>2, JobTypes
      <4>3. /\ task' # [task EXCEPT ![p] = Job("reject", m, FALSE)]
            /\ task' # [task EXCEPT ![p] = Job("consume", m, FALSE)]
        BY <1>1, <3>2, <4>1
      <4>4. QED
        BY <3>1, <4>2, <4>3
    <3>4. msg[m].acks > 0 \/ msg[m].acks = 0
      BY SMTT(30), <1>1, <2>1 DEF TypeOK, MessageRecord
    <3>5. task'[p] = [task[p] EXCEPT !.read = "current"] /\ task[p] \in Jobs
      BY <1>1, <2>3
    <3>6. JobIsSound(p, task'[p], msg, accepted)
      BY <1>1, <2>1, <3>3, <3>4, <3>5 DEF JobIsSound, Settled, NothingToAppend, Jobs
    <3>7. OthersStay(p)
      BY <1>1, <2>3 DEF OthersStay
    <3>8. QED
      BY <1>3, <2>1, <3>6, <3>7
  <2>4. CASE /\ task' # [task EXCEPT ![p] = Idle] /\ task' # [task EXCEPT ![p].read = "current"]
    <3> DEFINE next == IF task[p].do = "claim" THEN "reject" ELSE "consume"
    <3>1. /\ task' = [task EXCEPT ![p] = Job(next, m, FALSE)]
          /\ task[p].do # "consume"
          /\ ~(task[p].do = "finish" /\ msg[m].state = "delivering")
          /\ ~(task[p].do = "reject" /\ ~Settled(m))
      BY <1>5, <2>4 DEF Read, Finished
    <3>2. next = "consume" => msg[m].state \in Outcomes
      BY <1>1, <2>1, <3>1 DEF JobIsSound, Settled, TypeOK, Jobs
    <3>3. task'[p].do = next /\ task'[p].m = m /\ ~task'[p].ok /\ task'[p].read = "no"
      BY ZenonT(40), <1>1, <2>1, <3>1, JobTypes
    <3>4. JobIsSound(p, task'[p], msg, accepted)
      BY <1>1, <2>1, <3>2, <3>3 DEF JobIsSound
    <3>5. OthersStay(p)
      BY <1>1, <3>1 DEF OthersStay
    <3>6. QED
      BY <1>3, <2>1, <3>4, <3>5
  <2>5. QED
    BY <2>2, <2>3, <2>4
<1>6. ASSUME NEW p \in Tasks, Retry(p) PROVE JobsAreSound'
  <2>1. CASE Failed(p)
    BY <1>4, <2>1 DEF Failed
  <2>2. CASE ~Failed(p)
    <3>1. /\ task' = [task EXCEPT ![p].tries = task[p].tries + 1, ![p].read = "no"]
          /\ msg' = msg /\ accepted' = accepted
      BY <1>6, <2>2 DEF Retry, provider
    <3>2. /\ task'[p].do = task[p].do /\ task'[p].m = task[p].m /\ task'[p].ok = task[p].ok
          /\ task'[p].read = "no"
      BY <1>1, <3>1 DEF Jobs
    <3>3. JobIsSound(p, task'[p], msg, accepted)
      BY <1>1, <3>2 DEF JobIsSound
    <3>4. OthersStay(p)
      BY <1>1, <3>1 DEF OthersStay
    <3>5. QED
      BY <1>3, <3>1, <3>3, <3>4
  <2>3. QED
    BY <2>1, <2>2
<1>7. ASSUME NEW p \in Tasks, AppendIfLast(p) PROVE JobsAreSound'
  <2> DEFINE m == task[p].m
  <2>1. Record(p) /\ task[p].read = "current"
    BY <1>7 DEF AppendIfLast
  <2>2. m \in Messages /\ msg[m].state # "absent" /\ MessageIsSound(m, msg[m], accepted)
    BY <1>1, <2>1 DEF Record, JobIsSound, LogIsSound
  <2>3. CASE task[p].do = "claim"
    <3> DEFINE t == [task EXCEPT ![p] = Idle]
    <3>1. task' = Outdated(t) /\ t \in [Tasks -> Jobs] /\ t[p] = Idle
      BY <1>1, <2>1, <2>3, JobTypes DEF Record
    <3>2. task'[p] = Idle
      BY <3>1, OutdatedJob, JobTypes
    <3>3. OthersStay(p)
      BY <1>1, <3>1 DEF OthersStay, Outdated
    <3>4. QED
      BY <1>3, <3>2, <3>3, IdleIsSound
  <2>4. CASE task[p].do \in {"finish", "reject"}
    <3> DEFINE job == Job("consume", m, FALSE)
               t == [task EXCEPT ![p] = job]
    <3>1. task' = Outdated(t) /\ job \in Jobs
      BY <2>1, <2>2, <2>4, JobTypes DEF Record
    <3>2. t \in [Tasks -> Jobs] /\ t[p] = job
      BY <1>1, <3>1
    <3>3. task'[p] = job
      BY ZenonT(40), <2>2, <3>1, <3>2, OutdatedJob, JobTypes
    <3>4. OthersStay(p)
      BY <1>1, <3>1 DEF OthersStay, Outdated
    <3>5. msg'[m].state \in Outcomes
      <4>1. msg' = [msg EXCEPT ![m] = Deliver(msg[m], Verdict(task[p]))]
        BY <2>1, <2>4 DEF Record, Append1
      <4>2. task[p].do = "finish" => msg[m].state = "delivering"
        BY <1>1, <2>1 DEF JobIsSound
      <4>3. task[p].do = "reject" => ~task[p].ok /\ msg[m].state \in {"queued", "delivering"}
        BY <1>1, <2>1, <2>2 DEF JobIsSound, MessageIsSound, MessageRecord, MessageStates
      <4>4. Deliver(msg[m], Verdict(task[p])).state \in Outcomes
        BY <2>2, <2>4, <4>2, <4>3 DEF Deliver, Verdict, Outcomes, MessageIsSound, MessageRecord
      <4>5. QED
        BY <1>1, <2>2, <4>1, <4>4 DEF TypeOK
    <3>6. JobIsSound(p, task'[p], msg', accepted')
      <4>1. job.do = "consume" /\ job.m = m /\ ~job.ok /\ job.read = "no"
        BY <2>2, JobTypes
      <4>2. QED
        BY <2>2, <3>3, <3>5, <4>1 DEF JobIsSound, Outcomes
    <3>7. QED
      BY <1>3, <3>4, <3>6
  <2>5. CASE task[p].do = "consume"
    <3>1. task' = [Outdated(task) EXCEPT ![p] = Idle] /\ Outdated(task) \in [Tasks -> Jobs]
      BY <1>1, <2>1, <2>5, OutdatedJob DEF Record, Finished
    <3>2. task'[p] = Idle /\ OthersStay(p)
      BY <3>1 DEF OthersStay
    <3>3. QED
      BY <1>3, <3>2, IdleIsSound
  <2>6. QED
    BY <2>1, <2>3, <2>4, <2>5 DEF Record
<1>8. ASSUME NEW p \in Tasks, StoreFails(p) PROVE JobsAreSound'
  BY <1>4, <1>8 DEF StoreFails, Failed
<1>9. CASE TakeMessage
  <2> DEFINE m == First(Deliverable)
  <2>1. m \in Deliverable
    BY <1>9, FirstIsLeast DEF TakeMessage, Deliverable
  <2>2. m \in Messages /\ msg[m].state = "queued" /\ msg[m].notified
    BY <2>1 DEF Deliverable
  <2> HIDE DEF m
  <2>3. task' = [task EXCEPT !["loop"] = Job("claim", m, FALSE)] /\ msg' = msg
    BY <1>9 DEF TakeMessage, m
  <2>4. task'["loop"] = Job("claim", m, FALSE) /\ OthersStay("loop")
    BY <1>1, <2>3 DEF OthersStay
  <2>5. JobIsSound("loop", task'["loop"], msg', accepted')
    <3>1. LET job == Job("claim", m, FALSE)
          IN  job.do = "claim" /\ job.m = m /\ ~job.ok /\ job.read = "no"
      BY DEF Job
    <3>2. QED
      BY <2>2, <2>3, <2>4, <3>1 DEF JobIsSound
  <2>6. QED
    BY <1>1, <1>3, <2>4, <2>5
<1>10. ASSUME NEW ok \in BOOLEAN, Answer(ok) PROVE JobsAreSound'
  <2>1. /\ current \in Messages /\ msg[current].state \in {"delivering"} \cup Outcomes
        /\ msg' = msg /\ (ok => current \in accepted')
        /\ task' = [task EXCEPT !["loop"] = Job("finish", current, ok)]
    BY <1>10 DEF Answer, IInv, LoopHasOneMessage
  <2>2. task'["loop"] = Job("finish", current, ok) /\ OthersStay("loop")
    BY <1>1, <2>1 DEF OthersStay
  <2>3. JobIsSound("loop", task'["loop"], msg', accepted')
    <3>1. LET job == Job("finish", current, ok)
          IN  job.do = "finish" /\ job.m = current /\ job.ok = ok /\ job.read = "no"
      BY <2>1, JobTypes
    <3>2. QED
      BY <2>1, <2>2, <3>1 DEF JobIsSound, Outcomes
  <2>4. QED
    BY <1>1, <1>3, <2>2, <2>3
<1>11. CASE SweepNext
  <2> DEFINE m == First(todo)
  <2>1. m \in Messages /\ m \in todo /\ lock = "sweep" /\ todo \subseteq Messages
    BY <1>1, <1>11, FirstIsLeast DEF SweepNext, TypeOK
  <2>2. task' = [task EXCEPT !["sweep"] = Job("reject", m, FALSE)] /\ msg' = msg
    BY <1>11 DEF SweepNext
  <2> HIDE DEF m
  <2>3. task'["sweep"] = Job("reject", m, FALSE) /\ OthersStay("sweep")
    BY <1>1, <2>2 DEF OthersStay
  <2>4. msg[m].state # "absent"
    BY <2>1 DEF IInv, SweepTakesSent
  <2>5. JobIsSound("sweep", task'["sweep"], msg', accepted')
    <3>1. LET job == Job("reject", m, FALSE)
          IN  job.do = "reject" /\ job.m = m /\ ~job.ok /\ job.read = "no"
      BY DEF Job
    <3>2. QED
      BY <2>1, <2>2, <2>3, <2>4, <3>1 DEF JobIsSound
  <2>6. QED
    BY <1>1, <1>3, <2>3, <2>5
<1>12. CASE Stop
  BY <1>12, IdleIsSound DEF Stop, Gone, JobsAreSound
<1>13. \/ task' = task \/ task' = Outdated(task) \/ Stop \/ SweepNext \/ TakeMessage
       \/ \E ok \in BOOLEAN : Answer(ok)
       \/ \E p \in Tasks : Read(p) \/ Retry(p) \/ AppendIfLast(p) \/ StoreFails(p)
  BY DEF Next, Step, SendMessage, AnnounceMessage, OthersAppend, Start, Cross, LoopEnds, EndChild,
         SettleParked, InterruptIdle, Terminalize, SweepDone, Followup, Rehydrate, Repair,
         RecoverAnnouncement, Reconcile, RecoverMessage, Recovered, vars
<1>14. QED
  BY <1>2, <1>5, <1>6, <1>7, <1>8, <1>9, <1>10, <1>11, <1>12, <1>13

-----------------------------------------------------------------------------
(* The loop, the sweep and the process. *)

LEMMA LoopStep == IInv /\ [Next]_vars => LoopHasOneMessage'
<1> SUFFICES ASSUME IInv, [Next]_vars PROVE LoopHasOneMessage'
  OBVIOUS
<1>1. /\ LoopHasOneMessage /\ DownIsIdle /\ task \in [Tasks -> Jobs]
      /\ Outdated(task) \in [Tasks -> Jobs]
      /\ "loop" \in Tasks /\ "sweep" \in Tasks /\ Idle.do = "none"
      /\ Outdated(task)["loop"].do = task["loop"].do
      /\ JobIsSound("loop", task["loop"], msg, accepted)
      /\ JobIsSound("sweep", task["sweep"], msg, accepted)
  <2>1. "loop" \in Tasks /\ "sweep" \in Tasks
    BY DEF Tasks
  <2>2. QED
    BY <2>1, OutdatedJob, JobTypes DEF IInv, TypeOK, JobsAreSound
<1>2. current \in Messages /\ msg[current].claimed /\ msg[current].state \in {"delivering"} \cup Outcomes
         => msg'[current].claimed /\ msg'[current].state \in {"delivering"} \cup Outcomes
  BY MessagesMove, MovesForward
<1>3. CASE task'["loop"].do = task["loop"].do /\ loop' = loop /\ current' = current
  BY <1>1, <1>2, <1>3 DEF LoopHasOneMessage
<1>4. CASE task'["loop"].do = "none" /\ loop' \notin {"delivering", "crossing"}
  BY <1>4 DEF LoopHasOneMessage
<1>5. CASE loop' = "busy"
  BY <1>5 DEF LoopHasOneMessage
<1>6. ASSUME NEW p \in Tasks, Failed(p) PROVE LoopHasOneMessage'
  <2>1. CASE p = "loop"
    BY <1>1, <1>4, <1>6, <2>1 DEF Failed
  <2>2. CASE p = "sweep"
    <3>1. task'["loop"] = task["loop"] /\ current' = current
          /\ loop' = IF loop = "sweeping" THEN "off" ELSE loop
      BY <1>1, <1>6, <2>2 DEF Failed
    <3>2. QED
      BY <1>1, <1>3, <1>4, <3>1 DEF LoopHasOneMessage
  <2>3. QED
    BY <2>1, <2>2 DEF Tasks
<1>7. ASSUME NEW p \in Tasks, NEW t \in [Tasks -> Jobs], t["loop"].do = task["loop"].do, Finished(p, t)
      PROVE  LoopHasOneMessage'
  <2>1. CASE p = "loop"
    BY <1>1, <1>4, <1>7, <2>1 DEF Finished
  <2>2. CASE p = "sweep"
    BY <1>1, <1>3, <1>7, <2>2 DEF Finished
  <2>3. QED
    BY <2>1, <2>2 DEF Tasks
<1>8. ASSUME NEW p \in Tasks, NEW job \in Jobs, job.do # "none", task[p].do # "none",
             task' \in {[task EXCEPT ![p] = job], Outdated([task EXCEPT ![p] = job])},
             UNCHANGED <<loop, current>>
      PROVE  LoopHasOneMessage'
  <2> DEFINE t == [task EXCEPT ![p] = job]
  <2>1. t \in [Tasks -> Jobs] /\ (p # "loop" => t["loop"] = task["loop"])
    BY <1>1, <1>8
  <2>2. p # "loop" => task'["loop"].do = task["loop"].do
    <3>1. task' \in {t, Outdated(t)}
      BY <1>8
    <3> HIDE DEF t
    <3>2. Outdated(t)["loop"].do = t["loop"].do
      BY <1>1, <2>1, OutdatedJob
    <3>3. QED
      BY <2>1, <3>1, <3>2
  <2>3. CASE p = "loop"
    BY <1>1, <1>5, <1>8, <2>3 DEF LoopHasOneMessage
  <2>4. CASE p # "loop"
    BY <1>1, <1>3, <1>8, <2>2, <2>4
  <2>5. QED
    BY <2>3, <2>4
<1>9. ASSUME NEW p \in Tasks, Read(p) PROVE LoopHasOneMessage'
  <2> DEFINE m == task[p].m
  <2>1. m \in Messages /\ task[p].do # "none" /\ task[p] \in Jobs
    BY <1>1, <1>9 DEF Read, JobIsSound, Tasks
  <2>2. \/ Finished(p, task)
        \/ /\ UNCHANGED <<loop, current>>
           /\ \E job \in {Job("reject", m, FALSE), Job("consume", m, FALSE),
                          [task[p] EXCEPT !.read = "current"]} : task' = [task EXCEPT ![p] = job]
    BY <1>9 DEF Read
  <2>3. /\ Job("reject", m, FALSE) \in Jobs /\ Job("reject", m, FALSE).do # "none"
        /\ Job("consume", m, FALSE) \in Jobs /\ Job("consume", m, FALSE).do # "none"
    BY <2>1, JobTypes
  <2>4. [task[p] EXCEPT !.read = "current"] \in Jobs /\ [task[p] EXCEPT !.read = "current"].do # "none"
    BY <2>1 DEF Jobs
  <2> HIDE DEF m
  <2>5. QED
    BY <1>1, <1>7, <1>8, <2>1, <2>2, <2>3, <2>4
<1>10. ASSUME NEW p \in Tasks, Retry(p) PROVE LoopHasOneMessage'
  <2>1. CASE Failed(p)
    BY <1>6, <2>1
  <2>2. CASE ~Failed(p)
    <3>1. task' = [task EXCEPT ![p].tries = task[p].tries + 1, ![p].read = "no"]
          /\ UNCHANGED <<loop, current>>
      BY <1>10, <2>2 DEF Retry
    <3>2. task'["loop"].do = task["loop"].do
      BY <1>1, <3>1 DEF Jobs
    <3>3. QED
      BY <1>3, <3>1, <3>2
  <2>3. QED
    BY <2>1, <2>2
<1>11. ASSUME NEW p \in Tasks, AppendIfLast(p) PROVE LoopHasOneMessage'
  <2> DEFINE m == task[p].m
  <2>1. Record(p) /\ task[p].read = "current" /\ m \in Messages
        /\ (task[p].do = "claim" => p = "loop" /\ msg[m].state = "queued")
    BY <1>1, <1>11 DEF AppendIfLast, JobIsSound, Tasks
  <2>2. CASE task[p].do = "claim"
    <3>1. msg' = [msg EXCEPT ![m] = Deliver(msg[m], "started")] /\ current' = m
          /\ loop' = "delivering" /\ task' = Outdated([task EXCEPT ![p] = Idle])
      BY <2>1, <2>2 DEF Record, Append1
    <3>2. msg'[m].claimed /\ msg'[m].state = "delivering"
      <4>1. msg'[m] = Deliver(msg[m], "started") /\ msg[m] \in MessageRecord
        BY <2>1, <3>1 DEF IInv, TypeOK
      <4>2. QED
        BY <2>1, <2>2, <4>1 DEF Deliver, MessageRecord
    <3>3. [task EXCEPT ![p] = Idle] \in [Tasks -> Jobs]
      BY <1>1, JobTypes
    <3>4. task'["loop"].do = "none"
      BY <1>1, <2>1, <2>2, <3>1, <3>3, OutdatedJob
    <3>5. QED
      BY <2>1, <3>1, <3>2, <3>4 DEF LoopHasOneMessage
  <2>3. CASE task[p].do \in {"finish", "reject"}
    <3>1. task' = Outdated([task EXCEPT ![p] = Job("consume", m, FALSE)])
          /\ UNCHANGED <<loop, current>>
      BY <2>1, <2>3 DEF Record
    <3>2. Job("consume", m, FALSE) \in Jobs /\ Job("consume", m, FALSE).do # "none"
      BY <2>1, JobTypes
    <3>3. QED
      BY <1>8, <2>3, <3>1, <3>2
  <2>4. CASE task[p].do = "consume"
    BY <1>1, <1>7, <2>1, <2>4 DEF Record
  <2>5. QED
    BY <2>1, <2>2, <2>3, <2>4 DEF Record
<1>12. ASSUME NEW p \in Tasks, StoreFails(p) PROVE LoopHasOneMessage'
  BY <1>6, <1>12 DEF StoreFails
<1>13. CASE TakeMessage \/ \E ok \in BOOLEAN : Answer(ok)
  BY <1>5, <1>13 DEF TakeMessage, Answer
<1>14. CASE Cross
  BY <1>1, <1>14 DEF Cross, LoopHasOneMessage
<1>15. CASE Start \/ LoopEnds \/ SweepDone
  BY <1>1, <1>3, <1>4, <1>15 DEF Start, LoopEnds, SweepDone, LoopHasOneMessage
<1>16. CASE EndChild \/ SettleParked \/ InterruptIdle
  BY <1>1, <1>3, <1>4, <1>16 DEF EndChild, SettleParked, InterruptIdle, Terminalize, LoopHasOneMessage
<1>17. CASE Stop
  BY <1>1, <1>4, <1>17 DEF Stop, Gone
<1>18. CASE SweepNext
  BY <1>1, <1>3, <1>18 DEF SweepNext, child
<1>19. CASE SendMessage \/ AnnounceMessage \/ OthersAppend \/ Followup
  BY <1>1, <1>3, <1>19 DEF SendMessage, AnnounceMessage, OthersAppend, Followup, child
<1>20. CASE Rehydrate \/ Reconcile \/ RecoverAnnouncement \/ RecoverMessage \/ Recovered \/ UNCHANGED vars
  BY <1>1, <1>3, <1>20 DEF Rehydrate, Reconcile, RecoverAnnouncement, RecoverMessage, Repair, Recovered, vars, child
<1>21. QED
  BY <1>9, <1>10, <1>11, <1>12, <1>13, <1>14, <1>15, <1>16, <1>17, <1>18, <1>19, <1>20 DEF Next, Step

LEMMA SweepStep == IInv /\ [Next]_vars => SweepHasTheLock' /\ SweepTakesSent'
<1> SUFFICES ASSUME IInv, [Next]_vars PROVE SweepHasTheLock' /\ SweepTakesSent'
  OBVIOUS
<1>1. /\ SweepHasTheLock /\ SweepTakesSent /\ DownIsIdle /\ TypeOK /\ task \in [Tasks -> Jobs]
      /\ "loop" \in Tasks /\ "sweep" \in Tasks /\ Idle.do = "none"
      /\ \A p \in Tasks : JobIsSound(p, task[p], msg, accepted)
      /\ todo \subseteq Messages
  BY JobTypes DEF IInv, TypeOK, Tasks, JobsAreSound
<1>2. \A m \in Messages : msg[m].state # "absent" => msg'[m].state # "absent"
  BY MessagesMove, MovesForward
<1>3. /\ Outdated(task) \in [Tasks -> Jobs]
      /\ Outdated(task)["sweep"].do = task["sweep"].do /\ Outdated(task)["sweep"].m = task["sweep"].m
  BY <1>1, OutdatedJob
<1>4. CASE /\ task'["sweep"].do = task["sweep"].do /\ task'["sweep"].m = task["sweep"].m
           /\ lock' = lock /\ todo' = todo
  BY <1>1, <1>2, <1>4 DEF SweepHasTheLock, SweepTakesSent
<1>5. CASE task'["sweep"].do = "none" /\ todo' \subseteq todo
  BY <1>1, <1>2, <1>5 DEF SweepHasTheLock, SweepTakesSent
<1>6. CASE task["sweep"].do = "none" /\ lock = "free" /\ Terminalize
  <2>1. task'["sweep"].do = "none" /\ todo' = Unsettled
    BY <1>1, <1>3, <1>6 DEF Terminalize
  <2>2. \A m \in Unsettled : m \in Messages /\ msg[m].state # "absent"
    BY DEF Unsettled
  <2>3. QED
    BY <1>2, <2>1, <2>2 DEF SweepHasTheLock, SweepTakesSent
<1>7. ASSUME NEW p \in Tasks, Failed(p) PROVE SweepHasTheLock' /\ SweepTakesSent'
  <2>1. CASE p = "sweep"
    BY <1>1, <1>5, <1>7, <2>1 DEF Failed
  <2>2. CASE p # "sweep"
    BY <1>1, <1>4, <1>7, <2>2 DEF Failed, Tasks
  <2>3. QED
    BY <2>1, <2>2
<1>8. ASSUME NEW p \in Tasks, NEW t \in [Tasks -> Jobs], Finished(p, t),
             t["sweep"].do = task["sweep"].do, t["sweep"].m = task["sweep"].m
      PROVE  SweepHasTheLock' /\ SweepTakesSent'
  <2>1. CASE p = "sweep"
    BY <1>1, <1>5, <1>8, <2>1 DEF Finished
  <2>2. CASE p # "sweep"
    BY <1>1, <1>4, <1>8, <2>2 DEF Finished, Tasks
  <2>3. QED
    BY <2>1, <2>2
<1>9. ASSUME NEW p \in Tasks, NEW job \in Jobs, task[p].do # "none", job.m = task[p].m,
             task' \in {[task EXCEPT ![p] = job], Outdated([task EXCEPT ![p] = job])},
             UNCHANGED <<lock, todo>>
      PROVE  SweepHasTheLock' /\ SweepTakesSent'
  <2> DEFINE t == [task EXCEPT ![p] = job]
  <2>1. t \in [Tasks -> Jobs] /\ (p # "sweep" => t["sweep"] = task["sweep"])
        /\ (p = "sweep" => t["sweep"] = job)
    BY <1>1, <1>9
  <2>2. task'["sweep"].do = t["sweep"].do /\ task'["sweep"].m = t["sweep"].m
    <3>1. task' \in {t, Outdated(t)}
      BY <1>9
    <3> HIDE DEF t
    <3>2. Outdated(t)["sweep"].do = t["sweep"].do /\ Outdated(t)["sweep"].m = t["sweep"].m
      BY <1>1, <2>1, OutdatedJob
    <3>3. QED
      BY <3>1, <3>2
  <2> HIDE DEF t
  <2>3. CASE p = "sweep"
    BY <1>1, <1>2, <1>9, <2>1, <2>2, <2>3 DEF SweepHasTheLock, SweepTakesSent
  <2>4. CASE p # "sweep"
    BY <1>4, <1>9, <2>1, <2>2, <2>4
  <2>5. QED
    BY <2>3, <2>4
<1>10. ASSUME NEW p \in Tasks, Read(p) PROVE SweepHasTheLock' /\ SweepTakesSent'
  <2> DEFINE m == task[p].m
  <2>1. m \in Messages /\ task[p].do # "none" /\ task[p] \in Jobs
    BY <1>1, <1>10 DEF Read, JobIsSound
  <2>2. \/ Finished(p, task)
        \/ /\ UNCHANGED <<lock, todo>>
           /\ \E job \in {Job("reject", m, FALSE), Job("consume", m, FALSE),
                          [task[p] EXCEPT !.read = "current"]} : task' = [task EXCEPT ![p] = job]
    BY <1>10 DEF Read
  <2>3. /\ Job("reject", m, FALSE) \in Jobs /\ Job("reject", m, FALSE).m = m
        /\ Job("consume", m, FALSE) \in Jobs /\ Job("consume", m, FALSE).m = m
    BY <2>1, JobTypes
  <2>4. [task[p] EXCEPT !.read = "current"] \in Jobs /\ [task[p] EXCEPT !.read = "current"].m = m
    BY <2>1 DEF Jobs
  <2>5. CASE Finished(p, task)
    BY <1>1, <1>8, <2>5
  <2>6. CASE ~Finished(p, task)
    <3>1. PICK job \in {Job("reject", m, FALSE), Job("consume", m, FALSE),
                        [task[p] EXCEPT !.read = "current"]} : task' = [task EXCEPT ![p] = job]
      BY <2>2, <2>6
    <3>2. job \in Jobs /\ job.m = m /\ UNCHANGED <<lock, todo>>
      BY <2>2, <2>3, <2>4, <2>6
    <3>3. QED
      BY <1>9, <2>1, <3>1, <3>2
  <2>7. QED
    BY <2>5, <2>6
<1>11. ASSUME NEW p \in Tasks, Retry(p) PROVE SweepHasTheLock' /\ SweepTakesSent'
  <2>1. CASE Failed(p)
    BY <1>7, <2>1
  <2>2. CASE ~Failed(p)
    <3>1. task' = [task EXCEPT ![p].tries = task[p].tries + 1, ![p].read = "no"]
          /\ UNCHANGED <<lock, todo>>
      BY <1>11, <2>2 DEF Retry
    <3>2. task'["sweep"].do = task["sweep"].do /\ task'["sweep"].m = task["sweep"].m
      BY <1>1, <3>1 DEF Jobs
    <3>3. QED
      BY <1>4, <3>1, <3>2
  <2>3. QED
    BY <2>1, <2>2
<1>12. ASSUME NEW p \in Tasks, AppendIfLast(p) PROVE SweepHasTheLock' /\ SweepTakesSent'
  <2> DEFINE m == task[p].m
  <2>1. Record(p) /\ task[p].read = "current" /\ m \in Messages
        /\ (task[p].do = "claim" => p = "loop")
    BY <1>1, <1>12 DEF AppendIfLast, JobIsSound
  <2>2. CASE task[p].do = "claim"
    <3> DEFINE t == [task EXCEPT ![p] = Idle]
    <3>1. task' = Outdated(t) /\ UNCHANGED <<lock, todo>>
      BY <2>1, <2>2 DEF Record
    <3>2. t \in [Tasks -> Jobs] /\ t["sweep"] = task["sweep"]
      BY <1>1, <2>1, <2>2, JobTypes
    <3> HIDE DEF t
    <3>3. QED
      BY <1>1, <1>4, <3>1, <3>2, OutdatedJob
  <2>3. CASE task[p].do \in {"finish", "reject"}
    <3>1. task' = Outdated([task EXCEPT ![p] = Job("consume", m, FALSE)]) /\ UNCHANGED <<lock, todo>>
      BY <2>1, <2>3 DEF Record
    <3>2. Job("consume", m, FALSE) \in Jobs /\ Job("consume", m, FALSE).m = m
      BY <2>1, JobTypes
    <3>3. QED
      BY <1>9, <2>3, <3>1, <3>2
  <2>4. CASE task[p].do = "consume"
    BY <1>3, <1>8, <2>1, <2>4 DEF Record
  <2>5. QED
    BY <2>1, <2>2, <2>3, <2>4 DEF Record
<1>13. ASSUME NEW p \in Tasks, StoreFails(p) PROVE SweepHasTheLock' /\ SweepTakesSent'
  BY <1>7, <1>13 DEF StoreFails
<1>14. CASE TakeMessage \/ \E ok \in BOOLEAN : Answer(ok)
  BY <1>1, <1>4, <1>14 DEF TakeMessage, Answer
<1>15. CASE SweepNext
  <2> DEFINE m == First(todo)
  <2>1. m \in Messages /\ m \in todo
    BY <1>1, <1>15, FirstIsLeast DEF SweepNext
  <2>2. task'["sweep"] = Job("reject", m, FALSE) /\ lock' = "sweep" /\ todo' = todo
    BY <1>1, <1>15 DEF SweepNext
  <2> HIDE DEF m
  <2>3. task'["sweep"].m = m
    <3>1. Job("reject", m, FALSE).m = m
      BY <2>1, JobTypes
    <3>2. QED
      BY <2>2, <3>1
  <2>4. QED
    BY <1>1, <1>2, <2>1, <2>2, <2>3 DEF SweepHasTheLock, SweepTakesSent
<1>16. CASE EndChild \/ SettleParked \/ InterruptIdle
  <2>1. task["sweep"].do = "none"
    BY <1>1, <1>16 DEF EndChild, SettleParked, InterruptIdle, SweepHasTheLock
  <2>2. CASE Terminalize
    BY <1>6, <1>16, <2>1, <2>2 DEF EndChild, SettleParked, InterruptIdle
  <2>3. CASE ~Terminalize
    BY <1>4, <1>16, <2>3 DEF EndChild, SettleParked, InterruptIdle
  <2>4. QED
    BY <2>2, <2>3
<1>17. CASE SweepDone
  BY <1>1, <1>5, <1>17 DEF SweepDone
<1>18. CASE Stop
  BY <1>1, <1>5, <1>18 DEF Stop, Gone
<1>19. CASE SendMessage \/ AnnounceMessage
  <2>1. task["sweep"].do = "none"
    BY <1>1, <1>19 DEF SendMessage, AnnounceMessage, SweepHasTheLock
  <2>2. task' \in {task, Outdated(task)} /\ todo' = todo
    BY <1>19 DEF SendMessage, AnnounceMessage
  <2>3. QED
    BY <1>1, <1>3, <1>5, <2>1, <2>2
<1>20. CASE OthersAppend \/ Followup \/ Start \/ Cross \/ LoopEnds
  <2>1. task' \in {task, Outdated(task)} /\ UNCHANGED <<lock, todo>>
    BY <1>20 DEF OthersAppend, Followup, Start, Cross, LoopEnds
  <2>2. QED
    BY <1>3, <1>4, <2>1
<1>21. CASE Recovered \/ UNCHANGED vars
  BY <1>1, <1>4, <1>21 DEF Recovered, vars
<1>22. CASE RecoverAnnouncement \/ RecoverMessage
  <2>1. task' = task /\ todo' \subseteq todo /\ phase # "up"
    BY <1>22, RecoveryShape
  <2>2. task'["sweep"].do = "none"
    BY <1>1, <2>1 DEF DownIsIdle
  <2>3. QED
    BY <1>5, <2>1, <2>2
<1>23. CASE Rehydrate \/ Reconcile
  <2>1. task' = task /\ todo' \in {Unannounced, Addressed} /\ phase # "up"
    BY <1>23 DEF Rehydrate, Reconcile
  <2>2. task'["sweep"].do = "none"
    BY <1>1, <2>1 DEF DownIsIdle
  <2>3. \A m \in todo' : m \in Messages /\ msg[m].state # "absent"
    BY <2>1 DEF Unannounced, Addressed
  <2>4. QED
    BY <1>2, <2>2, <2>3 DEF SweepHasTheLock, SweepTakesSent
<1>24. QED
  BY <1>10, <1>11, <1>12, <1>13, <1>14, <1>15, <1>16, <1>17, <1>18, <1>19, <1>20, <1>21, <1>22,
     <1>23 DEF Next, Step

(* A process that is not up has stopped, and nothing but a start brings it back. *)
LEMMA DownStep == IInv /\ [Next]_vars => DownIsIdle'
<1> SUFFICES ASSUME IInv, [Next]_vars PROVE DownIsIdle'
  OBVIOUS
<1>1. DownIsIdle
  BY DEF IInv
<1>2. CASE phase' = "up"
  BY <1>2 DEF DownIsIdle
<1>3. CASE Stop
  BY <1>3, JobTypes DEF Stop, Gone, DownIsIdle
<1>4. CASE Rehydrate \/ Reconcile \/ UNCHANGED vars
  BY <1>1, <1>4 DEF Rehydrate, Reconcile, DownIsIdle, child, vars
<1>5. CASE RecoverAnnouncement \/ RecoverMessage
  <2>1. phase # "up" /\ UNCHANGED <<child, task, lock, swept>>
    BY <1>5, RecoveryShape
  <2>2. QED
    BY <1>1, <2>1 DEF DownIsIdle, child
<1>6. \/ phase' = "up" \/ Stop \/ Rehydrate \/ Reconcile \/ UNCHANGED vars
      \/ RecoverAnnouncement \/ RecoverMessage
  BY DEF Next, SendMessage, AnnounceMessage, Step, Read, AppendIfLast, Record, Retry, StoreFails,
         OthersAppend, Start, TakeMessage, Cross, Answer, LoopEnds, EndChild, SettleParked,
         InterruptIdle, Terminalize, SweepNext, SweepDone, Followup, Recovered
<1>7. QED
  BY <1>2, <1>3, <1>4, <1>5, <1>6

(* A pass makes its list from the log, and takes a message off it repaired.     *)
LEMMA RecoveryCoversStep == IInv /\ [Next]_vars => RecoveryCovers'
<1> SUFFICES ASSUME IInv, [Next]_vars PROVE RecoveryCovers'
  OBVIOUS
<1>1. TypeOK /\ RecoveryCovers /\ LogIsSound /\ msg \in [Messages -> MessageRecord]
  BY DEF IInv, TypeOK
<1>2. CASE phase' \in {"up", "down"}
  BY <1>2 DEF RecoveryCovers
<1>3. CASE Rehydrate
  BY <1>3 DEF Rehydrate, RecoveryCovers, Unannounced
<1>4. CASE Reconcile
  <2>1. phase' = "recovering" /\ msg' = msg /\ todo' = Addressed /\ Unannounced = {}
    BY <1>1, <1>4 DEF Reconcile, RecoveryCovers
  <2>2. Unannounced' = Unannounced /\ Unreconciled' = Unreconciled
    BY <2>1 DEF Unannounced, Unreconciled, Settled
  <2>3. QED
    BY <2>1, <2>2 DEF RecoveryCovers, Unreconciled, Addressed
<1>5. CASE RecoverAnnouncement /\ phase' # "down"
  <2>1. PICK m \in Messages, s \in MessageRecord :
            /\ phase = "announcing" /\ m \in Unannounced
            /\ s.notified /\ Repair(m, s, todo \ {m})
    BY <1>5, AnnouncementShape
  <2>2. phase' = phase /\ msg' = [msg EXCEPT ![m] = s] /\ todo' = todo \ {m}
    BY <1>1, <1>5, <2>1, RepairTypes
  <2>3. msg'[m] = s /\ \A n \in Messages : n # m => msg'[n] = msg[n]
    BY <1>1, <2>2
  <2>4. Unannounced' = Unannounced \ {m}
    BY <2>1, <2>3 DEF Unannounced
  <2>5. QED
    BY <1>1, <2>1, <2>2, <2>4 DEF RecoveryCovers
<1>6. CASE RecoverMessage /\ phase' # "down"
  <2>1. PICK m \in Messages, s \in MessageRecord :
            /\ phase = "recovering" /\ msg[m].state # "absent"
            /\ Moves(m, msg[m], s, accepted)
            /\ \/ ~Settled(m) /\ Repair(m, s, todo)
               \/ s.state \in Outcomes /\ s.acks = 1 /\ Repair(m, s, todo \ {m})
               \/ /\ m \notin Unreconciled /\ todo' = todo \ {m}
                  /\ UNCHANGED <<msg, child, task, lock, swept, provider, phase, faults>>
            /\ m \in todo
    BY <1>6, ReconciliationShape
  <2>2. Unannounced = {} /\ Unreconciled \subseteq todo
    BY <1>1, <2>1 DEF RecoveryCovers
  <2>3. CASE /\ m \notin Unreconciled /\ todo' = todo \ {m}
             /\ UNCHANGED <<msg, child, task, lock, swept, provider, phase, faults>>
    <3>1. Unannounced' = {} /\ Unreconciled' = Unreconciled /\ phase' = "recovering"
      BY <2>1, <2>2, <2>3 DEF Unannounced, Unreconciled, Settled
    <3>2. QED
      BY <2>2, <2>3, <3>1 DEF RecoveryCovers
  <2>4. ASSUME NEW left \in SUBSET todo, Repair(m, s, left),
               left = todo \/ (left = todo \ {m} /\ s.state \in Outcomes /\ s.acks = 1)
        PROVE  RecoveryCovers'
    <3>1. phase' = phase /\ msg' = [msg EXCEPT ![m] = s] /\ todo' = left
      BY <1>1, <1>6, <2>4, RepairTypes
    <3>2. msg'[m] = s /\ \A n \in Messages : n # m => msg'[n] = msg[n]
      BY <1>1, <3>1
    <3>3. MessageIsSound(m, msg[m], accepted)
      BY <1>1 DEF LogIsSound
    <3>4. s.notified
      BY <2>1, <2>2, <3>3, MovesForward DEF Unannounced
    <3>5. Unannounced' = {}
      BY <2>2, <3>2, <3>4 DEF Unannounced
    <3>6. ASSUME NEW n \in Unreconciled' PROVE n \in left
      <4>1. CASE n # m
        BY <2>2, <2>4, <3>2, <3>6, <4>1 DEF Unreconciled, Settled
      <4>2. CASE n = m
        <5>1. ~(s.state \in Outcomes /\ s.acks = 1)
          BY <3>2, <3>6, <4>2 DEF Unreconciled, Settled
        <5>2. QED
          BY <2>1, <2>4, <4>2, <5>1
      <4>3. QED
        BY <4>1, <4>2
    <3>7. QED
      BY <2>1, <3>1, <3>5, <3>6 DEF RecoveryCovers
  <2>5. QED
    BY <2>1, <2>3, <2>4
<1>7. CASE UNCHANGED vars
  BY <1>1, <1>7 DEF RecoveryCovers, Unannounced, Unreconciled, Settled, vars
<1>8. \/ phase' \in {"up", "down"} \/ Rehydrate \/ Reconcile \/ UNCHANGED vars
      \/ RecoverAnnouncement \/ RecoverMessage
  BY DEF Next, SendMessage, AnnounceMessage, Step, Read, AppendIfLast, Record, Retry, StoreFails,
         OthersAppend, Start, TakeMessage, Cross, Answer, LoopEnds, EndChild, SettleParked,
         InterruptIdle, Terminalize, SweepNext, SweepDone, Followup, Recovered, Stop
<1>9. QED
  BY <1>2, <1>3, <1>4, <1>5, <1>6, <1>7, <1>8

-----------------------------------------------------------------------------
(* What a sweep leaves behind. *)

(* Only a send to a live child adds to what is unsettled. *)
LEMMA UnsettledShrinks ==
  ASSUME IInv, [Next]_vars
  PROVE  \/ Unsettled' \subseteq Unsettled
         \/ lock = "free" /\ lock' = "send" /\ recipient' = "live"
<1>1. LogMoves /\ msg \in [Messages -> MessageRecord] /\ LogIsSound
  BY LogStep DEF IInv, TypeOK
<1>2. CASE msg' = msg
  BY <1>2 DEF Unsettled
<1>3. CASE msg' # msg
  <2>1. PICK m, s :
           /\ m \in Messages
           /\ Moves(m, msg[m], s, accepted')
           /\ msg' = [msg EXCEPT ![m] = s]
           /\ msg[m].state = "absent" => lock = "free" /\ lock' = "send" /\ recipient' = "live"
    BY <1>1, <1>3 DEF LogMoves
  <2>2. SUFFICES ASSUME msg[m].state # "absent", NEW n \in Unsettled' PROVE n \in Unsettled
    BY <2>1
  <2>3. n \in Messages /\ msg'[n].state \in {"queued", "delivering"}
    BY <2>2 DEF Unsettled
  <2>4. CASE n # m
    <3>1. msg'[n] = msg[n]
      BY <1>1, <2>1, <2>3, <2>4
    <3>2. QED
      BY <2>3, <3>1 DEF Unsettled
  <2>5. CASE n = m
    <3>1. MessageIsSound(m, msg[m], accepted) /\ MessageIsSound(m, msg[m], accepted')
      BY <1>1, <2>1, MessagesMove DEF LogIsSound
    <3>2. msg'[m] = s
      BY <1>1, <2>1
    <3>3. msg[m].state \notin Outcomes
      BY <2>1, <2>3, <2>5, <3>1, <3>2, MovesForward DEF Outcomes
    <3>4. msg[m].state \in {"queued", "delivering"}
      BY <2>2, <3>1, <3>3 DEF MessageIsSound, MessageRecord, MessageStates
    <3>5. QED
      BY <2>5, <3>4 DEF Unsettled
  <2>6. QED
    BY <2>4, <2>5
<1>4. QED
  BY <1>2, <1>3

(* What a step does to the mutex, the child's state and the sweep. *)
LEMMA SweepShape ==
  ASSUME IInv, [Next]_vars
  PROVE  \/ lock' = lock /\ todo' = todo /\ swept' = swept /\ recipient' = recipient
         \/ lock' = "sweep" /\ todo' = Unsettled /\ swept' = "running" /\ msg' = msg
            /\ recipient' = "terminal"
         \/ lock = "sweep" /\ lock' = "sweep" /\ swept' = swept /\ recipient' = recipient
            /\ \E m \in Messages : todo' = todo \ {m} /\ msg[m].state \in Outcomes
         \/ lock = "sweep" /\ todo = {} /\ msg' = msg /\ lock' = "free"
         \/ lock' # "sweep" /\ swept' \in {"none", "incomplete"}
         \/ lock' # "sweep" /\ swept' = swept /\ recipient' \in {recipient, "live"}
         \/ lock' # "sweep" /\ swept' = swept /\ recipient = "terminal" /\ msg' = msg
<1>1. /\ TypeOK /\ task \in [Tasks -> Jobs] /\ SweepHasTheLock /\ DownIsIdle
      /\ "loop" \in Tasks /\ "sweep" \in Tasks
      /\ \A p \in Tasks : JobIsSound(p, task[p], msg, accepted)
  BY DEF IInv, TypeOK, Tasks, JobsAreSound
<1>2. ASSUME NEW p \in Tasks, Failed(p), recipient' = recipient
      PROVE  \/ lock' = lock /\ todo' = todo /\ swept' = swept /\ recipient' = recipient
             \/ lock' # "sweep" /\ swept' \in {"none", "incomplete"}
  BY <1>2 DEF Failed, Tasks
<1>3. ASSUME NEW p \in Tasks, NEW t, Finished(p, t), task[p].do = "consume", recipient' = recipient
      PROVE  \/ lock' = lock /\ todo' = todo /\ swept' = swept /\ recipient' = recipient
             \/ lock = "sweep" /\ lock' = "sweep" /\ swept' = swept /\ recipient' = recipient
                /\ \E m \in Messages : todo' = todo \ {m} /\ msg[m].state \in Outcomes
  <2>1. CASE p = "loop"
    BY <1>3, <2>1 DEF Finished
  <2>2. CASE p = "sweep"
    <3>1. lock = "sweep" /\ task[p].m \in Messages /\ msg[task[p].m].state \in Outcomes
      BY <1>1, <1>3, <2>2 DEF SweepHasTheLock, JobIsSound
    <3>2. lock' = lock /\ swept' = swept /\ todo' = todo \ {task[p].m}
      BY <1>3, <2>2 DEF Finished
    <3>3. QED
      BY <1>3, <3>1, <3>2
  <2>3. QED
    BY <2>1, <2>2 DEF Tasks
<1>4. ASSUME NEW p \in Tasks, Read(p)
      PROVE  \/ lock' = lock /\ todo' = todo /\ swept' = swept /\ recipient' = recipient
             \/ lock = "sweep" /\ lock' = "sweep" /\ swept' = swept /\ recipient' = recipient
                /\ \E m \in Messages : todo' = todo \ {m} /\ msg[m].state \in Outcomes
  <2>1. recipient' = recipient
    BY <1>4 DEF Read
  <2>2. \/ lock' = lock /\ todo' = todo /\ swept' = swept
        \/ task[p].do = "consume" /\ Finished(p, task)
    BY <1>4 DEF Read
  <2>3. QED
    BY <1>3, <2>1, <2>2
<1>5. ASSUME NEW p \in Tasks, AppendIfLast(p)
      PROVE  \/ lock' = lock /\ todo' = todo /\ swept' = swept /\ recipient' = recipient
             \/ lock = "sweep" /\ lock' = "sweep" /\ swept' = swept /\ recipient' = recipient
                /\ \E m \in Messages : todo' = todo \ {m} /\ msg[m].state \in Outcomes
  <2>1. recipient' = recipient
    BY <1>5 DEF AppendIfLast, Record
  <2>2. \/ lock' = lock /\ todo' = todo /\ swept' = swept
        \/ task[p].do = "consume" /\ Finished(p, Outdated(task))
    BY <1>5 DEF AppendIfLast, Record
  <2>3. QED
    BY <1>3, <2>1, <2>2
<1>6. ASSUME NEW p \in Tasks, Retry(p) \/ StoreFails(p)
      PROVE  \/ lock' = lock /\ todo' = todo /\ swept' = swept /\ recipient' = recipient
             \/ lock' # "sweep" /\ swept' \in {"none", "incomplete"}
  <2>1. recipient' = recipient
    BY <1>6 DEF Retry, StoreFails
  <2>2. UNCHANGED <<lock, todo, swept>> \/ Failed(p)
    BY <1>6 DEF Retry, StoreFails
  <2>3. QED
    BY <1>2, <2>1, <2>2
<1>7. CASE EndChild \/ SettleParked \/ InterruptIdle
  BY <1>7 DEF EndChild, SettleParked, InterruptIdle, Terminalize
<1>8. CASE SweepDone \/ Stop
  BY <1>8 DEF SweepDone, Stop, Gone
<1>9. CASE SendMessage \/ AnnounceMessage \/ Start \/ Followup
  BY <1>9 DEF SendMessage, AnnounceMessage, Start, Followup, child
<1>10. CASE Rehydrate
  BY <1>1, <1>10 DEF Rehydrate, DownIsIdle
<1>11. CASE OthersAppend \/ TakeMessage \/ Cross \/ (\E ok \in BOOLEAN : Answer(ok)) \/ LoopEnds
  BY <1>11 DEF OthersAppend, TakeMessage, Cross, Answer, LoopEnds, child
<1>12. CASE SweepNext \/ Recovered \/ UNCHANGED vars
  BY <1>12 DEF SweepNext, Recovered, child, vars
<1>13. CASE Reconcile \/ RecoverAnnouncement \/ RecoverMessage
  <2>1. phase # "up" /\ lock' = lock /\ swept' = swept
    BY <1>13, RecoveryShape DEF Reconcile
  <2>2. QED
    BY <1>1, <2>1 DEF DownIsIdle
<1>14. QED
  BY <1>4, <1>5, <1>6, <1>7, <1>8, <1>9, <1>10, <1>11, <1>12, <1>13 DEF Next, Step

LEMMA SweepCoversStep == IInv /\ [Next]_vars => SweepCovers'
<1> SUFFICES ASSUME IInv, [Next]_vars, lock' = "sweep"
             PROVE  recipient' = "terminal" /\ Unsettled' \subseteq todo'
  BY DEF SweepCovers
<1>1. Unsettled' \subseteq Unsettled
  BY UnsettledShrinks
<1>2. SweepCovers
  BY DEF IInv
<1>3. CASE lock' = lock /\ todo' = todo /\ swept' = swept /\ recipient' = recipient
  BY <1>1, <1>2, <1>3 DEF SweepCovers
<1>4. CASE todo' = Unsettled /\ recipient' = "terminal"
  BY <1>1, <1>4
<1>5. CASE /\ lock = "sweep" /\ recipient' = recipient
           /\ \E m \in Messages : todo' = todo \ {m} /\ msg[m].state \in Outcomes
  <2>1. PICK m \in Messages : todo' = todo \ {m} /\ msg[m].state \in Outcomes
    BY <1>5
  <2>2. m \notin Unsettled
    BY <2>1 DEF Unsettled, Outcomes
  <2>3. QED
    BY <1>1, <1>2, <1>5, <2>1, <2>2 DEF SweepCovers
<1>6. QED
  BY <1>3, <1>4, <1>5, SweepShape

LEMMA TerminalStep == IInv /\ [Next]_vars => TerminalLeavesNothing'
<1> SUFFICES ASSUME IInv, [Next]_vars, swept' = "complete", recipient' # "live"
             PROVE  Unsettled' = {}
  BY DEF TerminalLeavesNothing
<1>1. Unsettled' \subseteq Unsettled
  BY UnsettledShrinks
<1>2. TerminalLeavesNothing /\ SweepCovers
  BY DEF IInv
<1>3. CASE swept = "complete" /\ recipient # "live"
  BY <1>1, <1>2, <1>3 DEF TerminalLeavesNothing
<1>4. CASE lock = "sweep" /\ todo = {}
  BY <1>1, <1>2, <1>4 DEF SweepCovers
<1>5. QED
  BY <1>3, <1>4, SweepShape

-----------------------------------------------------------------------------
(* The order in which messages cross. *)

LEMMA NewestStep == IInv /\ [Next]_vars => NewestIsAnnounced'
<1> SUFFICES ASSUME IInv, [Next]_vars, lock' = "send"
             PROVE  \E m \in Messages : /\ msg'[m].state # "absent" /\ ~msg'[m].notified
                                       /\ \A n \in Messages : n > m => msg'[n].state = "absent"
  BY DEF NewestIsAnnounced
<1>1. msg \in [Messages -> MessageRecord] /\ SentInOrder /\ LogMoves /\ NewestIsAnnounced
  BY LogStep DEF IInv, TypeOK
<1>2. CASE SendMessage
  <2>1. PICK m \in Messages : /\ msg[m].state = "absent"
                             /\ msg' = [msg EXCEPT ![m] = [Absent EXCEPT !.state = "queued"]]
    BY <1>2 DEF SendMessage, Append1
  <2>2. msg'[m].state # "absent" /\ ~msg'[m].notified
    BY <1>1, <2>1 DEF Absent
  <2>3. ASSUME NEW n \in Messages, n > m PROVE msg'[n].state = "absent"
    <3>1. m \in Int /\ n \in Int /\ n # m /\ m < n
      BY <2>3 DEF Messages
    <3>2. msg[n].state = "absent"
      BY <1>1, <2>1, <3>1 DEF SentInOrder
    <3>3. QED
      BY <1>1, <2>1, <3>1, <3>2
  <2>4. QED
    BY <2>2, <2>3
<1>3. CASE lock = "send"
  <2>1. PICK m \in Messages : /\ msg[m].state # "absent" /\ ~msg[m].notified
                             /\ \A n \in Messages : n > m => msg[n].state = "absent"
    BY <1>1, <1>3 DEF NewestIsAnnounced
  <2>2. msg'[m].state # "absent"
    BY <2>1, MessagesMove, MovesForward
  <2>3. CASE msg' = msg
    BY <2>1, <2>3
  <2>4. CASE msg' # msg
    <3>1. PICK a, s :
             /\ a \in Messages
             /\ msg' = [msg EXCEPT ![a] = s] /\ msg[a].state # "absent"
             /\ (s.notified => msg[a].notified)
      BY <1>1, <1>3, <2>4 DEF LogMoves
    <3>2. ~msg'[m].notified
      BY <1>1, <2>1, <3>1
    <3>3. ASSUME NEW n \in Messages, n > m PROVE msg'[n].state = "absent"
      <4>1. msg[n].state = "absent"
        BY <2>1, <3>3
      <4>2. QED
        BY <1>1, <3>1, <4>1
    <3>4. QED
      BY <2>2, <3>2, <3>3
  <2>5. QED
    BY <2>3, <2>4
<1>4. SendMessage \/ lock = "send"
  BY DEF Next, AnnounceMessage, Step, Read, AppendIfLast, Record, Retry, StoreFails, Failed, Finished,
         OthersAppend, Start, TakeMessage, Cross, Answer, LoopEnds, EndChild, SettleParked,
         InterruptIdle, Terminalize, SweepNext, SweepDone, Followup, Stop, Gone, Rehydrate, Repair,
         RecoverAnnouncement, Reconcile, RecoverMessage, Recovered, vars
<1>5. QED
  BY <1>2, <1>3, <1>4

(* A message that is offered now was offered before, or it is the newest.        *)
LEMMA OfferedIsNewest ==
  ASSUME IInv, [Next]_vars, phase' = "up", NEW m \in Deliverable'
  PROVE  /\ m \in Messages
         /\ \/ m \in Deliverable
            \/ /\ ~msg[m].notified
               /\ \A n \in Messages : msg[n].state # "absent" => n <= m
<1>1. msg \in [Messages -> MessageRecord] /\ NewestIsAnnounced /\ LogMoves
  BY LogStep DEF IInv, TypeOK
<1>2. m \in Messages /\ msg'[m].state = "queued" /\ msg'[m].notified
  BY DEF Deliverable
<1>3. CASE AnnounceMessage
  <2>1. PICK a \in Messages : /\ msg[a].state # "absent" /\ ~msg[a].notified
                             /\ \A n \in Messages : n > a => msg[n].state = "absent"
    BY <1>1, <1>3 DEF AnnounceMessage, NewestIsAnnounced
  <2>2. \A n \in Messages : msg[n].state # "absent" => n <= a
    BY <2>1 DEF Messages
  <2>3. CASE msg' = msg
    BY <1>2, <2>3 DEF Deliverable
  <2>4. CASE msg' # msg
    <3>1. PICK b \in Unannounced : /\ \A n \in Unannounced : n <= b
                                  /\ msg' = [msg EXCEPT ![b] = Announce(msg[b])]
      BY <1>3, <2>4 DEF AnnounceMessage, Append1
    <3>2. a \in Unannounced /\ b \in Messages /\ msg[b].state # "absent" /\ ~msg[b].notified
      BY <2>1, <3>1 DEF Unannounced
    <3>3. a = b
      BY <2>2, <3>1, <3>2 DEF Messages
    <3>4. CASE m = b
      BY <1>2, <2>2, <3>2, <3>3, <3>4
    <3>5. CASE m # b
      BY <1>1, <1>2, <3>1, <3>2, <3>5 DEF Deliverable
    <3>6. QED
      BY <3>4, <3>5
  <2>5. QED
    BY <2>3, <2>4
<1>4. CASE ~AnnounceMessage
  <2>1. \A n \in Messages : msg'[n].notified => msg[n].notified
    <3>1. CASE msg' = msg
      BY <3>1
    <3>2. CASE SendMessage
      <4>1. PICK a \in Messages : msg' = [msg EXCEPT ![a] = [Absent EXCEPT !.state = "queued"]]
        BY <3>2 DEF SendMessage, Append1
      <4>2. ~[Absent EXCEPT !.state = "queued"].notified
        BY DEF Absent
      <4>3. QED
        BY <1>1, <4>1, <4>2
    <3>3. ASSUME NEW p \in Tasks, AppendIfLast(p) PROVE \A n \in Messages : msg'[n].notified => msg[n].notified
      <4>1. MessageIsSound(task[p].m, msg[task[p].m], accepted)
        BY <3>3 DEF AppendIfLast, Record, IInv, JobsAreSound, JobIsSound, LogIsSound
      <4>2. \E event : \/ msg' = [msg EXCEPT ![task[p].m] = Deliver(msg[task[p].m], event)]
                       \/ msg' = [msg EXCEPT ![task[p].m] = Acknowledge(msg[task[p].m])]
        BY <3>3 DEF AppendIfLast, Record, Append1
      <4>3. QED
        BY <1>1, <4>1, <4>2, DeliverNotes
    <3>4. CASE RecoverAnnouncement \/ RecoverMessage
      BY <3>4, RecoveryShape
    <3>5. \/ msg' = msg \/ SendMessage \/ RecoverAnnouncement \/ RecoverMessage
          \/ \E p \in Tasks : AppendIfLast(p)
      BY <1>4 DEF Next, Step, Read, Retry, StoreFails, OthersAppend, Start, TakeMessage, Cross, Answer,
                  LoopEnds, EndChild, SettleParked, InterruptIdle, Terminalize, SweepNext, SweepDone,
                  Followup, Stop, Rehydrate, Reconcile, Recovered, vars
    <3>6. QED
      BY <3>1, <3>2, <3>3, <3>4, <3>5
  <2>2. msg[m].notified /\ Moves(m, msg[m], msg'[m], accepted')
        /\ MessageIsSound(m, msg[m], accepted')
    BY <1>2, <2>1, MessagesMove
  <2>3. msg[m].state = "queued"
    BY <1>2, <2>2 DEF Moves, MessageIsSound, MessageRecord, Outcomes, Absent
  <2>4. QED
    BY <1>2, <2>2, <2>3 DEF Deliverable
<1>5. QED
  BY <1>3, <1>4

(* What a step does to the loop's place in the order. *)
LEMMA LoopShape ==
  ASSUME IInv, [Next]_vars
  PROVE  \/ Cross \/ TakeMessage
         \/ \E p \in Tasks : AppendIfLast(p) /\ task[p].do = "claim"
         \/ /\ crossed' = crossed
            /\ task'["loop"].do = "claim" => task["loop"].do = "claim" /\ task'["loop"].m = task["loop"].m
            /\ loop' = "delivering" => loop = "delivering" /\ current' = current
<1>1. /\ TypeOK /\ task \in [Tasks -> Jobs] /\ "loop" \in Tasks /\ "sweep" \in Tasks
      /\ Idle.do = "none" /\ Outdated(task) \in [Tasks -> Jobs]
      /\ Outdated(task)["loop"].do = task["loop"].do /\ Outdated(task)["loop"].m = task["loop"].m
      /\ \A p \in Tasks : JobIsSound(p, task[p], msg, accepted)
  <2>1. "loop" \in Tasks /\ "sweep" \in Tasks
    BY DEF Tasks
  <2>2. QED
    BY <2>1, OutdatedJob, JobTypes DEF IInv, TypeOK, JobsAreSound
<1> DEFINE Stays == /\ crossed' = crossed
                    /\ task'["loop"].do = "claim" =>
                          task["loop"].do = "claim" /\ task'["loop"].m = task["loop"].m
                    /\ loop' = "delivering" => loop = "delivering" /\ current' = current
<1>2. ASSUME NEW p \in Tasks, Failed(p), crossed' = crossed PROVE Stays
  BY <1>1, <1>2 DEF Failed, Tasks
<1>3. ASSUME NEW p \in Tasks, NEW t \in [Tasks -> Jobs], Finished(p, t), crossed' = crossed,
             t["loop"].do = task["loop"].do, t["loop"].m = task["loop"].m
      PROVE  Stays
  BY <1>1, <1>3 DEF Finished, Tasks
<1>4. ASSUME NEW p \in Tasks, NEW job \in Jobs, job.do = "claim" => job.do = task[p].do /\ job.m = task[p].m,
             task' \in {[task EXCEPT ![p] = job], Outdated([task EXCEPT ![p] = job])},
             UNCHANGED <<loop, current, crossed>>
      PROVE  Stays
  <2> DEFINE t == [task EXCEPT ![p] = job]
  <2>1. t \in [Tasks -> Jobs] /\ (p # "loop" => t["loop"] = task["loop"]) /\ (p = "loop" => t["loop"] = job)
    BY <1>1, <1>4
  <2>2. task'["loop"].do = t["loop"].do /\ task'["loop"].m = t["loop"].m
    <3>1. task' \in {t, Outdated(t)}
      BY <1>4
    <3> HIDE DEF t
    <3>2. Outdated(t)["loop"].do = t["loop"].do /\ Outdated(t)["loop"].m = t["loop"].m
      BY <1>1, <2>1, OutdatedJob
    <3>3. QED
      BY <3>1, <3>2
  <2> HIDE DEF t
  <2>3. QED
    BY <1>4, <2>1, <2>2
<1>5. ASSUME NEW p \in Tasks, Read(p) PROVE Stays
  <2> DEFINE m == task[p].m
  <2>1. m \in Messages /\ task[p] \in Jobs /\ crossed' = crossed
    BY <1>1, <1>5 DEF Read, JobIsSound, provider
  <2>2. \/ Finished(p, task)
        \/ /\ UNCHANGED <<loop, current>>
           /\ \E job \in {Job("reject", m, FALSE), Job("consume", m, FALSE),
                          [task[p] EXCEPT !.read = "current"]} : task' = [task EXCEPT ![p] = job]
    BY <1>5 DEF Read
  <2>3. /\ Job("reject", m, FALSE) \in Jobs /\ Job("reject", m, FALSE).do = "reject"
        /\ Job("consume", m, FALSE) \in Jobs /\ Job("consume", m, FALSE).do = "consume"
    BY <2>1, JobTypes
  <2>4. [task[p] EXCEPT !.read = "current"] \in Jobs /\ [task[p] EXCEPT !.read = "current"].m = m
        /\ [task[p] EXCEPT !.read = "current"].do = task[p].do
    BY <2>1 DEF Jobs
  <2>5. CASE Finished(p, task)
    BY <1>1, <1>3, <2>1, <2>5
  <2>6. CASE ~Finished(p, task)
    <3>1. PICK job \in {Job("reject", m, FALSE), Job("consume", m, FALSE),
                        [task[p] EXCEPT !.read = "current"]} : task' = [task EXCEPT ![p] = job]
      BY <2>2, <2>6
    <3>2. job \in Jobs /\ UNCHANGED <<loop, current, crossed>>
          /\ (job.do = "claim" => job.do = task[p].do /\ job.m = task[p].m)
      BY <2>1, <2>2, <2>3, <2>4, <2>6
    <3>3. QED
      BY <1>4, <3>1, <3>2
  <2>7. QED
    BY <2>5, <2>6
<1>6. ASSUME NEW p \in Tasks, Retry(p) PROVE Stays
  <2>1. CASE Failed(p)
    BY <1>2, <1>6, <2>1 DEF Retry, provider
  <2>2. CASE ~Failed(p)
    <3>1. task' = [task EXCEPT ![p].tries = task[p].tries + 1, ![p].read = "no"]
          /\ UNCHANGED <<loop, current, crossed>>
      BY <1>6, <2>2 DEF Retry, provider
    <3>2. task'["loop"].do = task["loop"].do /\ task'["loop"].m = task["loop"].m
      BY <1>1, <3>1 DEF Jobs
    <3>3. QED
      BY <3>1, <3>2
  <2>3. QED
    BY <2>1, <2>2
<1>7. ASSUME NEW p \in Tasks, AppendIfLast(p), task[p].do # "claim" PROVE Stays
  <2> DEFINE m == task[p].m
  <2>1. Record(p) /\ m \in Messages /\ crossed' = crossed
    BY <1>1, <1>7 DEF AppendIfLast, Record, JobIsSound, provider
  <2>2. CASE task[p].do \in {"finish", "reject"}
    <3>1. task' = Outdated([task EXCEPT ![p] = Job("consume", m, FALSE)])
          /\ UNCHANGED <<loop, current>>
      BY <2>1, <2>2 DEF Record
    <3>2. Job("consume", m, FALSE) \in Jobs /\ Job("consume", m, FALSE).do # "claim"
      BY <2>1, JobTypes
    <3>3. QED
      BY <1>4, <2>1, <3>1, <3>2
  <2>3. CASE task[p].do = "consume"
    BY <1>1, <1>3, <2>1, <2>3 DEF Record
  <2>4. QED
    BY <1>7, <2>1, <2>2, <2>3 DEF Record
<1>8. ASSUME NEW p \in Tasks, StoreFails(p) PROVE Stays
  BY <1>2, <1>8 DEF StoreFails, provider
<1>9. ASSUME NEW ok \in BOOLEAN, Answer(ok) PROVE Stays
  <2>1. current \in Messages /\ loop' = "busy" /\ crossed' = crossed
        /\ task'["loop"] = Job("finish", current, ok)
    BY <1>1, <1>9 DEF Answer, IInv, LoopHasOneMessage
  <2>2. Job("finish", current, ok).do = "finish"
    BY <2>1, JobTypes
  <2>3. QED
    BY <2>1, <2>2
<1>10. CASE Start \/ LoopEnds \/ SweepDone
  BY <1>1, <1>10 DEF Start, LoopEnds, SweepDone, provider
<1>11. CASE EndChild \/ SettleParked \/ InterruptIdle
  BY <1>1, <1>11 DEF EndChild, SettleParked, InterruptIdle, Terminalize, provider
<1>12. CASE Stop
  BY <1>1, <1>12 DEF Stop, Gone, provider
<1>13. CASE SweepNext
  BY <1>1, <1>13 DEF SweepNext, child, provider
<1>14. CASE SendMessage \/ AnnounceMessage \/ OthersAppend \/ Followup
  BY <1>1, <1>14 DEF SendMessage, AnnounceMessage, OthersAppend, Followup, child, provider
<1>15. CASE Rehydrate \/ Reconcile \/ RecoverAnnouncement \/ RecoverMessage \/ Recovered \/ UNCHANGED vars
  BY <1>1, <1>15 DEF Rehydrate, Reconcile, RecoverAnnouncement, RecoverMessage, Repair, Recovered, vars, child, provider
<1>16. QED
  BY <1>5, <1>6, <1>7, <1>8, <1>9, <1>10, <1>11, <1>12, <1>13, <1>14, <1>15 DEF Next, Step

LEMMA OrderStep == IInv /\ [Next]_vars => OfferedInOrder' /\ CrossesOnceInOrder'
<1> SUFFICES ASSUME IInv, [Next]_vars PROVE OfferedInOrder' /\ CrossesOnceInOrder'
  OBVIOUS
<1>1. /\ OfferedInOrder /\ CrossesOnceInOrder /\ LogIsSound /\ DownIsIdle' /\ LoopHasOneMessage
      /\ crossed \in Seq(Messages) /\ task \in [Tasks -> Jobs] /\ msg \in [Messages -> MessageRecord]
      /\ JobIsSound("loop", task["loop"], msg, accepted)
      /\ "loop" \in Tasks
  BY DownStep DEF IInv, TypeOK, Tasks, JobsAreSound
<1>2. Messages \subseteq Int
  BY DEF Messages
<1>3. Len(crossed) \in Nat /\ \A i \in 1..Len(crossed) : crossed[i] \in Messages
  BY <1>1
(* What crossed was announced and claimed. *)
<1>4. ASSUME NEW i \in 1..Len(crossed)
      PROVE  /\ msg[crossed[i]].claimed /\ msg[crossed[i]].notified
             /\ msg[crossed[i]].state # "absent" /\ msg'[crossed[i]].claimed
  <2>1. msg[crossed[i]].claimed /\ crossed[i] \in Messages
    BY <1>1, <1>3 DEF OfferedInOrder
  <2>2. MessageIsSound(crossed[i], msg[crossed[i]], accepted)
    BY <1>1, <2>1 DEF LogIsSound
  <2>3. QED
    BY <2>1, <2>2, MessagesMove, MovesForward DEF MessageIsSound, Absent
(* What is offered after the step comes after what crossed before it. *)
<1>5. ASSUME phase' = "up", NEW n \in Deliverable', phase = "up" \/ n \notin Deliverable
      PROVE  Before(n)
  <2>1. n \in Messages /\ (n \in Deliverable \/ (/\ ~msg[n].notified
               /\ \A b \in Messages : msg[b].state # "absent" => b <= n))
    BY <1>5, OfferedIsNewest
  <2>2. CASE n \in Deliverable
    BY <1>1, <1>5, <2>2 DEF OfferedInOrder
  <2>3. CASE n \notin Deliverable
    <3>1. ASSUME NEW i \in 1..Len(crossed) PROVE crossed[i] < n
      <4>1. crossed[i] \in Int /\ n \in Int /\ crossed[i] <= n /\ crossed[i] # n
        BY <1>2, <1>3, <1>4, <2>1, <2>3
      <4>2. QED
        BY <4>1
    <3>2. QED
      BY <3>1 DEF Before
  <2>4. QED
    BY <2>2, <2>3
(* The message that the loop is at comes before what is offered. *)
<1>6. ASSUME NEW m \in Messages, msg[m].state # "absent", msg[m].notified,
             \A n \in Deliverable : m <= n, phase' = "up"
      PROVE  \A n \in Deliverable' : m <= n
  BY <1>6, OfferedIsNewest
<1>7. CASE Cross
  <2>1. /\ crossed' = Append(crossed, current) /\ current \in Messages /\ msg' = msg
        /\ phase' = phase /\ task' = task /\ loop' = "crossing" /\ loop = "delivering"
        /\ msg[current].claimed
    BY <1>1, <1>7 DEF Cross, LoopHasOneMessage
  <2>2. Before(current) /\ Deliverable' = Deliverable /\ \A n \in Deliverable : current < n
    BY <1>1, <2>1 DEF OfferedInOrder, Deliverable
  <2>3. /\ Len(crossed') = Len(crossed) + 1
        /\ \A i \in 1..Len(crossed) : crossed'[i] = crossed[i]
        /\ crossed'[Len(crossed) + 1] = current
    BY <1>1, <2>1, AppendProperties
  <2>4. \A i \in 1..Len(crossed') : i \in 1..Len(crossed) \/ i = Len(crossed) + 1
    BY <1>3, <2>3
  <2>5. \A i \in 1..Len(crossed') : msg'[crossed'[i]].claimed
    BY <1>4, <2>1, <2>3, <2>4
  <2>6. phase' = "up" => \A n \in Deliverable' : Before(n)'
    <3>1. SUFFICES ASSUME phase = "up", NEW n \in Deliverable, NEW i \in 1..Len(crossed')
                   PROVE  crossed'[i] < n
      BY <2>1, <2>2 DEF Before
    <3>2. Before(n)
      BY <1>1, <3>1 DEF OfferedInOrder
    <3>3. QED
      BY <2>2, <2>3, <2>4, <3>1, <3>2 DEF Before
  <2>7. task'["loop"].do # "claim" /\ loop' # "delivering"
    BY <1>1, <2>1 DEF LoopHasOneMessage
  <2>8. CrossesOnceInOrder'
    <3>1. SUFFICES ASSUME NEW i \in 1..Len(crossed'), NEW j \in 1..Len(crossed'), i < j
                   PROVE  crossed'[i] < crossed'[j]
      BY DEF CrossesOnceInOrder
    <3>2. i \in 1..Len(crossed)
      BY <1>3, <2>3, <3>1
    <3>3. CASE j \in 1..Len(crossed)
      BY <1>1, <2>3, <3>1, <3>2, <3>3 DEF CrossesOnceInOrder
    <3>4. CASE j = Len(crossed) + 1
      BY <2>2, <2>3, <3>2, <3>4 DEF Before
    <3>5. QED
      BY <2>4, <3>3, <3>4
  <2>9. QED
    BY <2>5, <2>6, <2>7, <2>8 DEF OfferedInOrder
<1>8. CASE TakeMessage
  <2> DEFINE m == First(Deliverable)
  <2>1. m \in Deliverable /\ m \in Messages /\ \A n \in Deliverable : m <= n
    BY <1>8, FirstIsLeast DEF TakeMessage, Deliverable
  <2>2. /\ crossed' = crossed /\ msg' = msg /\ phase = "up" /\ loop' = "busy"
        /\ task'["loop"] = Job("claim", m, FALSE)
    BY <1>1, <1>8 DEF TakeMessage, provider
  <2> HIDE DEF m
  <2>3. Job("claim", m, FALSE).m = m
    BY <2>1, JobTypes
  <2>4. Deliverable' = Deliverable
    BY <2>2 DEF Deliverable
  <2>5. Before(m) /\ \A n \in Deliverable : Before(n)
    BY <1>1, <2>1, <2>2 DEF OfferedInOrder
  <2>6. CrossesOnceInOrder'
    BY <1>1, <2>2 DEF CrossesOnceInOrder
  <2>7. QED
    BY <1>1, <2>1, <2>2, <2>3, <2>4, <2>5, <2>6 DEF OfferedInOrder, Before
<1>9. ASSUME NEW p \in Tasks, AppendIfLast(p), task[p].do = "claim"
      PROVE  OfferedInOrder' /\ CrossesOnceInOrder'
  <2>1. p = "loop" /\ task[p].read = "current" /\ Record(p)
    BY <1>9 DEF AppendIfLast, IInv, JobsAreSound, JobIsSound
  <2> DEFINE m == task["loop"].m
  <2>2. m \in Messages /\ msg[m].state = "queued" /\ msg[m].notified
    BY <1>1, <1>9, <2>1 DEF JobIsSound
  <2>3. /\ crossed' = crossed /\ phase' = "up" /\ phase = "up" /\ loop' = "delivering" /\ current' = m
        /\ msg' = [msg EXCEPT ![m] = Deliver(msg[m], "started")]
        /\ task' = Outdated([task EXCEPT !["loop"] = Idle])
    BY <1>9, <2>1 DEF AppendIfLast, Record, Append1, provider
  <2>4. task'["loop"].do = "none"
    <3> DEFINE t == [task EXCEPT !["loop"] = Idle]
    <3>1. "loop" \in Tasks /\ task \in [Tasks -> Jobs] /\ Idle \in Jobs /\ Idle.do = "none"
      BY <1>1, <1>9, <2>1, JobTypes
    <3>2. t \in [Tasks -> Jobs] /\ t["loop"].do = "none"
      BY <3>1
    <3>3. task' = Outdated(t)
      BY <2>3
    <3> HIDE DEF t
    <3>4. QED
      BY <3>1, <3>2, <3>3, OutdatedJob
  <2>5. Before(m) /\ \A n \in Deliverable : m <= n
    BY <1>1, <1>9, <2>1 DEF OfferedInOrder
  <2>6. \A n \in Deliverable' : m <= n /\ n # m /\ n \in Messages
    <3>1. m \notin Deliverable'
      <4>1. msg'[m] = Deliver(msg[m], "started") /\ msg[m] \in MessageRecord
        BY <1>1, <2>2, <2>3
      <4>2. msg'[m].state # "queued"
        BY <2>2, <4>1 DEF Deliver, MessageRecord
      <4>3. QED
        BY <4>2 DEF Deliverable
    <3>2. \A n \in Deliverable' : m <= n
      BY <1>6, <2>2, <2>3, <2>5
    <3>3. QED
      BY <3>1, <3>2 DEF Deliverable
  <2> HIDE DEF m
  <2>7. ASSUME NEW n \in Deliverable' PROVE current' < n
    <3>1. m <= n /\ n # m /\ n \in Int /\ m \in Int
      BY <1>2, <2>2, <2>6
    <3>2. QED
      BY <2>3, <3>1
  <2>8. \A n \in Deliverable' : Before(n)'
    BY <1>5, <2>3 DEF Before
  <2>9. CrossesOnceInOrder' /\ \A i \in 1..Len(crossed') : crossed'[i] < current'
    BY <1>1, <2>3, <2>5 DEF CrossesOnceInOrder, Before
  <2>10. \A i \in 1..Len(crossed') : msg'[crossed'[i]].claimed
    BY <1>4, <2>3
  <2>11. QED
    BY <2>4, <2>7, <2>8, <2>9, <2>10 DEF OfferedInOrder, Before
<1>10. CASE /\ crossed' = crossed
            /\ task'["loop"].do = "claim" => task["loop"].do = "claim" /\ task'["loop"].m = task["loop"].m
            /\ loop' = "delivering" => loop = "delivering" /\ current' = current
  <2>1. CrossesOnceInOrder' /\ \A i \in 1..Len(crossed') : msg'[crossed'[i]].claimed
    BY <1>1, <1>4, <1>10 DEF CrossesOnceInOrder
  <2>2. CASE phase' # "up"
    <3>1. task'["loop"].do = "none" /\ loop' = "off"
      BY <1>1, <2>2 DEF DownIsIdle
    <3>2. QED
      BY <2>1, <2>2, <3>1 DEF OfferedInOrder
  <2>3. CASE phase' = "up"
    <3>1. phase = "up" \/ Deliverable = {}
      <4>1. phase = "up" \/ Recovered
        BY <2>3 DEF Next, SendMessage, AnnounceMessage, Step, Read, AppendIfLast, Record, Retry,
             StoreFails, OthersAppend, Start, TakeMessage, Cross, Answer, LoopEnds, EndChild,
             SettleParked, InterruptIdle, Terminalize, SweepNext, SweepDone, Followup, Stop,
             Rehydrate, Repair, RecoverAnnouncement, Reconcile, RecoverMessage, vars
      <4>2. Recovered => Deliverable = {}
        BY DEF IInv, RecoveryCovers, Recovered, Deliverable, Unreconciled, Settled, Outcomes
      <4>3. QED
        BY <4>1, <4>2
    <3>2. \A n \in Deliverable' : Before(n)'
      BY <1>5, <1>10, <2>3, <3>1 DEF Before
    <3>3. ASSUME task'["loop"].do = "claim"
          PROVE  /\ \A i \in 1..Len(crossed') : crossed'[i] < task'["loop"].m
                 /\ \A n \in Deliverable' : task'["loop"].m <= n
      <4>1. /\ Before(task["loop"].m) /\ \A n \in Deliverable : task["loop"].m <= n
            /\ task'["loop"].m = task["loop"].m /\ task["loop"].do = "claim"
        BY <1>1, <1>10, <3>3 DEF OfferedInOrder
      <4>2. task["loop"].m \in Messages /\ msg[task["loop"].m].state # "absent"
            /\ msg[task["loop"].m].notified
        BY <1>1, <4>1 DEF JobIsSound
      <4>3. QED
        BY <1>6, <1>10, <2>3, <4>1, <4>2 DEF Before
    <3>4. ASSUME loop' = "delivering"
          PROVE  /\ \A i \in 1..Len(crossed') : crossed'[i] < current'
                 /\ \A n \in Deliverable' : current' < n
      <4>1. /\ Before(current) /\ \A n \in Deliverable : current < n
            /\ current' = current /\ loop = "delivering"
        BY <1>1, <1>10, <3>4 DEF OfferedInOrder
      <4>2. /\ current \in Messages /\ msg[current].claimed
            /\ MessageIsSound(current, msg[current], accepted)
        BY <1>1, <4>1 DEF LoopHasOneMessage, LogIsSound
      <4>3. msg[current].notified /\ msg[current].state # "absent"
        BY <4>2 DEF MessageIsSound, Absent
      <4>4. ASSUME NEW n \in Deliverable' PROVE current < n
        <5>1. CASE n \in Deliverable
          BY <4>1, <5>1
        <5>2. CASE n \notin Deliverable
          <6>1. n \in Messages /\ ~msg[n].notified /\ current <= n
            BY <2>3, <4>2, <4>3, <5>2, OfferedIsNewest
          <6>2. current \in Int /\ n \in Int /\ current # n
            BY <1>2, <4>2, <4>3, <6>1
          <6>3. QED
            BY <6>1, <6>2
        <5>3. QED
          BY <5>1, <5>2
      <4>5. QED
        BY <1>10, <4>1, <4>4 DEF Before
    <3>5. QED
      BY <2>1, <3>2, <3>3, <3>4 DEF OfferedInOrder, Before
  <2>4. QED
    BY <2>2, <2>3
<1>11. QED
  BY <1>7, <1>8, <1>9, <1>10, LoopShape

-----------------------------------------------------------------------------
(* The theorems. *)

LEMMA InvInit == Init => IInv
<1> SUFFICES ASSUME Init PROVE IInv
  OBVIOUS
<1> USE DEF Init
<1>1. TypeOK
  <2>1. msg \in [Messages -> MessageRecord] /\ task \in [Tasks -> Jobs]
    BY AbsentType, JobTypes
  <2>2. <<>> \in Seq(Messages) /\ {} \subseteq Messages
    OBVIOUS
  <2>3. 0 \in 0..NumMessages /\ 0 \in 0..MaxTurns /\ 0 \in 0..MaxFaults
    BY MessagesAssumption
  <2>4. QED
    BY <2>1, <2>2, <2>3 DEF TypeOK
<1>2. LogIsSound /\ SentInOrder
  BY AbsentType DEF LogIsSound, MessageIsSound, SentInOrder, Outcomes
<1>3. JobsAreSound /\ LoopHasOneMessage /\ SweepHasTheLock /\ SweepTakesSent /\ DownIsIdle
  BY IdleIsSound, JobTypes DEF JobsAreSound, LoopHasOneMessage, SweepHasTheLock, SweepTakesSent,
     DownIsIdle, Tasks
<1>4. /\ RecoveryCovers /\ SweepCovers /\ TerminalLeavesNothing
      /\ NewestIsAnnounced /\ CrossesOnceInOrder
  BY DEF RecoveryCovers, SweepCovers, TerminalLeavesNothing, NewestIsAnnounced, CrossesOnceInOrder
<1>5. OfferedInOrder
  BY AbsentType, JobTypes DEF OfferedInOrder, Deliverable, Tasks
<1>6. QED
  BY <1>1, <1>2, <1>3, <1>4, <1>5 DEF IInv

LEMMA Invariant == Spec => []IInv
<1>1. IInv /\ [Next]_vars => IInv'
  BY TypeStep, LogIsSoundStep, JobsStep, LoopStep, SweepStep, DownStep, RecoveryCoversStep,
     SweepCoversStep, TerminalStep, NewestStep, OrderStep DEF IInv
<1>2. QED
  BY InvInit, <1>1, PTL DEF Spec

(* Types: in particular no counter of the projection leaves its range. *)
THEOREM TypeCorrect == Spec => []TypeOK
<1>1. IInv => TypeOK
  BY DEF IInv
<1>2. QED
  BY <1>1, Invariant, PTL

(* No interleaving of the sender, the loop, the sweep, the other agents and     *)
(* restarts appends an event that the projection of mailbox.rs refuses.         *)
THEOREM Readable == Spec => []LogStaysReadable
<1>1. IInv => LogStaysReadable
  BY DEF IInv, LogIsSound, MessageIsSound, LogStaysReadable
<1>2. QED
  BY <1>1, Invariant, PTL

(* A message crosses the provider boundary at most once, in the order of sending. *)
THEOREM CrossesOnce == Spec => []CrossesOnceInOrder
<1>1. IInv => CrossesOnceInOrder
  BY DEF IInv
<1>2. QED
  BY <1>1, Invariant, PTL

(* What the log says of claims, deliveries and acknowledgements is what happened. *)
THEOREM Truthful == Spec => []LogIsTruthful
<1>1. IInv => LogIsTruthful
  BY DEF IInv, LogIsTruthful, OfferedInOrder, LogIsSound, MessageIsSound, Settled
<1>2. QED
  BY <1>1, Invariant, PTL

(* A complete sweep leaves no unsettled message to a child that is not live.     *)
THEOREM NothingIsLeft == Spec => []TerminalLeavesNothing
<1>1. IInv => TerminalLeavesNothing
  BY DEF IInv
<1>2. QED
  BY <1>1, Invariant, PTL

(* RecoverySettles: RecoveryCovers says that what the passes of a restart have   *)
(* not handled yet is all they have to, and a restart that succeeds has handled  *)
(* its lists.                                                                    *)
THEOREM RecoveryIsComplete == Spec => RecoverySettles
<1>1. IInv /\ [Next]_vars =>
        [phase = "recovering" /\ phase' = "up" =>
            \A m \in Messages :
                msg[m].state # "absent" => Settled(m) /\ msg[m].notified /\ msg[m].acks = 1]_vars
  <2> SUFFICES ASSUME IInv, Next, phase = "recovering", phase' = "up",
                      NEW m \in Messages, msg[m].state # "absent"
               PROVE  Settled(m) /\ msg[m].notified /\ msg[m].acks = 1
    OBVIOUS
  <2>1. Recovered
    BY DEF Next, SendMessage, AnnounceMessage, Step, Read, AppendIfLast, Record, Retry,
         StoreFails, OthersAppend, Start, TakeMessage, Cross, Answer, LoopEnds, EndChild,
         SettleParked, InterruptIdle, Terminalize, SweepNext, SweepDone, Followup, Stop,
         Rehydrate, Repair, RecoverAnnouncement, Reconcile, RecoverMessage
  <2>2. m \notin Unannounced /\ m \notin Unreconciled
    BY <2>1 DEF Recovered, IInv, RecoveryCovers
  <2>3. Settled(m) /\ msg[m].notified /\ msg[m].acks # 0
    BY <2>2 DEF Unannounced, Unreconciled
  <2>4. MessageIsSound(m, msg[m], accepted) /\ msg[m] \in MessageRecord
    BY DEF IInv, LogIsSound, TypeOK
  <2>5. QED
    BY <2>3, <2>4 DEF MessageIsSound, MessageRecord
<1>2. QED
  BY <1>1, Invariant, PTL DEF Spec, RecoverySettles

=============================================================================
