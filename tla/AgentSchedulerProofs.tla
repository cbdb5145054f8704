------------------------ MODULE AgentSchedulerProofs ------------------------
(***************************************************************************)
(* Theorems about AgentScheduler, for every value of its constants.  The    *)
(* argument is about one agent at a time: Synced says that a ScheduledAgent *)
(* and its durable image agree and that the image is Sound; every append an *)
(* operation makes keeps that (the Step lemmas), whatever the later appends *)
(* of the operation do, so it also holds where a failure or a stop cuts an  *)
(* operation off, and a restart restores it from the log alone.  What a      *)
(* termination and a pass of rehydrate have listed is exactly what they      *)
(* still have to do (CallInv), and what a pass has not listed or has handled *)
(* needs none of the repairs so far (PassInv).                               *)
(***************************************************************************)
EXTENDS AgentScheduler, TLAPS

(* The durable image of an agent is one that rehydrate can continue from. *)
Sound(d) ==
    /\ d.state \in Terminal =>
         /\ d.pending = "none"
         /\ d.evidence # "none"
         /\ d.state = TerminalStateFor(d.evidence)
         /\ OpenOperations(d) = {}
    /\ d.authorized => d.state \in {"Completed", "Interrupted"}
    /\ d.pending # "none" =>
         /\ ValidTransition(d.state, TerminalStateFor(d.pending))
         /\ OpenOperations(d) = {}

Synced(p) ==
    /\ p.d \in DurableAgent
    /\ Sound(p.d)
    /\ p.m = Restored(p.d)

(* What an agent may be when memory does not know it: not dispatched, or      *)
(* left by a dispatch whose second append failed, or, while the process is    *)
(* down, anything sound.                                                      *)
AgentInv(a) ==
    /\ disk[a] \in DurableAgent \cup {NoAgent}
    /\ disk[a] # NoAgent => Sound(disk[a])
    /\ phase = "down" => mem[a] = NoAgent
    /\ Known(a) => disk[a] # NoAgent /\ mem[a] = Restored(disk[a])
    /\ phase # "down" /\ ~Known(a) => disk[a] = NoAgent \/ disk[a].state = "Created"

StoreInv == TypeOK /\ \A a \in Agents : AgentInv(a)

(* A call that ends an agent still has to close exactly what is open, and a   *)
(* pass only lists agents that need it.                                       *)
CallInv ==
    /\ phase \in {"up", "down"} => todo = {}
    /\ phase = "down" => ending = NoAgent
    /\ ending # NoAgent =>
         /\ phase \in {"up", "in_flight", "routes"}
         /\ Known(ending.agent) /\ ending.agent \notin todo
         /\ mem[ending.agent].state \notin Terminal
         /\ mem[ending.agent].pending = "none"
         /\ ending.open = OpenOperations(mem[ending.agent])
    /\ \A a \in todo : Known(a) /\ Needs(phase, mem[a], catalog)

(* The agent needs none of the passes that are over. *)
Past(pass, r, route) ==
    /\ pass # "handoffs" => r.pending = "none"
    /\ pass \in {"in_flight", "routes", "leases"} => ~r.authorized
    /\ pass \in {"routes", "leases"} => r.state \in {"Queued"} \cup Terminal
    /\ pass = "leases" => r.state # "Queued" \/ r.spec.route = route

(* An agent that needs the pass that is running is on its list or being ended. *)
PassInv ==
    phase \in Passes =>
        \A a \in Agents :
            Known(a) =>
                /\ Past(phase, mem[a], catalog)
                /\ Needs(phase, mem[a], catalog) =>
                     a \in todo \/ (ending # NoAgent /\ ending.agent = a)

IInv == StoreInv /\ CallInv /\ PassInv

-----------------------------------------------------------------------------

(* Types of the helpers. *)
LEMMA NextEventType == ASSUME NEW id \in EventIds PROVE NextEvent(id) \in EventIds
  BY SchedulerAssumption DEF EventIds, NextEvent

(* A durable agent is restored to an agent. *)
LEMMA RestoredType ==
  ASSUME NEW d \in DurableAgent
  PROVE  Restored(d) \in ScheduledAgent /\ Restored(d) # NoAgent /\ d # NoAgent
                                          /\ d # InvalidHistory
  BY SchedulerAssumption DEF Restored, DurableAgent, ScheduledAgent

(* A handoff stands for a terminal state. *)
LEMMA TerminalStates ==
  ASSUME NEW s \in HandoffStatuses
  PROVE  TerminalStateFor(s) \in Terminal
  BY DEF HandoffStatuses, TerminalStateFor, Terminal

(* An accepted runtime event leaves the operation in one of its states. *)
LEMMA OperationStepType ==
  ASSUME NEW k, NEW s, OperationStep(k, s) # "refused"
  PROVE  OperationStep(k, s) \in OperationStates
  BY DEF OperationStep, OperationStates

(* A ScheduledAgent is what its image restores when the two agree field by    *)
(* field.                                                                      *)
LEMMA SameFields ==
  ASSUME NEW m \in ScheduledAgent, NEW d \in DurableAgent,
         m.spec = d.spec, m.caps = d.caps, m.state = d.state, m.gen = d.gen,
         m.authorized = d.authorized, m.tip = d.tip, m.pending = d.pending,
         m.ops = d.ops
  PROVE  m = Restored(d)
<1>1. d # NoAgent
  BY RestoredType
<1>2. QED
  BY <1>1 DEF Restored, ScheduledAgent

(* What Synced says of the fields, and of the next event. *)
LEMMA SyncedFields ==
  ASSUME NEW p, Synced(p)
  PROVE  /\ p.m \in ScheduledAgent /\ p.d \in DurableAgent /\ Sound(p.d)
         /\ p.d # NoAgent /\ p.d # InvalidHistory
         /\ p.m.spec = p.d.spec /\ p.m.caps = p.d.caps /\ p.m.state = p.d.state
         /\ p.m.gen = p.d.gen /\ p.m.authorized = p.d.authorized
         /\ p.m.tip = p.d.tip /\ p.m.pending = p.d.pending /\ p.m.ops = p.d.ops
         /\ NextEvent(p.d.tip) \in EventIds
<1>1. p.d \in DurableAgent /\ Sound(p.d) /\ p.m = Restored(p.d)
  BY DEF Synced
<1>2. NextEvent(p.d.tip) \in EventIds
  BY <1>1, NextEventType DEF DurableAgent
<1>3. QED
  BY <1>1, <1>2, RestoredType DEF Restored

(* The image after a lifecycle event. *)
Moved(d, to, resume) ==
    [d EXCEPT !.state = to, !.tip = NextEvent(@),
              !.authorized = IF resume THEN FALSE ELSE @,
              !.evidence = IF to \in Terminal THEN d.pending ELSE @,
              !.pending = IF to \in Terminal THEN "none" ELSE @]

(* A lifecycle event that transition_internal lets pass is accepted by        *)
(* rehydrate, with the same effect.                                           *)
LEMMA LifecycleKeepsSync ==
  ASSUME NEW p, Synced(p), NEW to \in States, NEW resume \in BOOLEAN,
         \/ /\ ValidTransition(p.d.state, to)
            /\ resume = FALSE
            /\ \/ p.d.pending = "none" /\ to \notin Terminal
               \/ p.d.pending # "none" /\ to = TerminalStateFor(p.d.pending)
         \/ /\ p.d.authorized /\ to = "Queued" /\ resume = TRUE
  PROVE  /\ Synced(LifecycleStep(p, to, resume))
         /\ LifecycleStep(p, to, resume).d = Moved(p.d, to, resume)
<1> DEFINE q == LifecycleStep(p, to, resume)
           e == Lifecycle(to, p.d.tip)
<1>1. /\ p.d \in DurableAgent /\ Sound(p.d) /\ p.m \in ScheduledAgent
      /\ NextEvent(p.d.tip) \in EventIds
      /\ p.d # NoAgent /\ p.d # InvalidHistory
      /\ p.m.spec = p.d.spec /\ p.m.caps = p.d.caps /\ p.m.state = p.d.state
      /\ p.m.gen = p.d.gen /\ p.m.authorized = p.d.authorized
      /\ p.m.tip = p.d.tip /\ p.m.pending = p.d.pending /\ p.m.ops = p.d.ops
  BY SyncedFields
<1>2. e.kind = "lifecycle" /\ e.state = to /\ e.cause = p.d.tip
  BY DEF Lifecycle
<1>3. AcceptsLifecycle(p.d, e)
  BY <1>1, <1>2 DEF AcceptsLifecycle, Sound, ValidTransition, ReplayResumes, Terminal,
     Waiting, TerminalStateFor, DurableAgent, Handoffs, HandoffStatuses
<1>4. ReplayResumes(p.d, to) = resume
  BY <1>1 DEF ReplayResumes, Sound, ValidTransition, Terminal, DurableAgent
<1>5. q.d = Absorb(p.d, e)
  BY <1>1, <1>2, <1>3 DEF LifecycleStep, Replay, Accepts
<1>6. q.d = [p.d EXCEPT !.state = to, !.tip = NextEvent(@),
                        !.authorized = IF resume THEN FALSE ELSE @,
                        !.evidence = IF to \in Terminal THEN p.d.pending ELSE @,
                        !.pending = IF to \in Terminal THEN "none" ELSE @]
  BY <1>2, <1>4, <1>5 DEF Absorb
<1>7. q.m = [p.m EXCEPT !.state = to, !.tip = NextEvent(@),
                        !.pending = IF to \in Terminal THEN "none" ELSE @,
                        !.authorized = IF resume THEN FALSE ELSE @]
  BY DEF LifecycleStep
<1>8. q.d \in DurableAgent
  BY ZenonT(60), <1>1, <1>6 DEF DurableAgent, Handoffs
<1>9. q.m \in ScheduledAgent
  <2>1. q.m.tip = NextEvent(p.d.tip)
    BY <1>1, <1>7 DEF ScheduledAgent
  <2>2. QED
    BY <1>1, <1>7, <2>1 DEF ScheduledAgent, Handoffs
<1>10. Sound(q.d)
  <2>1. OpenOperations(q.d) = OpenOperations(p.d)
    BY <1>1, <1>6 DEF OpenOperations, DurableAgent
  <2>2. CASE to \in Terminal
    BY <1>1, <1>6, <2>1, <2>2 DEF Sound, DurableAgent, Terminal, ValidTransition, Waiting
  <2>3. CASE to \notin Terminal
    <3>1. p.d.pending = "none"
      BY <1>1, <2>3, TerminalStates DEF Sound, DurableAgent, Handoffs, Terminal
    <3>2. p.d.authorized => resume
      BY <1>1 DEF Sound, ValidTransition, Terminal, Waiting
    <3>3. q.d.pending = "none" /\ q.d.state = to /\ ~q.d.authorized
      BY <1>1, <1>6, <2>3, <3>1, <3>2 DEF DurableAgent
    <3>4. QED
      BY <1>1, <2>1, <2>3, <3>3 DEF Sound
  <2>4. QED
    BY <2>2, <2>3
<1>11. q.m = Restored(q.d)
  <2>1. /\ q.m.spec = q.d.spec /\ q.m.caps = q.d.caps /\ q.m.state = q.d.state
        /\ q.m.gen = q.d.gen /\ q.m.authorized = q.d.authorized
        /\ q.m.tip = q.d.tip /\ q.m.pending = q.d.pending /\ q.m.ops = q.d.ops
    BY <1>1, <1>6, <1>7 DEF DurableAgent, ScheduledAgent
  <2>2. QED
    BY <1>8, <1>9, <2>1, SameFields
<1>12. QED
  BY <1>6, <1>8, <1>10, <1>11 DEF Synced, Moved

(* So is the handoff of an agent that may still end and has no open operation. *)
LEMMA HandoffKeepsSync ==
  ASSUME NEW p, Synced(p), NEW status \in HandoffStatuses,
         p.d.pending = "none", OpenOperations(p.d) = {},
         ValidTransition(p.d.state, TerminalStateFor(status))
  PROVE  /\ Synced(HandoffStep(p, status))
         /\ HandoffStep(p, status).d =
              [p.d EXCEPT !.pending = status, !.tip = NextEvent(@)]
<1> DEFINE q == HandoffStep(p, status)
           e == Handoff(status, p.d.tip)
<1>1. /\ p.d \in DurableAgent /\ Sound(p.d) /\ p.m \in ScheduledAgent
      /\ NextEvent(p.d.tip) \in EventIds
      /\ p.d # NoAgent /\ p.d # InvalidHistory
      /\ p.m.spec = p.d.spec /\ p.m.caps = p.d.caps /\ p.m.state = p.d.state
      /\ p.m.gen = p.d.gen /\ p.m.authorized = p.d.authorized
      /\ p.m.tip = p.d.tip /\ p.m.pending = p.d.pending /\ p.m.ops = p.d.ops
  BY SyncedFields
<1>2. AcceptsHandoff(p.d, e)
  BY <1>1 DEF AcceptsHandoff, Handoff
<1>3. q.d = [p.d EXCEPT !.pending = status, !.tip = NextEvent(@)]
  BY <1>1, <1>2 DEF HandoffStep, Replay, Accepts, Absorb, Handoff
<1>4. q.m = [p.m EXCEPT !.pending = status, !.tip = NextEvent(@)]
  BY DEF HandoffStep
<1>5. q.d \in DurableAgent
  BY <1>1, <1>3 DEF DurableAgent, Handoffs
<1>6. q.m \in ScheduledAgent
  <2>1. q.m.tip = NextEvent(p.d.tip)
    BY <1>1, <1>4 DEF ScheduledAgent
  <2>2. QED
    BY <1>1, <1>4, <2>1 DEF ScheduledAgent, Handoffs
<1>7. Sound(q.d)
  <2>1. OpenOperations(q.d) = {}
    BY <1>1, <1>3 DEF OpenOperations, DurableAgent
  <2>2. q.d.state = p.d.state /\ q.d.pending = status /\ q.d.authorized = p.d.authorized
    BY <1>1, <1>3 DEF DurableAgent
  <2>3. q.d.state \notin Terminal
    BY <2>2 DEF ValidTransition, Terminal, Waiting
  <2>4. QED
    BY <1>1, <2>1, <2>2, <2>3 DEF Sound, Terminal
<1>8. q.m = Restored(q.d)
  <2>1. /\ q.m.spec = q.d.spec /\ q.m.caps = q.d.caps /\ q.m.state = q.d.state
        /\ q.m.gen = q.d.gen /\ q.m.authorized = q.d.authorized
        /\ q.m.tip = q.d.tip /\ q.m.pending = q.d.pending /\ q.m.ops = q.d.ops
    BY <1>1, <1>3, <1>4 DEF DurableAgent, ScheduledAgent
  <2>2. QED
    BY <1>5, <1>6, <2>1, SameFields
<1>9. QED
  BY <1>3, <1>5, <1>7, <1>8 DEF Synced

(* The image after a runtime event of an operation. *)
Recorded(d, k, op) ==
    [d EXCEPT !.ops[op] = OperationStep(k, @), !.tip = NextEvent(@)]

(* So is a runtime event that its operation allows, whatever else is open.     *)
LEMMA RuntimeKeepsSync ==
  ASSUME NEW p, Synced(p), NEW k, NEW op \in Operations,
         p.d.state \notin Terminal, p.d.pending = "none",
         OperationStep(k, p.d.ops[op]) # "refused"
  PROVE  /\ Synced(RuntimeStep(p, k, op))
         /\ RuntimeStep(p, k, op).d = Recorded(p.d, k, op)
<1> DEFINE q == RuntimeStep(p, k, op)
           e == Runtime(k, op, p.d.tip)
<1>1. /\ p.d \in DurableAgent /\ Sound(p.d) /\ p.m \in ScheduledAgent
      /\ NextEvent(p.d.tip) \in EventIds
      /\ p.d # NoAgent /\ p.d # InvalidHistory
      /\ p.m.spec = p.d.spec /\ p.m.caps = p.d.caps /\ p.m.state = p.d.state
      /\ p.m.gen = p.d.gen /\ p.m.authorized = p.d.authorized
      /\ p.m.tip = p.d.tip /\ p.m.pending = p.d.pending /\ p.m.ops = p.d.ops
  BY SyncedFields
<1>2. AcceptsRuntime(p.d, e)
  BY <1>1 DEF AcceptsRuntime, Runtime
<1>3. q.d = [p.d EXCEPT !.ops[op] = OperationStep(k, @), !.tip = NextEvent(@)]
  BY <1>1, <1>2 DEF RuntimeStep, Replay, Accepts, Absorb, Runtime
<1>4. q.m = [p.m EXCEPT !.ops[op] = OperationStep(k, @), !.tip = NextEvent(@)]
  BY DEF RuntimeStep
<1>5. q.d \in DurableAgent
  <2>1. q.d.tip = NextEvent(p.d.tip)
    BY <1>1, <1>3 DEF DurableAgent
  <2>2. p.d.ops \in [Operations -> OperationStates]
    BY <1>1 DEF DurableAgent
  <2>3. q.d.ops \in [Operations -> OperationStates]
    BY <1>1, <1>3, <2>2, OperationStepType DEF DurableAgent
  <2>4. QED
    BY <1>1, <1>3, <2>1, <2>3 DEF DurableAgent
<1>6. q.m \in ScheduledAgent
  <2>1. q.m.tip = NextEvent(p.d.tip)
    BY <1>1, <1>4 DEF ScheduledAgent
  <2>2. p.d.ops \in [Operations -> OperationStates]
    BY <1>1 DEF DurableAgent
  <2>3. q.m.ops \in [Operations -> OperationStates]
    BY <1>1, <1>4, <2>2, OperationStepType DEF ScheduledAgent
  <2>4. QED
    BY <1>1, <1>4, <2>1, <2>3 DEF ScheduledAgent
<1>7. Sound(q.d)
  <2>1. /\ q.d.state = p.d.state /\ q.d.pending = "none"
        /\ q.d.authorized = p.d.authorized
        /\ q.d.ops = [p.d.ops EXCEPT ![op] = OperationStep(k, @)]
    BY <1>1, <1>3 DEF DurableAgent
  <2>2. ~q.d.authorized
    BY <1>1, <2>1 DEF Sound, Terminal
  <2>3. QED
    BY <1>1, <2>1, <2>2 DEF Sound
<1>8. q.m = Restored(q.d)
  <2>1. /\ q.m.spec = q.d.spec /\ q.m.caps = q.d.caps /\ q.m.state = q.d.state
        /\ q.m.gen = q.d.gen /\ q.m.authorized = q.d.authorized
        /\ q.m.tip = q.d.tip /\ q.m.pending = q.d.pending /\ q.m.ops = q.d.ops
    BY <1>1, <1>3, <1>4 DEF DurableAgent, ScheduledAgent
  <2>2. QED
    BY <1>5, <1>6, <2>1, SameFields
<1>9. QED
  BY <1>3, <1>5, <1>7, <1>8 DEF Synced, Recorded

(* So is a trace event that carries no operation. *)
LEMMA ProgressKeepsSync ==
  ASSUME NEW p, Synced(p), p.d.state \notin Terminal
  PROVE  /\ Synced(ProgressStep(p))
         /\ ProgressStep(p).d =
              [p.d EXCEPT !.tip = NextEvent(@)]
<1> DEFINE q == ProgressStep(p)
           e == Progress(p.d.tip)
<1>1. /\ p.d \in DurableAgent /\ Sound(p.d) /\ p.m \in ScheduledAgent
      /\ NextEvent(p.d.tip) \in EventIds
      /\ p.d # NoAgent /\ p.d # InvalidHistory
      /\ p.m.spec = p.d.spec /\ p.m.caps = p.d.caps /\ p.m.state = p.d.state
      /\ p.m.gen = p.d.gen /\ p.m.authorized = p.d.authorized
      /\ p.m.tip = p.d.tip /\ p.m.pending = p.d.pending /\ p.m.ops = p.d.ops
  BY SyncedFields
<1>2. AcceptsRuntime(p.d, e)
  BY <1>1 DEF AcceptsRuntime, Progress
<1>3. q.d = [p.d EXCEPT !.tip = NextEvent(@)]
  BY <1>1, <1>2 DEF ProgressStep, Replay, Accepts, Absorb, Progress
<1>4. q.m = [p.m EXCEPT !.tip = NextEvent(@)]
  BY DEF ProgressStep
<1>5. q.d \in DurableAgent
  BY <1>1, <1>3 DEF DurableAgent, Handoffs
<1>6. q.m \in ScheduledAgent
  BY <1>1, <1>4 DEF ScheduledAgent, Handoffs
<1>7. Sound(q.d)
  <2>1. OpenOperations(q.d) = OpenOperations(p.d)
    BY <1>1, <1>3 DEF OpenOperations, DurableAgent
  <2>2. QED
    BY <1>1, <1>3, <2>1 DEF Sound, DurableAgent
<1>8. q.m = Restored(q.d)
  <2>1. /\ q.m.spec = q.d.spec /\ q.m.caps = q.d.caps /\ q.m.state = q.d.state
        /\ q.m.gen = q.d.gen /\ q.m.authorized = q.d.authorized
        /\ q.m.tip = q.d.tip /\ q.m.pending = q.d.pending /\ q.m.ops = q.d.ops
    BY <1>1, <1>3, <1>4 DEF DurableAgent, ScheduledAgent
  <2>2. QED
    BY <1>5, <1>6, <2>1, SameFields
<1>9. QED
  BY <1>3, <1>5, <1>7, <1>8 DEF Synced

(* So is the authorization of a follow-up of a settled agent. *)
LEMMA FollowupKeepsSync ==
  ASSUME NEW p, Synced(p), NEW caps \in SUBSET Capabilities,
         p.d.state \in {"Completed", "Interrupted"}, ~p.d.authorized,
         caps # {}, caps \subseteq p.d.caps
  PROVE  /\ Synced(FollowupStep(p, caps))
         /\ FollowupStep(p, caps).d =
              [p.d EXCEPT !.caps = caps, !.gen = @ + 1, !.authorized = TRUE,
                          !.tip = NextEvent(@)]
<1> DEFINE q == FollowupStep(p, caps)
           e == Followup(p.d.gen + 1, caps, p.d.tip)
<1>1. /\ p.d \in DurableAgent /\ Sound(p.d) /\ p.m \in ScheduledAgent
      /\ NextEvent(p.d.tip) \in EventIds
      /\ p.d # NoAgent /\ p.d # InvalidHistory
      /\ p.m.spec = p.d.spec /\ p.m.caps = p.d.caps /\ p.m.state = p.d.state
      /\ p.m.gen = p.d.gen /\ p.m.authorized = p.d.authorized
      /\ p.m.tip = p.d.tip /\ p.m.pending = p.d.pending /\ p.m.ops = p.d.ops
  BY SyncedFields
<1>2. AcceptsFollowup(p.d, e)
  BY <1>1 DEF AcceptsFollowup, Followup, Sound, Terminal
<1>3. q.d = [p.d EXCEPT !.caps = caps, !.gen = @ + 1, !.authorized = TRUE,
                          !.tip = NextEvent(@)]
  BY <1>1, <1>2 DEF FollowupStep, Replay, Accepts, Absorb, Followup
<1>4. q.m = [p.m EXCEPT !.caps = caps, !.gen = @ + 1, !.authorized = TRUE,
                        !.tip = NextEvent(@)]
  BY DEF FollowupStep
<1>5. q.d \in DurableAgent
  <2>1. q.d.tip = NextEvent(p.d.tip) /\ q.d.gen = p.d.gen + 1
    BY <1>1, <1>3 DEF DurableAgent
  <2>2. p.d.gen + 1 \in Nat
    BY <1>1 DEF DurableAgent
  <2>3. QED
    BY <1>1, <1>3, <2>1, <2>2 DEF DurableAgent
<1>6. q.m \in ScheduledAgent
  <2>1. q.m.tip = NextEvent(p.d.tip) /\ q.m.gen = p.d.gen + 1
    BY <1>1, <1>4 DEF ScheduledAgent
  <2>2. p.d.gen + 1 \in Nat
    BY <1>1 DEF DurableAgent
  <2>3. QED
    BY <1>1, <1>4, <2>1, <2>2 DEF ScheduledAgent
<1>7. Sound(q.d)
  <2>1. OpenOperations(q.d) = OpenOperations(p.d)
    BY <1>1, <1>3 DEF OpenOperations, DurableAgent
  <2>2. QED
    BY <1>1, <1>3, <2>1 DEF Sound, DurableAgent
<1>8. q.m = Restored(q.d)
  <2>1. /\ q.m.spec = q.d.spec /\ q.m.caps = q.d.caps /\ q.m.state = q.d.state
        /\ q.m.gen = q.d.gen /\ q.m.authorized = q.d.authorized
        /\ q.m.tip = q.d.tip /\ q.m.pending = q.d.pending /\ q.m.ops = q.d.ops
    BY <1>1, <1>3, <1>4 DEF DurableAgent, ScheduledAgent
  <2>2. QED
    BY <1>5, <1>6, <2>1, SameFields
<1>9. QED
  BY <1>3, <1>5, <1>7, <1>8 DEF Synced

-----------------------------------------------------------------------------
(* Whole operations: every stage one may stop at is synced, and is a step the  *)
(* durable image d may take.                                                   *)

(* A durable handoff decides the turn ... *)
HandoffDecides(d, e) ==
    d.pending # "none" =>
        \/ e = d
        \/ e.pending = "none" /\ e.evidence = d.pending
                             /\ e.state = TerminalStateFor(d.pending)

(* ... and a settled turn is followed by another only through a follow-up. *)
Reopens(d, e) ==
    d.state \in Terminal =>
        \/ e = d
        \/ /\ d.state \in {"Completed", "Interrupted"} /\ ~d.authorized
           /\ e.gen = d.gen + 1 /\ e.caps \subseteq d.caps
        \/ d.authorized /\ e.state = "Queued" /\ e.gen = d.gen

(* As turns: the turn reports, settles, reopens or resumes, or nothing of it   *)
(* changes.                                                                    *)
Turn(d) == <<TurnNumber(d), TurnStatus(d), TurnResult(d)>>

TurnMoves(d, e) ==
    \/ Turn(e) = Turn(d)
    \/ \E r \in HandoffStatuses :
          \/ /\ Turn(d) = <<d.gen, "open", "none">>
             /\ Turn(e) \in {<<d.gen, "reported", r>>, <<d.gen, "settled", r>>}
          \/ /\ Turn(d) = <<d.gen, "reported", r>>
             /\ Turn(e) = <<d.gen, "settled", r>>
          \/ /\ r # "failed" /\ Turn(d) = <<d.gen, "settled", r>>
             /\ Turn(e) \in {<<d.gen + 1, "reopening", "none">>, <<d.gen + 1, "open", "none">>}
    \/ /\ Turn(d) = <<d.gen, "reopening", "none">>
       /\ Turn(e) = <<d.gen, "open", "none">>

Advances(d, e) == HandoffDecides(d, e) /\ Reopens(d, e) /\ TurnMoves(d, e)

Legal(s, d) ==
    /\ Len(s) \in Nat \ {0}
    /\ \A i \in 1..Len(s) : Synced(s[i]) /\ Advances(d, s[i].d)

(* What the turn of a sound image is ... *)
LEMMA TurnOfImage ==
  ASSUME NEW d \in DurableAgent, Sound(d)
  PROVE  /\ d.state \notin Terminal /\ d.pending = "none" => Turn(d) = <<d.gen, "open", "none">>
         /\ d.state \notin Terminal /\ d.pending # "none" =>
               Turn(d) = <<d.gen, "reported", d.pending>>
         /\ d.state \in Terminal /\ ~d.authorized => Turn(d) = <<d.gen, "settled", d.evidence>>
         /\ d.authorized => Turn(d) = <<d.gen, "reopening", "none">>
<1>1. Placed(d)
  BY RestoredType DEF Placed
<1>2. d.authorized => d.state \in Terminal
  BY DEF Sound, Terminal
<1>3. QED
  BY <1>1, <1>2 DEF Sound, Turn, TurnNumber, TurnStatus, TurnResult, Settled

(* ... and how an append changes it: an open turn stays open or reports, ... *)
LEMMA OpenAdvances ==
  ASSUME NEW d \in DurableAgent, NEW e \in DurableAgent, Sound(d), Sound(e),
         d.state \notin Terminal, e.state \notin Terminal, e.gen = d.gen,
         d.pending = "none" \/ e = d
  PROVE  Advances(d, e)
<1>1. CASE e = d
  BY <1>1 DEF Advances, HandoffDecides, Reopens, TurnMoves
<1>2. CASE d.pending = "none"
  <2>1. HandoffDecides(d, e) /\ Reopens(d, e)
    BY <1>2 DEF HandoffDecides, Reopens
  <2>2. e.pending # "none" => e.pending \in HandoffStatuses
    BY DEF DurableAgent, Handoffs
  <2>3. TurnMoves(d, e)
    BY <1>2, <2>2, TurnOfImage DEF TurnMoves
  <2>4. QED
    BY <2>1, <2>3 DEF Advances
<1>3. QED
  BY <1>1, <1>2

(* ... or settles, as reported if it was, ... *)
LEMMA SettleAdvances ==
  ASSUME NEW d \in DurableAgent, NEW e \in DurableAgent, Sound(d), Sound(e),
         d.state \notin Terminal, e.state \in Terminal, ~e.authorized, e.gen = d.gen,
         d.pending # "none" => e.evidence = d.pending
  PROVE  Advances(d, e)
<1>1. HandoffDecides(d, e) /\ Reopens(d, e)
  BY DEF HandoffDecides, Reopens, Sound
<1>2. e.evidence \in HandoffStatuses
  BY DEF Sound, DurableAgent, Handoffs
<1>3. TurnMoves(d, e)
  BY <1>2, TurnOfImage DEF TurnMoves
<1>4. QED
  BY <1>1, <1>3 DEF Advances

(* ... and a settled turn that did not fail is reopened, at once or later.     *)
LEMMA ReopenAdvances ==
  ASSUME NEW d \in DurableAgent, NEW e \in DurableAgent, Sound(d), Sound(e),
         d.state \in {"Completed", "Interrupted"}, ~d.authorized,
         e.gen = d.gen + 1, e.caps \subseteq d.caps,
         e.authorized \/ (e.state \notin Terminal /\ e.pending = "none")
  PROVE  Advances(d, e)
<1>1. HandoffDecides(d, e) /\ Reopens(d, e)
  BY DEF HandoffDecides, Reopens, Sound, Terminal
<1>2. d.evidence \in HandoffStatuses /\ d.evidence # "failed"
  BY DEF Sound, DurableAgent, Handoffs, Terminal, TerminalStateFor
<1>3. TurnMoves(d, e)
  BY <1>2, TurnOfImage DEF TurnMoves, Terminal
<1>4. QED
  BY <1>1, <1>3 DEF Advances

(* ... and a reopened turn resumes. *)
LEMMA ResumeAdvances ==
  ASSUME NEW d \in DurableAgent, NEW e \in DurableAgent, Sound(d), Sound(e),
         d.authorized, e.gen = d.gen, e.state = "Queued", e.pending = "none"
  PROVE  Advances(d, e)
<1>1. HandoffDecides(d, e) /\ Reopens(d, e)
  BY DEF HandoffDecides, Reopens, Sound, Terminal
<1>2. TurnMoves(d, e)
  BY TurnOfImage DEF TurnMoves, Terminal
<1>3. QED
  BY <1>1, <1>2 DEF Advances

(* An agent that memory knows is synced. *)
LEMMA NowSynced ==
  ASSUME NEW a \in Agents, AgentInv(a), Known(a)
  PROVE  Synced(Now(a)) /\ Now(a).d = disk[a] /\ Now(a).m = mem[a]
                         /\ mem[a].state = disk[a].state /\ mem[a].gen = disk[a].gen
                         /\ mem[a].caps = disk[a].caps /\ mem[a].ops = disk[a].ops
                         /\ mem[a].authorized = disk[a].authorized
                         /\ mem[a].pending = disk[a].pending
<1>1. disk[a] \in DurableAgent /\ Sound(disk[a]) /\ mem[a] = Restored(disk[a])
  BY DEF AgentInv
<1>2. disk[a] # NoAgent
  BY <1>1, RestoredType
<1>3. QED
  BY <1>1, <1>2 DEF Synced, Now, Restored

(* finish_with_handoff, after either of its appends. *)
LEMMA FinishStagesLegal ==
  ASSUME NEW p, Synced(p), NEW status \in HandoffStatuses,
         p.d.pending = "none", OpenOperations(p.d) = {},
         ValidTransition(p.d.state, TerminalStateFor(status))
  PROVE  /\ Legal(FinishStages(p, status), p.d)
         /\ Len(FinishStages(p, status)) = 3
         /\ FinishStages(p, status)[3].m.state \in Terminal
         /\ FinishStages(p, status)[3].m.pending = "none"
         /\ ~FinishStages(p, status)[3].m.authorized
<1> DEFINE h == HandoffStep(p, status)
           t == LifecycleStep(h, TerminalStateFor(status), FALSE)
<1>1. /\ p.d \in DurableAgent /\ Sound(p.d) /\ p.d.state \notin Terminal
      /\ ~p.d.authorized
  BY DEF Synced, Sound, ValidTransition, Terminal, Waiting
<1>2. Synced(h) /\ h.d = [p.d EXCEPT !.pending = status, !.tip = NextEvent(@)]
  BY HandoffKeepsSync
<1>3. /\ h.d.state = p.d.state /\ h.d.pending = status
      /\ h.d.pending # "none" /\ h.d.gen = p.d.gen /\ ~h.d.authorized
  BY <1>1, <1>2 DEF DurableAgent, HandoffStatuses
<1>4. TerminalStateFor(status) \in States
  BY TerminalStates DEF States
<1>5. /\ Synced(t) /\ t.d.state \in Terminal /\ t.d.gen = p.d.gen
      /\ ~t.d.authorized /\ t.d.evidence = status
  <2>1. Synced(t) /\ t.d = Moved(h.d, TerminalStateFor(status), FALSE)
    BY <1>2, <1>3, <1>4, LifecycleKeepsSync
  <2>2. h.d \in DurableAgent
    BY <1>2 DEF Synced
  <2>3. QED
    BY <1>3, <2>1, <2>2, TerminalStates DEF Moved, DurableAgent
<1>6. Advances(p.d, p.d) /\ Advances(p.d, h.d) /\ Advances(p.d, t.d)
  <2>1. h.d \in DurableAgent /\ Sound(h.d) /\ t.d \in DurableAgent /\ Sound(t.d)
    BY <1>2, <1>5 DEF Synced
  <2>2. QED
    BY <1>1, <1>3, <1>5, <2>1, OpenAdvances, SettleAdvances
<1>7. FinishStages(p, status) = <<p, h, t>>
  BY DEF FinishStages
<1>8. t.m.state \in Terminal /\ t.m.pending = "none" /\ ~t.m.authorized
  BY <1>5, SyncedFields DEF Sound
<1> HIDE DEF h, t
<1>9. \A i \in 1..3 : <<p, h, t>>[i] \in {p, h, t}
  OBVIOUS
<1>10. Legal(<<p, h, t>>, p.d)
  BY <1>2, <1>5, <1>6, <1>9 DEF Legal
<1>11. QED
  BY <1>7, <1>8, <1>10

(* A stage that leaves the durable image as it was is no step at all. *)
LEMMA StayAdvances == ASSUME NEW d PROVE Advances(d, d)
  BY DEF Advances, HandoffDecides, Reopens, TurnMoves

(* An operation that is open can be closed. *)
LEMMA CloseStagesLegal ==
  ASSUME NEW p, Synced(p), p.d.state \notin Terminal, p.d.pending = "none",
         NEW op \in OpenOperations(p.m)
  PROVE  /\ Legal(CloseStages(p, op), p.d)
         /\ Len(CloseStages(p, op)) = 2
         /\ LET n == CloseStages(p, op)[2].m
            IN /\ n.spec = p.m.spec /\ n.state = p.m.state /\ n.pending = "none"
               /\ n.authorized = p.m.authorized
               /\ OpenOperations(n) = OpenOperations(p.m) \ {op}
<1> DEFINE k == IF p.m.ops[op] = "started" THEN "unknown_after_crash" ELSE "failed"
           q == RuntimeStep(p, k, op)
<1>1. /\ p.d \in DurableAgent /\ Sound(p.d) /\ p.m.ops = p.d.ops
      /\ p.m \in ScheduledAgent /\ p.m.pending = "none" /\ op \in Operations
  BY SyncedFields DEF OpenOperations
<1>2. OperationStep(k, p.d.ops[op]) = "terminal"
  BY <1>1 DEF OperationStep, OpenOperations, IsOpen
<1>3. CloseStages(p, op) = <<p, q>>
  BY DEF CloseStages
<1> HIDE DEF k
<1>4. Synced(q) /\ q.d = Recorded(p.d, k, op)
  BY <1>1, <1>2, RuntimeKeepsSync
<1>5. /\ q.d.state = p.d.state /\ q.d.gen = p.d.gen /\ q.d \in DurableAgent /\ Sound(q.d)
  BY <1>1, <1>4 DEF DurableAgent, Recorded, Synced
<1>6. Advances(p.d, q.d)
  BY <1>1, <1>5, OpenAdvances
<1>7. /\ q.m.spec = p.m.spec /\ q.m.state = p.m.state /\ q.m.pending = "none"
      /\ q.m.authorized = p.m.authorized
      /\ q.m.ops = [p.m.ops EXCEPT ![op] = "terminal"]
  BY <1>1, <1>2 DEF RuntimeStep, ScheduledAgent
<1>8. OpenOperations(q.m) = OpenOperations(p.m) \ {op}
  <2>1. p.m.ops \in [Operations -> OperationStates]
    BY <1>1 DEF ScheduledAgent
  <2>2. QED
    BY <1>1, <1>7, <2>1 DEF OpenOperations, IsOpen
<1> HIDE DEF q
<1>9. \A i \in 1..2 : <<p, q>>[i] \in {p, q}
  OBVIOUS
<1>10. Legal(<<p, q>>, p.d)
  BY <1>4, <1>6, <1>9, StayAdvances DEF Legal
<1>11. QED
  BY <1>3, <1>7, <1>8, <1>10

(* The turn ends as the handoff says that is durable already. *)
LEMMA ResumedHandoffLegal ==
  ASSUME NEW p, Synced(p), p.d.pending # "none"
  PROVE  /\ Legal(ResumeStages(p), p.d)
         /\ Len(ResumeStages(p)) = 2
         /\ ResumeStages(p)[2].m.state \in Terminal
         /\ ResumeStages(p)[2].m.pending = "none" /\ ~ResumeStages(p)[2].m.authorized
<1> DEFINE to == TerminalStateFor(p.d.pending)
           q == LifecycleStep(p, to, FALSE)
<1>1. p.d \in DurableAgent /\ Sound(p.d)
  BY DEF Synced
<1>2. to \in Terminal /\ to \in States
  BY <1>1, TerminalStates DEF DurableAgent, Handoffs, States
<1>3. /\ ValidTransition(p.d.state, to) /\ p.d.state \notin Terminal
      /\ ~p.d.authorized
  BY <1>1 DEF Sound, Terminal
<1>4. /\ Synced(q) /\ q.d.state = to /\ q.d.evidence = p.d.pending
      /\ q.d.gen = p.d.gen /\ ~q.d.authorized
  <2>1. Synced(q) /\ q.d = Moved(p.d, to, FALSE)
    BY <1>2, <1>3, LifecycleKeepsSync
  <2>2. QED
    BY <1>1, <1>2, <1>3, <2>1 DEF Moved, DurableAgent
<1>5. q.d \in DurableAgent /\ Sound(q.d)
  BY <1>4 DEF Synced
<1>6. Advances(p.d, q.d)
  BY <1>1, <1>2, <1>3, <1>4, <1>5, SettleAdvances
<1> HIDE DEF q
<1>7. \A i \in 1..2 : <<p, q>>[i] \in {p, q}
  OBVIOUS
<1>8. Legal(<<p, q>>, p.d)
  BY <1>4, <1>6, <1>7, StayAdvances DEF Legal
<1>9. q.m.state \in Terminal /\ q.m.pending = "none" /\ ~q.m.authorized
  BY <1>2, <1>4, <1>5, SyncedFields DEF Sound
<1>10. ResumeStages(p) = <<p, q>>
  <2>1. p.m.pending = p.d.pending
    BY SyncedFields
  <2>2. QED
    BY <2>1 DEF ResumeStages, q
<1>11. QED
  BY <1>8, <1>9, <1>10

(* An authorized follow-up goes back to the queue. *)
LEMMA RequeueSynced ==
  ASSUME NEW p, Synced(p), p.d.authorized
  PROVE  LET q == LifecycleStep(p, "Queued", TRUE)
         IN /\ Synced(q) /\ q.d.state = "Queued" /\ q.d.gen = p.d.gen
            /\ q.d.caps = p.d.caps /\ q.d.pending = "none" /\ ~q.d.authorized
<1>1. "Queued" \in States /\ "Queued" \notin Terminal /\ p.d.pending = "none"
  BY DEF States, Terminal, Synced, Sound
<1> DEFINE q == LifecycleStep(p, "Queued", TRUE)
<1>2. Synced(q) /\ q.d = Moved(p.d, "Queued", TRUE)
  BY <1>1, LifecycleKeepsSync
<1>3. p.d \in DurableAgent
  BY DEF Synced
<1> HIDE DEF q
<1>4. /\ q.d.state = "Queued" /\ q.d.gen = p.d.gen /\ q.d.caps = p.d.caps
      /\ q.d.pending = "none" /\ q.d.authorized = FALSE
  BY <1>1, <1>2, <1>3 DEF Moved, DurableAgent
<1>5. QED
  BY <1>2, <1>4 DEF q

(* rehydrate's repair of a follow-up that never reached the queue. *)
LEMMA RequeueLegal ==
  ASSUME NEW p, Synced(p), p.d.authorized
  PROVE  Legal(<<p, LifecycleStep(p, "Queued", TRUE)>>, p.d)
<1> DEFINE q == LifecycleStep(p, "Queued", TRUE)
<1>1. Synced(q) /\ q.d.state = "Queued" /\ q.d.gen = p.d.gen /\ q.d.pending = "none"
  BY RequeueSynced
<1>2. p.d \in DurableAgent /\ Sound(p.d) /\ q.d \in DurableAgent /\ Sound(q.d)
  BY <1>1 DEF Synced
<1>3. Advances(p.d, q.d)
  BY <1>1, <1>2, ResumeAdvances
<1> HIDE DEF q
<1>4. \A i \in 1..2 : <<p, q>>[i] \in {p, q}
  OBVIOUS
<1>5. Legal(<<p, q>>, p.d)
  BY <1>1, <1>3, <1>4, StayAdvances DEF Legal
<1>6. QED
  BY <1>5 DEF q

(* begin_followup, after either of its appends. *)
LEMMA FollowupStagesLegal ==
  ASSUME NEW p, Synced(p), NEW caps \in SUBSET Capabilities,
         p.d.state \in {"Completed", "Interrupted"}, ~p.d.authorized,
         caps # {}, caps \subseteq p.d.caps
  PROVE  Legal(FollowupStages(p, caps), p.d)
<1> DEFINE f == FollowupStep(p, caps)
           q == LifecycleStep(f, "Queued", TRUE)
<1>1. p.d \in DurableAgent /\ p.d.pending = "none" /\ p.d.state \in Terminal
  BY DEF Synced, Sound, Terminal
<1>2. /\ Synced(f)
      /\ f.d = [p.d EXCEPT !.caps = caps, !.gen = @ + 1, !.authorized = TRUE,
                            !.tip = NextEvent(@)]
  BY FollowupKeepsSync
<1>3. f.d.authorized /\ f.d.gen = p.d.gen + 1 /\ f.d.caps = caps
  BY <1>1, <1>2 DEF DurableAgent
<1>4. /\ Synced(q) /\ q.d.gen = p.d.gen + 1 /\ q.d.caps = caps
      /\ q.d.state \notin Terminal /\ q.d.pending = "none"
  BY <1>2, <1>3, RequeueSynced DEF Terminal
<1>5. Advances(p.d, f.d) /\ Advances(p.d, q.d)
  <2>1. /\ Sound(p.d) /\ f.d \in DurableAgent /\ Sound(f.d)
        /\ q.d \in DurableAgent /\ Sound(q.d)
    BY <1>2, <1>4 DEF Synced
  <2>2. QED
    BY <1>1, <1>3, <1>4, <2>1, ReopenAdvances
<1>6. FollowupStages(p, caps) = <<p, f, q>>
  BY DEF FollowupStages
<1> HIDE DEF f, q
<1>7. \A i \in 1..3 : <<p, f, q>>[i] \in {p, f, q}
  OBVIOUS
<1>8. QED
  BY <1>2, <1>4, <1>5, <1>6, <1>7, StayAdvances DEF Legal

-----------------------------------------------------------------------------
(* Operations applied to the state. *)

DiskAdvances ==
    \A a \in Agents :
        IF disk[a] = NoAgent THEN disk'[a] = NoAgent \/ Turn(disk'[a]) = <<0, "open", "none">>
        ELSE disk'[a] # NoAgent /\ Advances(disk[a], disk'[a])

(* A legal change of one agent that memory knows keeps the invariant ... *)
LEMMA ApplyKeepsInv ==
  ASSUME StoreInv, NEW a \in Agents, NEW p, Synced(p), Apply(a, p),
         Known(a), Advances(disk[a], p.d),
         phase # "down", UNCHANGED <<catalog, phase>>, faults' \in 0..MaxFaults,
         todo' \subseteq Agents, ending' \in Endings \cup {NoAgent}
  PROVE  StoreInv' /\ DiskAdvances
<1>1. /\ p.d \in DurableAgent /\ Sound(p.d) /\ p.m = Restored(p.d)
      /\ p.m \in ScheduledAgent /\ p.d # NoAgent /\ p.m # NoAgent
  BY SyncedFields, RestoredType DEF Synced
<1>2. /\ mem' = [mem EXCEPT ![a] = p.m] /\ disk' = [disk EXCEPT ![a] = p.d]
      /\ lease' = ReleaseLease(a, p.m)
  BY DEF Apply
<1>3. TypeOK'
  <2>1. p.m.spec.workspace \in Workspaces
    BY <1>1 DEF ScheduledAgent, Specs
  <2>2. lease' \in [Workspaces -> Agents \cup {NoAgent}]
    BY <1>2, <2>1 DEF StoreInv, TypeOK, ReleaseLease
  <2>3. mem' \in [Agents -> ScheduledAgent \cup {NoAgent}]
    BY <1>1, <1>2 DEF StoreInv, TypeOK
  <2>4. disk' \in [Agents -> DurableAgent \cup {NoAgent, InvalidHistory}]
    BY <1>1, <1>2 DEF StoreInv, TypeOK
  <2>5. QED
    BY <2>2, <2>3, <2>4 DEF StoreInv, TypeOK
<1>4. mem'[a] = p.m /\ disk'[a] = p.d
  BY <1>2 DEF StoreInv, TypeOK
<1>5. \A b \in Agents : b # a => mem'[b] = mem[b] /\ disk'[b] = disk[b]
  BY <1>2 DEF StoreInv, TypeOK
<1>6. AgentInv(a)'
  BY <1>1, <1>4 DEF AgentInv, Known
<1>7. ASSUME NEW b \in Agents, b # a PROVE AgentInv(b)'
  BY <1>5, <1>7 DEF StoreInv, AgentInv, Known
<1>8. DiskAdvances
  <2>1. disk[a] # NoAgent
    BY DEF StoreInv, AgentInv
  <2>2. QED
    BY <1>1, <1>4, <1>5, <2>1, StayAdvances DEF DiskAdvances
<1>9. QED
  BY <1>3, <1>6, <1>7, <1>8 DEF StoreInv

(* ... as does a counted failure, ... *)
LEMMA FaultType == ASSUME StoreInv, Fault PROVE faults' \in 0..MaxFaults
  BY SchedulerAssumption DEF StoreInv, TypeOK, Fault

(* ... a scheduler that is dropped after an append, ... *)
LEMMA DropKeepsInv ==
  ASSUME StoreInv, Drop, ending' = NoAgent, catalog' = catalog, faults' \in 0..MaxFaults,
         NEW a \in Agents, NEW d \in DurableAgent, Sound(d),
         Known(a), Advances(disk[a], d),
         disk' = [disk EXCEPT ![a] = d]
  PROVE  StoreInv' /\ DiskAdvances
<1>1. disk'[a] = d /\ \A b \in Agents : b # a => disk'[b] = disk[b]
  BY DEF StoreInv, TypeOK
<1>2. TypeOK'
  BY DEF StoreInv, TypeOK, Drop
<1>3. ASSUME NEW b \in Agents PROVE AgentInv(b)'
  <2>1. mem'[b] = NoAgent
    BY DEF Drop
  <2>2. disk'[b] \in DurableAgent \cup {NoAgent}
    BY <1>1 DEF StoreInv, AgentInv
  <2>3. disk'[b] # NoAgent => Sound(disk'[b])
    BY <1>1 DEF StoreInv, AgentInv
  <2>4. phase' = "down"
    BY DEF Drop
  <2>5. QED
    BY <2>1, <2>2, <2>3, <2>4 DEF AgentInv, Known
<1>4. DiskAdvances
  <2>1. disk[a] # NoAgent /\ d # NoAgent
    BY RestoredType DEF StoreInv, AgentInv
  <2>2. QED
    BY <1>1, <2>1, StayAdvances DEF DiskAdvances
<1>5. QED
  BY <1>2, <1>3, <1>4 DEF StoreInv

(* ... and so a whole attempt, cut off or not. *)
LEMMA AttemptKeepsInv ==
  ASSUME StoreInv, NEW a \in Agents, NEW s, Legal(s, disk[a]), Attempt(a, s), Known(a),
         phase # "down", catalog' = catalog, ending' \in Endings \cup {NoAgent},
         faults' # faults => ending' = NoAgent
  PROVE  StoreInv' /\ DiskAdvances
<1>1. CASE /\ Apply(a, s[Len(s)]) /\ todo' = todo \ {a} /\ UNCHANGED <<phase, faults>>
  <2>1. Synced(s[Len(s)]) /\ Advances(disk[a], s[Len(s)].d)
    BY DEF Legal
  <2>2. todo' \subseteq Agents /\ faults' \in 0..MaxFaults
    BY <1>1 DEF StoreInv, TypeOK
  <2>3. QED
    BY <1>1, <2>1, <2>2, ApplyKeepsInv
<1>2. ASSUME NEW i \in 1..(Len(s) - 1), Fault,
             IF phase = "up"
             THEN Apply(a, s[i]) /\ UNCHANGED <<phase, todo>>
             ELSE disk' = [disk EXCEPT ![a] = s[i].d] /\ Drop
      PROVE  StoreInv' /\ DiskAdvances
  <2>1. Synced(s[i]) /\ Advances(disk[a], s[i].d)
    BY <1>2 DEF Legal
  <2>2. s[i].d \in DurableAgent /\ Sound(s[i].d)
    BY <2>1 DEF Synced
  <2>3. faults' \in 0..MaxFaults /\ todo \subseteq Agents /\ ending' = NoAgent
    BY <1>2, FaultType DEF StoreInv, TypeOK, Fault
  <2>4. CASE phase = "up"
    BY <1>2, <2>1, <2>3, <2>4, ApplyKeepsInv
  <2>5. CASE phase # "up"
    BY <1>2, <2>1, <2>2, <2>3, <2>5, DropKeepsInv
  <2>6. QED
    BY <2>4, <2>5
<1>3. QED
  BY <1>1, <1>2 DEF Attempt

(* What an attempt changes besides: it succeeds with its last stage, stops at  *)
(* an earlier one, or leaves no scheduler behind.                              *)
LEMMA AttemptMoves ==
  ASSUME TypeOK, NEW a \in Agents, NEW s, Len(s) \in Nat \ {0}, Attempt(a, s),
         phase = "up" => todo = {}
  PROVE  \/ phase # "up" /\ Drop /\ faults' # faults
         \/ /\ phase' = phase /\ todo' = todo \ {a}
            /\ \A b \in Agents : b # a => mem'[b] = mem[b]
            /\ \/ faults' = faults /\ mem'[a] = s[Len(s)].m
               \/ phase = "up" /\ faults' # faults
<1>1. CASE Apply(a, s[Len(s)]) /\ todo' = todo \ {a} /\ UNCHANGED <<phase, faults>>
  BY <1>1 DEF Apply, TypeOK
<1>2. ASSUME NEW i \in 1..(Len(s) - 1), Fault,
             IF phase = "up"
             THEN Apply(a, s[i]) /\ UNCHANGED <<phase, todo>>
             ELSE disk' = [disk EXCEPT ![a] = s[i].d] /\ Drop
      PROVE  \/ phase # "up" /\ Drop /\ faults' # faults
             \/ /\ phase' = phase /\ todo' = todo \ {a}
                /\ \A b \in Agents : b # a => mem'[b] = mem[b]
                /\ phase = "up" /\ faults' # faults
  <2>1. faults' # faults
    BY <1>2 DEF Fault, TypeOK
  <2>2. CASE phase = "up"
    BY <1>2, <2>1, <2>2 DEF Apply, TypeOK
  <2>3. CASE phase # "up"
    BY <1>2, <2>1, <2>3
  <2>4. QED
    BY <2>2, <2>3
<1>3. QED
  BY <1>1, <1>2 DEF Attempt

-----------------------------------------------------------------------------
(* One lemma per action. *)

(* The Created event starts an image that is sound, ... *)
LEMMA CreatedSynced ==
  ASSUME NEW spec \in Specs, NEW caps \in SUBSET Capabilities,
         ~(CanWrite(caps) /\ spec.strategy = "read_only")
  PROVE  LET d == Replay(NoAgent, Created(spec, caps))
             p == [m |-> Restored(d), d |-> d]
         IN Synced(p) /\ p.m = Restored(d) /\ p.d = d
               /\ d = [spec |-> spec, caps |-> caps, state |-> "Created", gen |-> 0,
                       authorized |-> FALSE, tip |-> FirstEvent, pending |-> "none",
                       ops |-> [o \in Operations |-> "absent"], evidence |-> "none"]
<1> DEFINE d == Replay(NoAgent, Created(spec, caps))
<1>1. AcceptsCreated(NoAgent, Created(spec, caps))
  BY DEF AcceptsCreated, Created
<1>2. d = [spec |-> spec, caps |-> caps, state |-> "Created", gen |-> 0,
           authorized |-> FALSE, tip |-> FirstEvent, pending |-> "none",
           ops |-> [o \in Operations |-> "absent"], evidence |-> "none"]
  BY <1>1, SchedulerAssumption DEF Replay, Accepts, Absorb, Created
<1>3. d \in DurableAgent
  BY <1>2, SchedulerAssumption DEF DurableAgent, States, Handoffs, OperationStates,
     EventIds, FirstEvent
<1>4. Sound(d)
  BY <1>2 DEF Sound, Terminal, OpenOperations, IsOpen
<1>5. QED
  BY <1>2, <1>3, <1>4 DEF Synced

(* ... and the Queued event that follows it gives the agent memory inserts. *)
LEMMA DispatchKeepsInv ==
  ASSUME StoreInv, NEW a \in Agents, NEW spec \in Specs, NEW caps \in SUBSET Capabilities,
         Dispatch(a, spec, caps)
  PROVE  StoreInv' /\ DiskAdvances
<1> DEFINE d == Replay(NoAgent, Created(spec, caps))
           p == [m |-> Restored(d), d |-> d]
           q == LifecycleStep(p, "Queued", FALSE)
           new == [spec |-> spec, caps |-> caps, state |-> "Queued", gen |-> 0,
                   authorized |-> FALSE, tip |-> NextEvent(FirstEvent),
                   pending |-> "none", ops |-> [o \in Operations |-> "absent"]]
<1>1. disk[a] = NoAgent /\ phase = "up" /\ UNCHANGED <<catalog, phase, todo, ending>>
  BY DEF Dispatch, Idle
<1>2. mem[a] = NoAgent
  BY <1>1 DEF StoreInv, AgentInv, Known
<1>3. /\ Synced(p) /\ p.m = Restored(d) /\ p.d = d
      /\ d = [spec |-> spec, caps |-> caps, state |-> "Created", gen |-> 0,
              authorized |-> FALSE, tip |-> FirstEvent, pending |-> "none",
              ops |-> [o \in Operations |-> "absent"], evidence |-> "none"]
  BY CreatedSynced DEF Dispatch
<1> HIDE DEF d, p
<1>4. d \in DurableAgent /\ Sound(d) /\ d # NoAgent
  BY <1>3, RestoredType DEF Synced
<1>5. /\ d.spec = spec /\ d.caps = caps /\ d.state = "Created" /\ d.gen = 0
      /\ d.authorized = FALSE /\ d.tip = FirstEvent /\ d.pending = "none"
      /\ d.ops = [o \in Operations |-> "absent"] /\ p.m.tip = FirstEvent
  BY <1>3, SyncedFields
<1>6. CASE /\ disk' = [disk EXCEPT ![a] = Replay(d, Lifecycle("Queued", FirstEvent))]
           /\ mem' = [mem EXCEPT ![a] = new]
           /\ lease' = IF CanWrite(caps) /\ spec.strategy = "shared"
                       THEN [lease EXCEPT ![spec.workspace] = a] ELSE lease
           /\ UNCHANGED faults
  <2>1. /\ ValidTransition(p.d.state, "Queued") /\ p.d.pending = "none"
        /\ "Queued" \in States /\ "Queued" \notin Terminal
    BY <1>3, <1>5 DEF ValidTransition, States, Terminal
  <2>2. /\ Synced(q)
        /\ q.d.spec = d.spec /\ q.d.caps = d.caps /\ q.d.state = "Queued"
        /\ q.d.gen = d.gen /\ q.d.authorized = d.authorized
        /\ q.d.tip = NextEvent(d.tip) /\ q.d.pending = "none" /\ q.d.ops = d.ops
    <3>1. Synced(q) /\ q.d = Moved(p.d, "Queued", FALSE)
      BY <1>3, <2>1, LifecycleKeepsSync
    <3>2. q.d = Moved(d, "Queued", FALSE)
      BY <1>3, <3>1
    <3> HIDE DEF q
    <3>3. QED
      BY <1>4, <1>5, <2>1, <3>1, <3>2 DEF Moved, DurableAgent
  <2>3. q.d = Replay(d, Lifecycle("Queued", FirstEvent))
    BY <1>3, <1>5 DEF LifecycleStep
  <2>4. /\ q.d \in DurableAgent /\ Sound(q.d) /\ q.d # NoAgent
        /\ Restored(q.d) # NoAgent
    BY <2>2, RestoredType DEF Synced
  <2>5. new \in ScheduledAgent
    <3>1. NextEvent(FirstEvent) \in EventIds
      BY NextEventType, SchedulerAssumption DEF EventIds, FirstEvent
    <3>2. QED
      BY <3>1 DEF ScheduledAgent, States, Handoffs, OperationStates
  <2>6. new = Restored(q.d)
    <3> HIDE DEF q
    <3>1. QED
      BY <1>5, <2>2, <2>4, <2>5, SameFields
  <2>7. TypeOK'
    <3>1. spec.workspace \in Workspaces
      BY DEF Specs
    <3>2. lease' \in [Workspaces -> Agents \cup {NoAgent}]
      BY <1>6, <3>1 DEF StoreInv, TypeOK
    <3>3. QED
      BY <1>1, <1>6, <2>3, <2>4, <2>5, <3>2 DEF StoreInv, TypeOK
  <2>8. mem'[a] = Restored(q.d) /\ disk'[a] = q.d
    BY <1>6, <2>3, <2>6 DEF StoreInv, TypeOK
  <2>9. \A b \in Agents : b # a => mem'[b] = mem[b] /\ disk'[b] = disk[b]
    BY <1>6 DEF StoreInv, TypeOK
  <2>10. AgentInv(a)'
    BY <1>1, <2>4, <2>8 DEF AgentInv, Known
  <2>11. ASSUME NEW b \in Agents, b # a PROVE AgentInv(b)'
    BY <1>1, <2>9, <2>11 DEF StoreInv, AgentInv, Known
  <2>12. Turn(q.d) = <<0, "open", "none">>
    BY <1>5, <2>2, <2>4, TurnOfImage DEF Terminal
  <2>13. DiskAdvances
    BY <1>1, <2>8, <2>9, <2>12, StayAdvances DEF DiskAdvances
  <2>14. QED
    BY <2>7, <2>10, <2>11, <2>13 DEF StoreInv
<1>7. CASE disk' = [disk EXCEPT ![a] = d] /\ Fault /\ UNCHANGED <<mem, lease>>
  <2>1. TypeOK'
    BY <1>1, <1>4, <1>7, FaultType DEF StoreInv, TypeOK
  <2>2. disk'[a] = d
    BY <1>7 DEF StoreInv, TypeOK
  <2>3. \A b \in Agents : b # a => disk'[b] = disk[b]
    BY <1>7 DEF StoreInv, TypeOK
  <2>4. AgentInv(a)'
    BY <1>1, <1>2, <1>4, <1>5, <1>7, <2>2 DEF AgentInv, Known
  <2>5. ASSUME NEW b \in Agents, b # a PROVE AgentInv(b)'
    BY <1>1, <1>7, <2>3, <2>5 DEF StoreInv, AgentInv, Known
  <2>6. Turn(d) = <<0, "open", "none">>
    BY <1>4, <1>5, TurnOfImage DEF Terminal
  <2>7. DiskAdvances
    BY <1>1, <2>2, <2>3, <2>6, StayAdvances DEF DiskAdvances
  <2>8. QED
    BY <2>1, <2>4, <2>5, <2>7 DEF StoreInv
<1>8. QED
  BY <1>1, <1>6, <1>7 DEF Dispatch, d

(* terminate_conservatively, up to its list of open operations. *)
LEMMA EndConservativelyKeepsInv ==
  ASSUME StoreInv, NEW a \in Agents, Known(a), mem[a].state \notin Terminal,
         NEW status \in HandoffStatuses \ {"completed"}, EndConservatively(a, status),
         phase # "down", ending = NoAgent, catalog' = catalog
  PROVE  StoreInv' /\ DiskAdvances
<1>1. /\ AgentInv(a) /\ Synced(Now(a)) /\ Now(a).d = disk[a]
      /\ mem[a].pending = disk[a].pending
  BY NowSynced DEF StoreInv
<1>2. CASE mem[a].pending # "none"
  <2>1. Legal(ResumeStages(Now(a)), disk[a])
    BY <1>1, <1>2, ResumedHandoffLegal
  <2>2. Attempt(a, ResumeStages(Now(a))) /\ ending' = NoAgent
    BY <1>2 DEF EndConservatively
  <2>3. QED
    BY <2>1, <2>2, AttemptKeepsInv
<1>3. CASE mem[a].pending = "none"
  <2>1. /\ ending' = [agent |-> a, status |-> status, open |-> OpenOperations(mem[a])]
        /\ todo' = todo \ {a}
        /\ UNCHANGED <<mem, disk, lease, phase, faults>>
    BY <1>3 DEF EndConservatively
  <2>2. ending' \in Endings
    BY <2>1 DEF Endings, OpenOperations
  <2>3. TypeOK'
    BY <2>1, <2>2 DEF StoreInv, TypeOK
  <2>4. \A b \in Agents : AgentInv(b)'
    BY <2>1 DEF StoreInv, AgentInv, Known
  <2>5. QED
    BY <2>1, <2>3, <2>4, StayAdvances DEF StoreInv, DiskAdvances
<1>4. QED
  BY <1>2, <1>3

(* The operations of a running scheduler. *)
LEMMA OperateKeepsInv ==
  ASSUME StoreInv, NEW a \in Agents, Operate(a)
  PROVE  StoreInv' /\ DiskAdvances
<1>1. AgentInv(a)
  BY DEF StoreInv
<1>2. ASSUME NEW request \in Requests, Dispatch(a, request.spec, request.caps)
      PROVE  StoreInv' /\ DiskAdvances
  <2>1. request.spec \in Specs /\ request.caps \in SUBSET Capabilities
    BY SchedulerAssumption
  <2>2. QED
    BY <1>2, <2>1, DispatchKeepsInv
<1>3. ASSUME NEW caps \in SUBSET Capabilities, BeginFollowup(a, caps)
      PROVE  StoreInv' /\ DiskAdvances
  <2>1. Known(a) /\ phase = "up" /\ ending = NoAgent /\ UNCHANGED <<catalog, ending>>
    BY <1>3 DEF BeginFollowup, Idle
  <2>2. Synced(Now(a)) /\ Now(a).d = disk[a]
    BY <1>1, <2>1, NowSynced
  <2>3. /\ disk[a].state \in {"Completed", "Interrupted"} /\ ~disk[a].authorized
        /\ caps # {} /\ caps \subseteq disk[a].caps
    BY <1>1, <1>3, <2>1, NowSynced DEF BeginFollowup
  <2>4. Legal(FollowupStages(Now(a), caps), disk[a])
    BY <2>2, <2>3, FollowupStagesLegal
  <2>5. QED
    BY <1>3, <2>1, <2>4, AttemptKeepsInv DEF BeginFollowup
<1>4. ASSUME NEW to \in Executing, Transition(a, to)
      PROVE  StoreInv' /\ DiskAdvances
  <2>1. Known(a) /\ phase = "up" /\ UNCHANGED <<catalog, phase, todo, ending, faults>>
    BY <1>4 DEF Transition, Idle
  <2>2. Synced(Now(a)) /\ Now(a).d = disk[a]
    BY <1>1, <2>1, NowSynced
  <2>3. ValidTransition(disk[a].state, to) /\ disk[a].pending = "none"
    BY <1>1, <1>4, <2>1, NowSynced DEF Transition
  <2>4. to \in States /\ to \notin Terminal
    BY DEF States, Executing, Waiting, Terminal
  <2> DEFINE q == LifecycleStep(Now(a), to, FALSE)
  <2>5. Synced(q) /\ q.d.state \notin Terminal /\ q.d.gen = disk[a].gen
    <3>1. Synced(q) /\ q.d = Moved(disk[a], to, FALSE)
      BY <2>2, <2>3, <2>4, LifecycleKeepsSync
    <3>2. disk[a] \in DurableAgent
      BY <2>2 DEF Synced
    <3>3. QED
      BY <2>4, <3>1, <3>2 DEF Moved, DurableAgent
  <2>6. Advances(disk[a], q.d)
    <3>1. disk[a].state \notin Terminal
      BY <2>3 DEF ValidTransition, Terminal, Waiting
    <3>2. disk[a] \in DurableAgent /\ Sound(disk[a]) /\ q.d \in DurableAgent /\ Sound(q.d)
      BY <2>2, <2>5 DEF Synced
    <3>3. QED
      BY <2>3, <2>5, <3>1, <3>2, OpenAdvances
  <2>7. QED
    BY <1>4, <2>1, <2>5, <2>6, ApplyKeepsInv DEF Transition, StoreInv, TypeOK
<1>5. ASSUME NEW status \in HandoffStatuses, Finish(a, status)
      PROVE  StoreInv' /\ DiskAdvances
  <2>1. Known(a) /\ phase = "up" /\ ending = NoAgent /\ UNCHANGED <<catalog, ending>>
    BY <1>5 DEF Finish, Idle
  <2>2. Synced(Now(a)) /\ Now(a).d = disk[a]
    BY <1>1, <2>1, NowSynced
  <2>3. /\ ValidTransition(disk[a].state, TerminalStateFor(status))
        /\ disk[a].pending = "none" /\ mem[a].ops = disk[a].ops
        /\ OpenOperations(mem[a]) = {}
    BY <1>1, <1>5, <2>1, NowSynced DEF Finish
  <2>4. OpenOperations(disk[a]) = {}
    BY <2>3 DEF OpenOperations
  <2>5. Legal(FinishStages(Now(a), status), disk[a])
    BY <2>2, <2>3, <2>4, FinishStagesLegal
  <2>6. QED
    BY <1>5, <2>1, <2>5, AttemptKeepsInv DEF Finish
<1>6. ASSUME NEW status \in HandoffStatuses \ {"completed"}, Terminate(a, status)
      PROVE  StoreInv' /\ DiskAdvances
  BY <1>6, EndConservativelyKeepsInv DEF Terminate, Idle
<1>7. ASSUME NEW k, NEW op \in Operations, RecordRuntime(a, k, op)
      PROVE  StoreInv' /\ DiskAdvances
  <2>1. Known(a) /\ phase = "up" /\ UNCHANGED <<catalog, phase, todo, ending, faults>>
    BY <1>7 DEF RecordRuntime, LoopAttached, Idle
  <2>2. Synced(Now(a)) /\ Now(a).d = disk[a] /\ mem[a].ops = disk[a].ops
    BY <1>1, <2>1, NowSynced
  <2>3. disk[a].state \in Executing /\ disk[a].pending = "none"
    BY <1>1, <1>7, <2>1, NowSynced DEF RecordRuntime, LoopAttached
  <2>4. disk[a].state \notin Terminal
    BY <2>3 DEF Executing, Waiting, Terminal
  <2>5. OperationStep(k, disk[a].ops[op]) # "refused"
    BY <1>7, <2>2 DEF RecordRuntime
  <2> DEFINE q == RuntimeStep(Now(a), k, op)
  <2>6. /\ Synced(q) /\ q.d.state = disk[a].state /\ q.d.gen = disk[a].gen
    <3> PICK p : p = Now(a)
      OBVIOUS
    <3>1. /\ Synced(p) /\ p.d.state \notin Terminal /\ p.d.pending = "none"
          /\ OperationStep(k, p.d.ops[op]) # "refused"
      BY <2>2, <2>3, <2>4, <2>5
    <3>2. /\ Synced(RuntimeStep(p, k, op))
          /\ RuntimeStep(p, k, op).d = Recorded(p.d, k, op)
      BY <1>7, <3>1, RuntimeKeepsSync
    <3>3. p.d \in DurableAgent
      BY <2>2 DEF Synced
    <3>4. /\ RuntimeStep(p, k, op).d.state = p.d.state
          /\ RuntimeStep(p, k, op).d.gen = p.d.gen
      BY <3>2, <3>3 DEF DurableAgent, Recorded
    <3>5. QED
      BY <2>2, <3>2, <3>4
  <2>7. Advances(disk[a], q.d)
    <3>1. disk[a] \in DurableAgent /\ Sound(disk[a]) /\ q.d \in DurableAgent /\ Sound(q.d)
      BY <2>2, <2>6 DEF Synced
    <3>2. QED
      BY <2>3, <2>4, <2>6, <3>1, OpenAdvances
  <2>8. QED
    BY <1>7, <2>1, <2>6, <2>7, ApplyKeepsInv DEF RecordRuntime, StoreInv, TypeOK
<1>8. ASSUME RecordProgress(a) PROVE StoreInv' /\ DiskAdvances
  <2>1. Known(a) /\ phase = "up" /\ UNCHANGED <<catalog, phase, todo, ending, faults>>
    BY <1>8 DEF RecordProgress, LoopAttached, Idle
  <2>2. Synced(Now(a)) /\ Now(a).d = disk[a]
    BY <1>1, <2>1, NowSynced
  <2>3. disk[a].state \in Executing /\ disk[a].pending = "none"
    BY <1>1, <1>8, <2>1, NowSynced DEF RecordProgress, LoopAttached
  <2>4. disk[a].state \notin Terminal
    BY <2>3 DEF Executing, Waiting, Terminal
  <2> DEFINE q == ProgressStep(Now(a))
  <2>5. /\ Synced(q) /\ q.d.state = disk[a].state /\ q.d.gen = disk[a].gen
    <3>1. Synced(q) /\ q.d = [disk[a] EXCEPT !.tip = NextEvent(@)]
      BY <2>2, <2>4, ProgressKeepsSync
    <3>2. disk[a] \in DurableAgent
      BY <2>2 DEF Synced
    <3>3. QED
      BY <3>1, <3>2 DEF DurableAgent
  <2>6. Advances(disk[a], q.d)
    <3>1. disk[a] \in DurableAgent /\ Sound(disk[a]) /\ q.d \in DurableAgent /\ Sound(q.d)
      BY <2>2, <2>5 DEF Synced
    <3>2. QED
      BY <2>3, <2>4, <2>5, <3>1, OpenAdvances
  <2>7. QED
    BY <1>8, <2>1, <2>5, <2>6, ApplyKeepsInv DEF RecordProgress, StoreInv, TypeOK
<1>9. QED
  BY <1>2, <1>3, <1>4, <1>5, <1>6, <1>7, <1>8 DEF Operate

(* The closing of an operation, and the handoff that ends the agent. *)
LEMMA EndingSynced ==
  ASSUME StoreInv, CallInv, ending # NoAgent
  PROVE  LET a == ending.agent
         IN /\ ending \in Endings /\ a \in Agents /\ Known(a) /\ phase # "down"
            /\ Synced(Now(a)) /\ Now(a).d = disk[a] /\ Now(a).m = mem[a]
            /\ disk[a].state \notin Terminal /\ disk[a].pending = "none"
            /\ ending.open = OpenOperations(Now(a).m)
            /\ OpenOperations(disk[a]) = OpenOperations(mem[a])
            /\ ending.open = {} =>
                 ValidTransition(disk[a].state, TerminalStateFor(ending.status))
<1> DEFINE a == ending.agent
<1>1. ending \in Endings /\ a \in Agents /\ ending.status \in HandoffStatuses \ {"completed"}
  BY DEF StoreInv, TypeOK, Endings
<1>2. /\ Known(a) /\ phase # "down" /\ mem[a].state \notin Terminal
      /\ mem[a].pending = "none" /\ ending.open = OpenOperations(mem[a])
  BY DEF CallInv
<1>3. /\ Synced(Now(a)) /\ Now(a).d = disk[a] /\ Now(a).m = mem[a]
      /\ disk[a].state = mem[a].state /\ disk[a].pending = mem[a].pending
      /\ disk[a].ops = mem[a].ops
  BY <1>1, <1>2, NowSynced DEF StoreInv
<1>4. disk[a].state \in States
  BY <1>3 DEF Synced, DurableAgent
<1>5. ValidTransition(disk[a].state, TerminalStateFor(ending.status))
  BY <1>1, <1>2, <1>3, <1>4 DEF ValidTransition, TerminalStateFor, Terminal,
     HandoffStatuses, States, Executing, Waiting
<1>6. OpenOperations(disk[a]) = OpenOperations(mem[a])
  BY <1>3 DEF OpenOperations
<1>7. QED
  BY <1>1, <1>2, <1>3, <1>5, <1>6

LEMMA EndKeepsInv ==
  ASSUME StoreInv, CallInv, End
  PROVE  StoreInv' /\ DiskAdvances
<1> DEFINE a == ending.agent
<1>1. /\ ending # NoAgent /\ catalog' = catalog
  BY DEF End, CloseOperation, EndWithHandoff
<1>2. /\ ending \in Endings /\ a \in Agents /\ Known(a) /\ phase # "down"
      /\ Synced(Now(a)) /\ Now(a).d = disk[a]
      /\ disk[a].state \notin Terminal /\ disk[a].pending = "none"
      /\ ending.open = OpenOperations(Now(a).m)
      /\ OpenOperations(disk[a]) = ending.open
      /\ ending.open = {} =>
           ValidTransition(disk[a].state, TerminalStateFor(ending.status))
  BY <1>1, EndingSynced
<1>3. ASSUME NEW op \in Operations, CloseOperation(op)
      PROVE  StoreInv' /\ DiskAdvances
  <2>1. /\ op \in ending.open /\ Attempt(a, CloseStages(Now(a), op))
        /\ ending' = IF faults' = faults THEN [ending EXCEPT !.open = @ \ {op}] ELSE NoAgent
    BY <1>3 DEF CloseOperation
  <2>2. Legal(CloseStages(Now(a), op), disk[a])
    BY <1>2, <2>1, CloseStagesLegal
  <2>3. [ending EXCEPT !.open = @ \ {op}] \in Endings
    BY <1>2 DEF Endings
  <2>4. QED
    BY <1>1, <1>2, <2>1, <2>2, <2>3, AttemptKeepsInv
<1>4. CASE EndWithHandoff
  <2>1. /\ ending.open = {} /\ Attempt(a, FinishStages(Now(a), ending.status))
        /\ ending' = NoAgent
    BY <1>4 DEF EndWithHandoff
  <2>2. ending.status \in HandoffStatuses
    BY <1>2 DEF Endings
  <2>3. Legal(FinishStages(Now(a), ending.status), disk[a])
    BY <1>2, <2>1, <2>2, FinishStagesLegal
  <2>4. QED
    BY <1>1, <1>2, <2>1, <2>3, AttemptKeepsInv
<1>5. QED
  BY <1>3, <1>4 DEF End

(* The repairs of rehydrate. *)
LEMMA RecoverKeepsInv ==
  ASSUME StoreInv, CallInv, NEW a \in Agents, Recover(a)
  PROVE  StoreInv' /\ DiskAdvances
<1>1. /\ AgentInv(a) /\ Known(a) /\ phase # "down" /\ ending = NoAgent
      /\ catalog' = catalog /\ Needs(phase, mem[a], catalog)
  BY DEF StoreInv, CallInv, Recover, RecoverHandoff, RecoverFollowup, RecoverInFlight,
     RecoverRoute, Handles
<1>2. /\ Synced(Now(a)) /\ Now(a).d = disk[a]
      /\ mem[a].state = disk[a].state /\ mem[a].pending = disk[a].pending
      /\ mem[a].authorized = disk[a].authorized
  BY <1>1, NowSynced
<1>3. CASE RecoverHandoff(a)
  <2>1. disk[a].pending # "none"
    BY <1>1, <1>2, <1>3 DEF RecoverHandoff, Handles, Needs
  <2>2. Legal(ResumeStages(Now(a)), disk[a])
    BY <1>2, <2>1, ResumedHandoffLegal
  <2>3. QED
    BY <1>1, <1>3, <2>2, AttemptKeepsInv DEF RecoverHandoff
<1>4. CASE RecoverFollowup(a)
  <2>1. disk[a].authorized
    BY <1>1, <1>2, <1>4 DEF RecoverFollowup, Handles, Needs
  <2>2. Legal(<<Now(a), LifecycleStep(Now(a), "Queued", TRUE)>>, disk[a])
    BY <1>2, <2>1, RequeueLegal
  <2>3. QED
    BY <1>1, <1>4, <2>2, AttemptKeepsInv DEF RecoverFollowup
<1>5. CASE RecoverInFlight(a) \/ RecoverRoute(a)
  <2>1. mem[a].state \notin Terminal
    BY <1>1, <1>5 DEF RecoverInFlight, RecoverRoute, Handles, Needs, Executing, Waiting,
       Terminal
  <2>2. EndConservatively(a, "interrupted")
    BY <1>5 DEF RecoverInFlight, RecoverRoute
  <2>3. QED
    BY <1>1, <2>1, <2>2, EndConservativelyKeepsInv DEF HandoffStatuses
<1>6. QED
  BY <1>3, <1>4, <1>5 DEF Recover

(* Steps that append nothing. *)
LEMMA RestartKeepsInv ==
  ASSUME StoreInv, Stop \/ Rehydrate \/ NextPass \/ Recovered \/ Refused \/ UNCHANGED vars
  PROVE  StoreInv' /\ DiskAdvances
<1>1. disk' = disk
  BY DEF Stop, Rehydrate, NextPass, Recovered, Refused, vars
<1>2. DiskAdvances
  BY <1>1, StayAdvances DEF DiskAdvances
<1>3. CASE Stop
  <2>1. faults' \in 0..MaxFaults
    BY <1>3, FaultType DEF Stop
  <2>2. QED
    BY <1>1, <1>2, <1>3, <2>1 DEF Stop, Drop, StoreInv, TypeOK, AgentInv, Known
<1>4. CASE Rehydrate
  <2>1. \A a \in Agents : disk[a] \in DurableAgent =>
           Restored(disk[a]) \in ScheduledAgent /\ Restored(disk[a]) # NoAgent
    BY RestoredType
  <2>2. Restored(NoAgent) = NoAgent
    BY DEF Restored
  <2>3. mem' = [a \in Agents |-> Restored(disk[a])] /\ phase' = "handoffs"
    BY <1>4 DEF Rehydrate
  <2>4. mem' \in [Agents -> ScheduledAgent \cup {NoAgent}]
    BY <2>1, <2>2, <2>3 DEF StoreInv, AgentInv
  <2>5. TypeOK'
    BY <1>1, <1>4, <2>4 DEF Rehydrate, StoreInv, TypeOK, Passes, Listed
  <2>6. ASSUME NEW a \in Agents PROVE AgentInv(a)'
    BY <1>1, <2>1, <2>2, <2>3 DEF StoreInv, AgentInv, Known
  <2>7. QED
    BY <1>2, <2>5, <2>6 DEF StoreInv
<1>5. CASE Recovered
  <2>1. ASSUME NEW w \in Workspaces
        PROVE  (IF SharedWriters(w) = {} THEN NoAgent
                ELSE CHOOSE a \in SharedWriters(w) : TRUE) \in Agents \cup {NoAgent}
    BY DEF SharedWriters
  <2>2. lease' \in [Workspaces -> Agents \cup {NoAgent}]
    BY <1>5, <2>1 DEF Recovered
  <2>3. QED
    BY <1>1, <1>2, <1>5, <2>2 DEF Recovered, StoreInv, TypeOK, AgentInv, Known
<1>6. CASE Refused
  BY <1>1, <1>2, <1>6 DEF Refused, Drop, StoreInv, TypeOK, AgentInv, Known
<1>7. CASE NextPass
  <2>1. /\ phase' \in Passes /\ todo' \subseteq Agents /\ phase' # "down" /\ phase # "down"
        /\ UNCHANGED <<mem, disk, lease, catalog, ending, faults>>
    BY <1>7 DEF NextPass, PassAfter, Passes, Listed
  <2>2. TypeOK'
    BY <2>1 DEF StoreInv, TypeOK
  <2>3. \A a \in Agents : AgentInv(a)'
    BY <2>1 DEF StoreInv, AgentInv, Known
  <2>4. QED
    BY <1>2, <2>2, <2>3 DEF StoreInv
<1>8. CASE UNCHANGED vars
  BY <1>2, <1>8 DEF vars, StoreInv, TypeOK, AgentInv, Known
<1>9. QED
  BY <1>3, <1>4, <1>5, <1>6, <1>7, <1>8

-----------------------------------------------------------------------------
(* What is listed and what is past. *)

(* A running scheduler: an operation leaves no list behind, but for the one of *)
(* a termination.                                                              *)
LEMMA OperateKeepsCalls ==
  ASSUME IInv, NEW a \in Agents, Operate(a)
  PROVE  CallInv' /\ PassInv'
<1>1. phase = "up" /\ todo = {} /\ ending = NoAgent
  BY DEF Operate, Dispatch, BeginFollowup, Transition, Finish, Terminate, RecordRuntime,
     RecordProgress, Idle, IInv, CallInv
<1>2. ASSUME NEW s, Attempt(a, s) PROVE phase' = "up" /\ todo' = {}
  BY <1>1, <1>2 DEF Attempt
<1>3. \/ phase' = "up" /\ todo' = {} /\ ending' = NoAgent
      \/ \E status \in HandoffStatuses \ {"completed"} : Terminate(a, status)
  BY <1>1, <1>2 DEF Operate, Dispatch, BeginFollowup, Transition, Finish, RecordRuntime,
     RecordProgress
<1>4. CASE phase' = "up" /\ todo' = {} /\ ending' = NoAgent
  BY <1>4 DEF CallInv, PassInv, Passes
<1>5. ASSUME NEW status, Terminate(a, status) PROVE CallInv' /\ PassInv'
  <2>1. CASE mem[a].pending # "none"
    <3>1. phase' = "up" /\ todo' = {} /\ ending' = NoAgent
      BY <1>1, <1>2, <1>5, <2>1 DEF Terminate, EndConservatively
    <3>2. QED
      BY <1>4, <3>1
  <2>2. CASE mem[a].pending = "none"
    <3>1. /\ ending' = [agent |-> a, status |-> status, open |-> OpenOperations(mem[a])]
          /\ todo' = {} /\ phase' = "up" /\ mem' = mem /\ catalog' = catalog
          /\ Known(a) /\ mem[a].state \notin Terminal
      BY <1>1, <1>5, <2>2 DEF Terminate, EndConservatively
    <3>2. CallInv'
      BY <2>2, <3>1 DEF CallInv, Known, OpenOperations
    <3>3. PassInv'
      BY <3>1 DEF PassInv, Passes
    <3>4. QED
      BY <3>2, <3>3
  <2>3. QED
    BY <2>1, <2>2
<1>6. QED
  BY <1>3, <1>4, <1>5

(* A scheduler that is dropped has no lists. *)
LEMMA DropKeepsCalls ==
  ASSUME Drop, ending' = NoAgent
  PROVE  CallInv' /\ PassInv'
  BY DEF Drop, CallInv, PassInv, Passes

(* The closing of one operation leaves the others; the handoff leaves an agent *)
(* that needs no pass.                                                         *)
LEMMA EndKeepsCalls ==
  ASSUME IInv, End
  PROVE  CallInv' /\ PassInv'
<1> DEFINE a == ending.agent
<1>1. /\ ending # NoAgent /\ catalog' = catalog
  BY DEF End, CloseOperation, EndWithHandoff
<1>2. /\ ending \in Endings /\ a \in Agents /\ Known(a)
      /\ Synced(Now(a)) /\ Now(a).d = disk[a] /\ Now(a).m = mem[a]
      /\ disk[a].state \notin Terminal /\ disk[a].pending = "none"
      /\ ending.open = OpenOperations(Now(a).m)
      /\ OpenOperations(disk[a]) = OpenOperations(mem[a])
      /\ ending.open = {} =>
           ValidTransition(disk[a].state, TerminalStateFor(ending.status))
  BY <1>1, EndingSynced DEF IInv
<1>3. /\ phase \in {"up", "in_flight", "routes"} /\ a \notin todo
      /\ mem[a].state \notin Terminal /\ mem[a].pending = "none"
      /\ phase = "up" => todo = {}
      /\ \A b \in todo : Known(b) /\ Needs(phase, mem[b], catalog)
  BY <1>1 DEF IInv, CallInv
<1>4. todo \subseteq Agents /\ TypeOK
  BY DEF IInv, StoreInv, TypeOK
<1>5. ASSUME phase' = phase, todo' = todo \ {a}, ending' = NoAgent,
             \A b \in Agents : b # a => mem'[b] = mem[b],
             phase = "up" \/ (mem'[a].state \in Terminal /\ mem'[a].pending = "none"
                                                       /\ ~mem'[a].authorized)
      PROVE  CallInv' /\ PassInv'
  <2>1. \A b \in todo' : Known(b)' /\ Needs(phase, mem'[b], catalog)
    BY <1>3, <1>4, <1>5 DEF Known
  <2>2. CallInv'
    BY <1>1, <1>3, <1>5, <2>1 DEF CallInv
  <2>3. SUFFICES ASSUME phase \in Passes, NEW b \in Agents, Known(b)'
                 PROVE  /\ Past(phase, mem'[b], catalog)
                        /\ Needs(phase, mem'[b], catalog) => b \in todo'
    BY <1>1, <1>5, <2>2 DEF PassInv
  <2>4. CASE b = a
    <3>1. phase # "up" /\ mem'[a].state \notin {"Created"} \cup Executing
          /\ mem'[a].state # "Queued"
      BY <1>5, <2>3 DEF Passes, Terminal, Executing, Waiting
    <3>2. QED
      BY <1>3, <1>5, <2>4, <3>1 DEF Past, Needs
  <2>5. CASE b # a
    BY <1>1, <1>5, <2>3, <2>5 DEF IInv, PassInv, Known
  <2>6. QED
    BY <2>4, <2>5
<1>6. ASSUME NEW op \in Operations, CloseOperation(op)
      PROVE  CallInv' /\ PassInv'
  <2> DEFINE s == CloseStages(Now(a), op)
             n == s[2].m
  <2>1. /\ op \in ending.open /\ Attempt(a, s)
        /\ ending' = IF faults' = faults THEN [ending EXCEPT !.open = @ \ {op}] ELSE NoAgent
    BY <1>6 DEF CloseOperation
  <2>2. /\ Len(s) = 2
        /\ n.spec = mem[a].spec /\ n.state = mem[a].state /\ n.pending = "none"
        /\ n.authorized = mem[a].authorized
        /\ OpenOperations(n) = ending.open \ {op}
    BY <1>2, <2>1, CloseStagesLegal
  <2> HIDE DEF s
  <2>3. \/ Drop /\ faults' # faults
        \/ /\ phase' = phase /\ todo' = todo \ {a}
           /\ \A b \in Agents : b # a => mem'[b] = mem[b]
           /\ \/ faults' = faults /\ mem'[a] = n
              \/ phase = "up" /\ faults' # faults
    <3>1. Len(s) \in Nat \ {0} /\ s[Len(s)].m = n
      BY <2>2 DEF n
    <3> HIDE DEF n
    <3>2. \/ phase # "up" /\ Drop /\ faults' # faults
          \/ /\ phase' = phase /\ todo' = todo \ {a}
             /\ \A b \in Agents : b # a => mem'[b] = mem[b]
             /\ \/ faults' = faults /\ mem'[a] = s[Len(s)].m
                \/ phase = "up" /\ faults' # faults
      BY <1>2, <1>3, <1>4, <2>1, <3>1, AttemptMoves
    <3>3. QED
      BY <3>1, <3>2
  <2> HIDE DEF n
  <2>4. CASE Drop /\ faults' # faults
    BY <2>1, <2>4, DropKeepsCalls
  <2>5. CASE /\ phase' = phase /\ todo' = todo \ {a}
             /\ \A b \in Agents : b # a => mem'[b] = mem[b]
             /\ phase = "up" /\ faults' # faults
    BY <1>5, <2>1, <2>5
  <2>6. CASE /\ phase' = phase /\ todo' = todo \ {a}
             /\ \A b \in Agents : b # a => mem'[b] = mem[b]
             /\ faults' = faults /\ mem'[a] = n
    <3>1. /\ ending' = [ending EXCEPT !.open = @ \ {op}] /\ todo' = todo
      BY <1>3, <2>1, <2>6
    <3>2. /\ ending'.agent = a /\ ending'.open = ending.open \ {op} /\ ending' # NoAgent
      <4>1. ending' \in Endings
        BY <1>2, <3>1 DEF Endings
      <4>2. QED
        BY <1>2, <3>1, <4>1, SchedulerAssumption DEF Endings
    <3>3. n # NoAgent
      <4>1. Legal(CloseStages(Now(a), op), disk[a])
        BY <1>2, <2>1, CloseStagesLegal
      <4>2. Synced(s[2])
        BY <2>2, <4>1 DEF Legal, s
      <4>3. QED
        BY <4>2, RestoredType DEF Synced, n
    <3>4. \A b \in todo' : Known(b)' /\ Needs(phase, mem'[b], catalog)
      BY <1>3, <1>4, <2>6, <3>1 DEF Known
    <3>5. CallInv'
      BY <1>1, <1>3, <2>2, <2>6, <3>1, <3>2, <3>3, <3>4 DEF CallInv, Known
    <3>6. SUFFICES ASSUME phase \in Passes, NEW b \in Agents, Known(b)'
                   PROVE  /\ Past(phase, mem'[b], catalog)
                          /\ Needs(phase, mem'[b], catalog) => b \in todo' \/ b = a
      BY <1>1, <2>6, <3>2, <3>5 DEF PassInv
    <3>7. CASE b = a
      <4>1. Past(phase, mem[a], catalog)
        BY <1>2, <3>6 DEF IInv, PassInv
      <4>2. Past(phase, n, catalog)
        BY <1>3, <2>2, <4>1 DEF Past
      <4>3. QED
        BY <2>6, <3>7, <4>2
    <3>8. CASE b # a
      BY <1>1, <2>6, <3>1, <3>6, <3>8 DEF IInv, PassInv, Known
    <3>9. QED
      BY <3>7, <3>8
  <2>7. QED
    BY <2>3, <2>4, <2>5, <2>6
<1>7. CASE EndWithHandoff
  <2> DEFINE s == FinishStages(Now(a), ending.status)
             n == s[3].m
  <2>1. ending.open = {} /\ Attempt(a, s) /\ ending' = NoAgent
    BY <1>7 DEF EndWithHandoff
  <2>2. ending.status \in HandoffStatuses
    BY <1>2 DEF Endings
  <2>3. Len(s) = 3 /\ n.state \in Terminal /\ n.pending = "none" /\ ~n.authorized
    BY <1>2, <2>1, <2>2, FinishStagesLegal
  <2> HIDE DEF s
  <2>4. \/ Drop /\ faults' # faults
        \/ /\ phase' = phase /\ todo' = todo \ {a}
           /\ \A b \in Agents : b # a => mem'[b] = mem[b]
           /\ \/ faults' = faults /\ mem'[a] = n
              \/ phase = "up" /\ faults' # faults
    <3>1. Len(s) \in Nat \ {0} /\ s[Len(s)].m = n
      BY <2>3 DEF n
    <3> HIDE DEF n
    <3>2. \/ phase # "up" /\ Drop /\ faults' # faults
          \/ /\ phase' = phase /\ todo' = todo \ {a}
             /\ \A b \in Agents : b # a => mem'[b] = mem[b]
             /\ \/ faults' = faults /\ mem'[a] = s[Len(s)].m
                \/ phase = "up" /\ faults' # faults
      BY <1>2, <1>3, <1>4, <2>1, <3>1, AttemptMoves
    <3>3. QED
      BY <3>1, <3>2
  <2> HIDE DEF n
  <2>5. CASE Drop
    BY <2>1, <2>5, DropKeepsCalls
  <2>6. CASE /\ phase' = phase /\ todo' = todo \ {a}
             /\ \A b \in Agents : b # a => mem'[b] = mem[b]
             /\ \/ faults' = faults /\ mem'[a] = n
                \/ phase = "up" /\ faults' # faults
    BY <1>5, <2>1, <2>3, <2>6
  <2>7. QED
    BY <2>4, <2>5, <2>6
<1>8. QED
  BY <1>6, <1>7 DEF End

(* A pass takes an agent off its list only when the agent needs it no more, or *)
(* is being ended.                                                             *)
LEMMA RecoverKeepsCalls ==
  ASSUME IInv, NEW a \in Agents, Recover(a)
  PROVE  CallInv' /\ PassInv'
<1>1. /\ phase \in {"handoffs", "followups", "in_flight", "routes"} /\ ending = NoAgent
      /\ a \in todo /\ catalog' = catalog
  BY DEF Recover, RecoverHandoff, RecoverFollowup, RecoverInFlight, RecoverRoute, Handles
<1>2. /\ Known(a) /\ Needs(phase, mem[a], catalog)
      /\ \A b \in todo : Known(b) /\ Needs(phase, mem[b], catalog)
  BY <1>1 DEF IInv, CallInv
<1>3. /\ Synced(Now(a)) /\ Now(a).d = disk[a] /\ Now(a).m = mem[a]
      /\ mem[a].state = disk[a].state /\ mem[a].pending = disk[a].pending
      /\ mem[a].authorized = disk[a].authorized
  BY <1>2, NowSynced DEF IInv, StoreInv
<1>4. todo \subseteq Agents /\ TypeOK
  BY DEF IInv, StoreInv, TypeOK
<1>5. \A b \in Agents : Known(b) =>
         /\ Past(phase, mem[b], catalog)
         /\ Needs(phase, mem[b], catalog) => b \in todo
  BY <1>1 DEF IInv, PassInv, Passes
<1>6. ASSUME phase' = phase, todo' = todo \ {a}, ending' = NoAgent,
             \A b \in Agents : b # a => mem'[b] = mem[b],
             Past(phase, mem'[a], catalog), ~Needs(phase, mem'[a], catalog)
      PROVE  CallInv' /\ PassInv'
  <2>1. \A b \in todo' : Known(b)' /\ Needs(phase, mem'[b], catalog)
    BY <1>2, <1>4, <1>6 DEF Known
  <2>2. CallInv'
    BY <1>1, <1>6, <2>1 DEF CallInv
  <2>3. ASSUME NEW b \in Agents, Known(b)'
        PROVE  /\ Past(phase, mem'[b], catalog)
               /\ Needs(phase, mem'[b], catalog) => b \in todo'
    BY <1>5, <1>6, <2>3 DEF Known
  <2>4. QED
    BY <1>1, <1>6, <2>2, <2>3 DEF PassInv
<1>7. ASSUME NEW s, Legal(s, disk[a]), Attempt(a, s), ending' = NoAgent,
             Past(phase, s[Len(s)].m, catalog), ~Needs(phase, s[Len(s)].m, catalog)
      PROVE  CallInv' /\ PassInv'
  <2>1. \/ Drop
        \/ /\ phase' = phase /\ todo' = todo \ {a}
           /\ \A b \in Agents : b # a => mem'[b] = mem[b]
           /\ mem'[a] = s[Len(s)].m
    <3>1. Len(s) \in Nat \ {0}
      BY <1>7 DEF Legal
    <3>2. QED
      BY <1>1, <1>4, <1>7, <3>1, AttemptMoves
  <2>2. QED
    BY <1>6, <1>7, <2>1, DropKeepsCalls
<1>8. CASE RecoverHandoff(a)
  <2> DEFINE s == ResumeStages(Now(a))
  <2>1. phase = "handoffs" /\ Attempt(a, s) /\ ending' = NoAgent
    BY <1>1, <1>8 DEF RecoverHandoff, Handles
  <2>2. disk[a].pending # "none"
    BY <1>2, <1>3, <2>1 DEF Needs
  <2>3. Legal(s, disk[a]) /\ Len(s) = 2 /\ s[2].m.pending = "none"
    BY <1>3, <2>2, ResumedHandoffLegal
  <2> HIDE DEF s
  <2>4. Past(phase, s[Len(s)].m, catalog) /\ ~Needs(phase, s[Len(s)].m, catalog)
    BY <2>1, <2>3 DEF Past, Needs
  <2>5. QED
    BY <1>7, <2>1, <2>3, <2>4
<1>9. CASE RecoverFollowup(a)
  <2> DEFINE q == LifecycleStep(Now(a), "Queued", TRUE)
             s == <<Now(a), q>>
  <2>1. phase = "followups" /\ Attempt(a, s) /\ ending' = NoAgent
    BY <1>1, <1>9 DEF RecoverFollowup, Handles
  <2>2. disk[a].authorized
    BY <1>2, <1>3, <2>1 DEF Needs
  <2>3. Legal(s, disk[a])
    BY <1>3, <2>2, RequeueLegal
  <2>4. q.m.pending = "none" /\ ~q.m.authorized
    <3>1. Synced(q) /\ q.d.pending = "none" /\ ~q.d.authorized
      BY <1>3, <2>2, RequeueSynced
    <3>2. QED
      BY <3>1, SyncedFields
  <2> HIDE DEF q
  <2>5. s[Len(s)] = q
    OBVIOUS
  <2>6. Past(phase, s[Len(s)].m, catalog) /\ ~Needs(phase, s[Len(s)].m, catalog)
    BY <2>1, <2>4, <2>5 DEF Past, Needs
  <2> HIDE DEF s
  <2>7. QED
    BY <1>7, <2>1, <2>3, <2>6
<1>10. CASE RecoverInFlight(a) \/ RecoverRoute(a)
  <2>1. phase \in {"in_flight", "routes"} /\ EndConservatively(a, "interrupted")
    BY <1>10 DEF RecoverInFlight, RecoverRoute, Handles
  <2>2. mem[a].pending = "none" /\ mem[a].state \notin Terminal
    <3>1. mem[a].pending = "none"
      BY <1>2, <1>5, <2>1 DEF Past
    <3>2. mem[a].state \notin Terminal
      BY <1>2, <2>1 DEF Needs, Terminal, Executing, Waiting
    <3>3. QED
      BY <3>1, <3>2
  <2> DEFINE e == [agent |-> a, status |-> "interrupted", open |-> OpenOperations(mem[a])]
  <2>3. ending' = e /\ todo' = todo \ {a} /\ mem' = mem /\ phase' = phase
    BY <2>1, <2>2 DEF EndConservatively
  <2>4. e # NoAgent
    <3>1. e \in Endings
      BY DEF Endings, HandoffStatuses, OpenOperations
    <3>2. QED
      BY <3>1, SchedulerAssumption
  <2>5. CallInv'
    <3>1. ending'.agent = a /\ ending'.open = OpenOperations(mem[a])
      BY <2>3
    <3>2. QED
      BY <1>1, <1>2, <2>1, <2>2, <2>3, <3>1 DEF CallInv, Known
  <2>6. PassInv'
    <3>1. ending'.agent = a /\ ending' # NoAgent
      BY <2>3, <2>4
    <3> HIDE DEF e
    <3>2. QED
      BY <1>1, <1>5, <2>3, <3>1 DEF PassInv, Known
  <2>7. QED
    BY <2>5, <2>6
<1>11. QED
  BY <1>8, <1>9, <1>10 DEF Recover

(* Every list is made of all agents that need its pass; a pass whose list is   *)
(* empty leaves none behind that does.                                         *)
LEMMA RestartKeepsCalls ==
  ASSUME IInv, Stop \/ Rehydrate \/ NextPass \/ Recovered \/ Refused \/ UNCHANGED vars
  PROVE  CallInv' /\ PassInv'
<1>1. CASE Stop
  BY <1>1, DropKeepsCalls DEF Stop
<1>2. CASE Refused
  <2>1. Drop /\ ending' = NoAgent
    BY <1>2 DEF Refused, IInv, CallInv
  <2>2. QED
    BY <2>1, DropKeepsCalls
<1>3. CASE Recovered
  <2>1. /\ phase = "leases" /\ phase' = "up"
        /\ UNCHANGED <<mem, catalog, todo, ending>>
    BY <1>3 DEF Recovered
  <2>2. ending = NoAgent /\ \A a \in todo : Needs("leases", mem[a], catalog)
    BY <2>1 DEF IInv, CallInv
  <2>3. todo = {}
    BY <2>2 DEF Needs
  <2>4. QED
    BY <2>1, <2>2, <2>3 DEF CallInv, PassInv, Passes
<1>4. CASE Rehydrate
  <2>1. /\ phase' = "handoffs" /\ ending' = NoAgent
        /\ todo' = Listed("handoffs", mem', catalog')
    BY <1>4 DEF Rehydrate, IInv, CallInv
  <2>2. CallInv'
    BY <2>1 DEF CallInv, Listed, Known
  <2>3. PassInv'
    BY <2>1 DEF PassInv, Past, Listed, Known
  <2>4. QED
    BY <2>2, <2>3
<1>5. CASE NextPass
  <2>1. /\ phase \in Passes \ {"leases"} /\ todo = {} /\ ending = NoAgent /\ ending' = NoAgent
        /\ phase' = PassAfter(phase) /\ todo' = Listed(phase', mem, catalog)
        /\ mem' = mem /\ catalog' = catalog
    BY <1>5 DEF NextPass
  <2>2. phase' \in Passes
    BY <2>1 DEF PassAfter, Passes
  <2>3. CallInv'
    BY <2>1, <2>2 DEF CallInv, Listed, Known, Passes
  <2>4. ASSUME NEW a \in Agents, Known(a) PROVE Past(phase', mem[a], catalog)
    <3>1. Past(phase, mem[a], catalog) /\ ~Needs(phase, mem[a], catalog)
      BY <2>1, <2>4 DEF IInv, PassInv
    <3>2. mem[a].authorized => mem[a].state \in Terminal
      BY <2>4, NowSynced DEF IInv, StoreInv, Synced, Sound, Terminal
    <3>3. mem[a].state \in States
      BY <2>4 DEF IInv, StoreInv, TypeOK, Known, ScheduledAgent
    <3>4. CASE phase = "handoffs"
      BY <2>1, <3>1, <3>4 DEF PassAfter, Past, Needs
    <3>5. CASE phase = "followups"
      BY <2>1, <3>1, <3>2, <3>5 DEF PassAfter, Past, Needs
    <3>6. CASE phase = "in_flight"
      BY <2>1, <3>1, <3>3, <3>6 DEF PassAfter, Past, Needs, States
    <3>7. CASE phase = "routes"
      BY <2>1, <3>1, <3>7 DEF PassAfter, Past, Needs
    <3>8. QED
      BY <2>1, <3>4, <3>5, <3>6, <3>7 DEF Passes
  <2>5. PassInv'
    BY <2>1, <2>4 DEF PassInv, Listed, Known
  <2>6. QED
    BY <2>3, <2>5
<1>6. CASE UNCHANGED vars
  BY <1>6 DEF vars, IInv, CallInv, PassInv, Known
<1>7. QED
  BY <1>1, <1>2, <1>3, <1>4, <1>5, <1>6

-----------------------------------------------------------------------------
(* The theorems. *)

(* IInv is inductive. *)
LEMMA InitInv == Init => IInv
<1> SUFFICES ASSUME Init PROVE IInv
  OBVIOUS
<1>1. TypeOK
  BY SchedulerAssumption DEF Init, TypeOK
<1>2. \A a \in Agents : AgentInv(a)
  BY DEF Init, AgentInv, Known
<1>3. CallInv /\ PassInv
  BY DEF Init, CallInv, PassInv, Passes
<1>4. QED
  BY <1>1, <1>2, <1>3 DEF IInv, StoreInv

(* Every step keeps IInv and changes the log legally. *)
LEMMA StepInv == IInv /\ [Next]_vars => IInv' /\ DiskAdvances
<1> SUFFICES ASSUME IInv, [Next]_vars PROVE IInv' /\ DiskAdvances
  OBVIOUS
<1>1. StoreInv /\ CallInv
  BY DEF IInv
<1>2. ASSUME NEW a \in Agents, Operate(a) PROVE IInv' /\ DiskAdvances
  BY <1>1, <1>2, OperateKeepsInv, OperateKeepsCalls DEF IInv
<1>3. ASSUME NEW a \in Agents, Recover(a) PROVE IInv' /\ DiskAdvances
  BY <1>1, <1>3, RecoverKeepsInv, RecoverKeepsCalls DEF IInv
<1>4. CASE End
  BY <1>1, <1>4, EndKeepsInv, EndKeepsCalls DEF IInv
<1>5. CASE Stop \/ Rehydrate \/ NextPass \/ Recovered \/ Refused \/ UNCHANGED vars
  BY <1>1, <1>5, RestartKeepsInv, RestartKeepsCalls DEF IInv
<1>6. QED
  BY <1>2, <1>3, <1>4, <1>5 DEF Next

(* The invariant behind the others: memory and log agree agent by agent, and   *)
(* every logged agent is one that rehydrate can continue from.                 *)
THEOREM Invariance == Spec => []IInv
<1>1. IInv /\ [Next]_vars => IInv'
  BY StepInv
<1>2. QED
  BY InitInv, <1>1, PTL DEF Spec

(* TypeOK: ScheduledAgent, its image and the leases keep their shape.          *)
THEOREM TypeCorrect == Spec => []TypeOK
<1>1. IInv => TypeOK
  BY DEF IInv, StoreInv
<1>2. QED
  BY Invariance, <1>1, PTL

(* HistoryReplays: rehydrate accepts every log its own scheduler wrote,        *)
(* whichever append failed and wherever the process stopped.                   *)
THEOREM HistoryAccepted == Spec => []HistoryReplays
<1>1. IInv => HistoryReplays
  BY RestoredType, SchedulerAssumption DEF IInv, StoreInv, AgentInv, HistoryReplays
<1>2. QED
  BY Invariance, <1>1, PTL

(* ReplayAgrees: replaying the log gives the agents that are in memory.        *)
THEOREM ReplayCorrect == Spec => []ReplayAgrees
<1>1. IInv => ReplayAgrees
  BY DEF IInv, StoreInv, AgentInv, ReplayAgrees
<1>2. QED
  BY Invariance, <1>1, PTL

(* SettledWithEvidence: a terminal agent has the handoff its state stands for  *)
(* and no open tool operation.                                                 *)
THEOREM EvidenceForSettled == Spec => []SettledWithEvidence
<1>1. IInv => SettledWithEvidence
  BY DEF IInv, StoreInv, AgentInv, SettledWithEvidence, Placed, Sound
<1>2. QED
  BY Invariance, <1>1, PTL

(* DurableHandoffDecides: a durable handoff decides how its turn ends.         *)
THEOREM HandoffIsFinal == Spec => DurableHandoffDecides
<1>1. IInv /\ IInv' /\ DiskAdvances =>
        \A a \in Agents :
          (Placed(disk[a]) /\ disk[a].pending # "none") =>
              \/ disk'[a] = disk[a]
              \/ /\ Placed(disk'[a])
                 /\ disk'[a].pending = "none"
                 /\ disk'[a].evidence = disk[a].pending
                 /\ disk'[a].state = TerminalStateFor(disk[a].pending)
  <2> SUFFICES ASSUME IInv, IInv', DiskAdvances, NEW a \in Agents,
                      Placed(disk[a]), disk[a].pending # "none"
               PROVE  \/ disk'[a] = disk[a]
                      \/ /\ Placed(disk'[a])
                         /\ disk'[a].pending = "none"
                         /\ disk'[a].evidence = disk[a].pending
                         /\ disk'[a].state = TerminalStateFor(disk[a].pending)
    OBVIOUS
  <2>1. disk[a] # NoAgent
    BY DEF Placed
  <2>2. disk'[a] # NoAgent /\ Advances(disk[a], disk'[a])
    BY <2>1 DEF DiskAdvances
  <2>3. disk'[a] \in DurableAgent
    BY <2>2 DEF IInv, StoreInv, AgentInv
  <2>4. Placed(disk'[a])
    BY <2>3, RestoredType DEF Placed
  <2>5. QED
    BY <2>2, <2>4 DEF Advances, HandoffDecides
<1>2. QED
  BY Invariance, StepInv, <1>1, PTL DEF DurableHandoffDecides, Spec

(* ReopenedOnlyByFollowup: nothing but a follow-up reopens a settled agent.    *)
THEOREM SettledStaysSettled == Spec => ReopenedOnlyByFollowup
<1>1. IInv /\ IInv' /\ DiskAdvances =>
        \A a \in Agents :
          (Placed(disk[a]) /\ disk[a].state \in Terminal) =>
              \/ disk'[a] = disk[a]
              \/ /\ disk[a].state \in {"Completed", "Interrupted"}
                 /\ ~disk[a].authorized
                 /\ Placed(disk'[a])
                 /\ disk'[a].gen = disk[a].gen + 1
                 /\ disk'[a].caps \subseteq disk[a].caps
              \/ /\ disk[a].authorized
                 /\ Placed(disk'[a])
                 /\ disk'[a].state = "Queued"
                 /\ disk'[a].gen = disk[a].gen
  <2> SUFFICES ASSUME IInv, IInv', DiskAdvances, NEW a \in Agents,
                      Placed(disk[a]), disk[a].state \in Terminal
               PROVE  \/ disk'[a] = disk[a]
                      \/ /\ disk[a].state \in {"Completed", "Interrupted"}
                         /\ ~disk[a].authorized
                         /\ Placed(disk'[a])
                         /\ disk'[a].gen = disk[a].gen + 1
                         /\ disk'[a].caps \subseteq disk[a].caps
                      \/ /\ disk[a].authorized
                         /\ Placed(disk'[a])
                         /\ disk'[a].state = "Queued"
                         /\ disk'[a].gen = disk[a].gen
    OBVIOUS
  <2>1. disk'[a] # NoAgent /\ Advances(disk[a], disk'[a])
    BY DEF Placed, DiskAdvances
  <2>2. disk'[a] \in DurableAgent
    BY <2>1 DEF IInv, StoreInv, AgentInv
  <2>3. Placed(disk'[a])
    BY <2>2, RestoredType DEF Placed
  <2>4. QED
    BY <2>1, <2>3 DEF Advances, Reopens
<1>2. QED
  BY Invariance, StepInv, <1>1, PTL DEF ReopenedOnlyByFollowup, Spec

(* RecoveryLeavesNothingInFlight: one pass per repair settles every agent or   *)
(* leaves it queued with the catalog's route (PassInv): each list has all that *)
(* need its pass, and no later pass makes an earlier one necessary again.      *)
THEOREM RecoverySettlesAll == Spec => RecoveryLeavesNothingInFlight
<1>1. IInv /\ [Next]_vars =>
        ((phase \in Passes /\ phase' = "up") =>
          \A a \in Agents :
              mem'[a] # NoAgent =>
                  \/ mem'[a].state \in Terminal /\ mem'[a].pending = "none"
                                                /\ ~mem'[a].authorized
                  \/ mem'[a].state = "Queued" /\ mem'[a].spec.route = catalog')
  <2> SUFFICES ASSUME IInv, [Next]_vars, phase \in Passes, phase' = "up",
                      NEW a \in Agents, mem'[a] # NoAgent
               PROVE  \/ mem'[a].state \in Terminal /\ mem'[a].pending = "none"
                                                    /\ ~mem'[a].authorized
                      \/ mem'[a].state = "Queued" /\ mem'[a].spec.route = catalog'
    OBVIOUS
  <2>1. \A b \in Agents : ~Operate(b)
    BY DEF Operate, Dispatch, BeginFollowup, Transition, Finish, Terminate, RecordRuntime,
       RecordProgress, Idle, Passes
  <2>2. phase # "up" => \A b, s : ~Attempt(b, s)
    BY DEF Attempt, Drop
  <2>3. Recovered
    BY <2>1, <2>2 DEF Next, End, CloseOperation, EndWithHandoff, Recover, RecoverHandoff,
       RecoverFollowup, RecoverInFlight, RecoverRoute, EndConservatively, Stop, Rehydrate,
       NextPass, PassAfter, Refused, Drop, Passes, vars
  <2>4. phase = "leases" /\ mem' = mem /\ catalog' = catalog /\ Known(a)
    BY <2>3 DEF Recovered, Known
  <2>5. Past("leases", mem[a], catalog)
    BY <2>4 DEF IInv, PassInv, Passes
  <2>6. QED
    BY <2>4, <2>5 DEF Past
<1>2. QED
  BY Invariance, <1>1, PTL DEF RecoveryLeavesNothingInFlight, Spec

-----------------------------------------------------------------------------
(* The writer lease. *)

(* What an operation makes of an agent in its first turn: the same writer of    *)
(* the same workspace, or no writer with unsettled work in that turn any more.  *)
Continues(m, n) ==
    /\ n.spec = m.spec
    /\ n.gen = 0 /\ n.state \notin Terminal =>
         m.gen = 0 /\ m.state \notin Terminal /\ n.caps = m.caps

LEMMA ContinuesFurther ==
  ASSUME NEW m, NEW n, NEW o, Continues(m, n), Continues(n, o)
  PROVE  Continues(m, o)
  BY DEF Continues

LEMMA StepsContinue ==
  ASSUME NEW p, p.m \in ScheduledAgent
  PROVE  /\ Continues(p.m, p.m)
         /\ \A status : Continues(p.m, HandoffStep(p, status).m)
         /\ \A to, resume :
              to \in Terminal \/ p.m.state \notin Terminal \/ p.m.gen # 0 =>
                 Continues(p.m, LifecycleStep(p, to, resume).m)
         /\ \A k, op : Continues(p.m, RuntimeStep(p, k, op).m)
         /\ Continues(p.m, ProgressStep(p).m)
         /\ \A caps : FollowupStep(p, caps).m.gen # 0 /\ Continues(p.m, FollowupStep(p, caps).m)
<1>1. Continues(p.m, p.m)
  BY DEF Continues
<1>2. ASSUME NEW status PROVE Continues(p.m, HandoffStep(p, status).m)
  BY DEF HandoffStep, Continues, ScheduledAgent
<1>3. ASSUME NEW to, NEW resume, to \in Terminal \/ p.m.state \notin Terminal \/ p.m.gen # 0
      PROVE  Continues(p.m, LifecycleStep(p, to, resume).m)
  BY <1>3 DEF LifecycleStep, Continues, ScheduledAgent
<1>4. ASSUME NEW k, NEW op PROVE Continues(p.m, RuntimeStep(p, k, op).m)
  BY DEF RuntimeStep, Continues, ScheduledAgent
<1>5. Continues(p.m, ProgressStep(p).m)
  BY DEF ProgressStep, Continues, ScheduledAgent
<1>6. ASSUME NEW caps
      PROVE  FollowupStep(p, caps).m.gen # 0 /\ Continues(p.m, FollowupStep(p, caps).m)
  <2> DEFINE n == FollowupStep(p, caps).m
  <2>1. n.gen = p.m.gen + 1 /\ n.spec = p.m.spec /\ p.m.gen \in Nat
    BY DEF FollowupStep, ScheduledAgent
  <2> HIDE DEF n
  <2>2. n.gen # 0
    BY <2>1
  <2>3. QED
    BY <2>1, <2>2 DEF Continues, n
<1>7. QED
  BY <1>1, <1>2, <1>3, <1>4, <1>5, <1>6

(* No operation changes the lease of another agent, and a writer with unsettled *)
(* work in its first turn keeps its own.                                       *)
LEMMA ApplyKeepsLease ==
  ASSUME IInv, WriterHoldsLease, phase = "up", NEW a \in Agents, Known(a),
         NEW p, p.m \in ScheduledAgent, Apply(a, p), Continues(mem[a], p.m)
  PROVE  WriterHoldsLease'
<1>1. /\ mem' = [mem EXCEPT ![a] = p.m] /\ lease' = ReleaseLease(a, p.m)
      /\ mem \in [Agents -> ScheduledAgent \cup {NoAgent}]
      /\ lease \in [Workspaces -> Agents \cup {NoAgent}]
  BY DEF Apply, IInv, StoreInv, TypeOK
<1>2. mem'[a] = p.m /\ \A b \in Agents : b # a => mem'[b] = mem[b]
  BY <1>1
<1>3. SUFFICES ASSUME NEW w \in Workspaces, NEW b \in SharedWriters(w)', mem'[b].gen = 0
               PROVE  lease'[w] = b
  BY DEF WriterHoldsLease
<1>4. /\ b \in Agents /\ mem'[b] # NoAgent /\ mem'[b].state \notin Terminal
      /\ SharedWriter(mem'[b]) /\ mem'[b].spec.workspace = w
  BY <1>3 DEF SharedWriters, Known
<1>5. CASE b = a
  <2>1. a \in SharedWriters(w) /\ mem[a].gen = 0 /\ p.m.state \notin Terminal
    BY <1>2, <1>3, <1>4, <1>5 DEF Continues, SharedWriters, SharedWriter
  <2>2. lease[w] = a /\ lease' = lease
    BY <1>1, <2>1 DEF WriterHoldsLease, ReleaseLease
  <2>3. QED
    BY <1>5, <2>2
<1>6. CASE b # a
  <2>1. b \in SharedWriters(w) /\ mem[b].gen = 0
    BY <1>2, <1>3, <1>4, <1>6 DEF SharedWriters, Known
  <2>2. lease[w] = b
    BY <2>1 DEF WriterHoldsLease
  <2>3. lease'[w] = lease[w]
    BY <1>1, <1>6, <2>2 DEF ReleaseLease
  <2>4. QED
    BY <2>2, <2>3
<1>7. QED
  BY <1>5, <1>6

LEMMA AttemptKeepsLease ==
  ASSUME IInv, WriterHoldsLease, phase = "up", NEW a \in Agents, Known(a),
         NEW s, Legal(s, disk[a]), Attempt(a, s),
         \A i \in 1..Len(s) : Continues(mem[a], s[i].m)
  PROVE  WriterHoldsLease'
<1>1. PICK i \in 1..Len(s) : Apply(a, s[i])
  BY DEF Attempt, Legal
<1>2. s[i].m \in ScheduledAgent
  <2>1. Synced(s[i])
    BY <1>1 DEF Legal
  <2>2. QED
    BY <2>1, SyncedFields
<1>3. QED
  BY <1>1, <1>2, ApplyKeepsLease

LEMMA FinishContinues ==
  ASSUME NEW p, Synced(p), NEW status \in HandoffStatuses, NEW d,
         Legal(FinishStages(p, status), d)
  PROVE  \A i \in 1..Len(FinishStages(p, status)) :
            Continues(p.m, FinishStages(p, status)[i].m)
<1> DEFINE h == HandoffStep(p, status)
           t == LifecycleStep(h, TerminalStateFor(status), FALSE)
           s == FinishStages(p, status)
<1>1. s = <<p, h, t>>
  BY DEF FinishStages
<1>2. p.m \in ScheduledAgent /\ TerminalStateFor(status) \in Terminal
  BY SyncedFields, TerminalStates
<1>3. Continues(p.m, p.m) /\ Continues(p.m, h.m)
  BY <1>2, StepsContinue
<1> HIDE DEF h
<1>4. Synced(h)
  <2> HIDE DEF t, s
  <2>1. s[2] = h /\ 2 \in 1..Len(s)
    BY <1>1
  <2>2. Legal(s, d)
    BY DEF s
  <2>3. QED
    BY <2>1, <2>2 DEF Legal
<1>5. h.m \in ScheduledAgent
  BY <1>4, SyncedFields
<1>6. Continues(h.m, t.m)
  BY <1>2, <1>5, StepsContinue
<1> HIDE DEF t, s
<1>7. Continues(p.m, t.m)
  BY <1>3, <1>6, ContinuesFurther
<1>8. \A i \in 1..Len(s) : s[i] \in {p, h, t}
  BY <1>1
<1>9. \A i \in 1..Len(s) : Continues(p.m, s[i].m)
  BY <1>3, <1>7, <1>8
<1>10. QED
  BY <1>9 DEF s

LEMMA ResumeContinues ==
  ASSUME NEW p, Synced(p), p.d.pending # "none"
  PROVE  \A i \in 1..Len(ResumeStages(p)) : Continues(p.m, ResumeStages(p)[i].m)
<1> DEFINE t == LifecycleStep(p, TerminalStateFor(p.m.pending), FALSE)
<1>1. p.m \in ScheduledAgent /\ p.d \in DurableAgent /\ p.m.pending = p.d.pending
  BY SyncedFields
<1>2. TerminalStateFor(p.m.pending) \in Terminal
  BY <1>1, TerminalStates DEF DurableAgent, Handoffs
<1>3. Continues(p.m, p.m) /\ Continues(p.m, t.m)
  BY <1>1, <1>2, StepsContinue
<1>4. ResumeStages(p) = <<p, t>>
  BY DEF ResumeStages
<1> HIDE DEF t
<1>5. \A i \in 1..Len(<<p, t>>) : <<p, t>>[i] \in {p, t}
  OBVIOUS
<1>6. QED
  BY <1>3, <1>4, <1>5

LEMMA CloseContinues ==
  ASSUME NEW p, Synced(p), NEW op
  PROVE  \A i \in 1..Len(CloseStages(p, op)) : Continues(p.m, CloseStages(p, op)[i].m)
<1> DEFINE k == IF p.m.ops[op] = "started" THEN "unknown_after_crash" ELSE "failed"
           q == RuntimeStep(p, k, op)
<1>1. p.m \in ScheduledAgent
  BY SyncedFields
<1>2. Continues(p.m, p.m) /\ Continues(p.m, q.m)
  BY <1>1, StepsContinue
<1>3. CloseStages(p, op) = <<p, q>>
  BY DEF CloseStages
<1> HIDE DEF q
<1>4. \A i \in 1..Len(<<p, q>>) : <<p, q>>[i] \in {p, q}
  OBVIOUS
<1>5. QED
  BY <1>2, <1>3, <1>4

LEMMA FollowupContinues ==
  ASSUME NEW p, Synced(p), NEW caps, NEW d, Legal(FollowupStages(p, caps), d)
  PROVE  \A i \in 1..Len(FollowupStages(p, caps)) :
            Continues(p.m, FollowupStages(p, caps)[i].m)
<1> DEFINE f == FollowupStep(p, caps)
           q == LifecycleStep(f, "Queued", TRUE)
           s == FollowupStages(p, caps)
<1>1. s = <<p, f, q>>
  BY DEF FollowupStages
<1>2. p.m \in ScheduledAgent
  BY SyncedFields
<1>3. Continues(p.m, p.m) /\ Continues(p.m, f.m) /\ f.m.gen # 0
  BY <1>2, StepsContinue
<1> HIDE DEF f
<1>4. Synced(f)
  <2> HIDE DEF q, s
  <2>1. s[2] = f /\ 2 \in 1..Len(s)
    BY <1>1
  <2>2. Legal(s, d)
    BY DEF s
  <2>3. QED
    BY <2>1, <2>2 DEF Legal
<1>5. f.m \in ScheduledAgent
  BY <1>4, SyncedFields
<1>6. Continues(f.m, q.m)
  BY <1>3, <1>5, StepsContinue
<1> HIDE DEF q, s
<1>7. Continues(p.m, q.m)
  BY <1>3, <1>6, ContinuesFurther
<1>8. \A i \in 1..Len(s) : s[i] \in {p, f, q}
  BY <1>1
<1>9. \A i \in 1..Len(s) : Continues(p.m, s[i].m)
  BY <1>3, <1>7, <1>8
<1>10. QED
  BY <1>9 DEF s

(* A dispatched writer takes the lease, which nobody had.                      *)
LEMMA DispatchKeepsLease ==
  ASSUME IInv, WriterHoldsLease, NEW a \in Agents, NEW spec \in Specs, NEW caps,
         Dispatch(a, spec, caps)
  PROVE  WriterHoldsLease'
<1> DEFINE writer == CanWrite(caps) /\ spec.strategy = "shared"
           new == [spec |-> spec, caps |-> caps, state |-> "Queued", gen |-> 0,
                   authorized |-> FALSE, tip |-> NextEvent(FirstEvent),
                   pending |-> "none", ops |-> [o \in Operations |-> "absent"]]
<1>1. /\ phase = "up" /\ phase' = "up" /\ spec.workspace \in Workspaces
      /\ mem \in [Agents -> ScheduledAgent \cup {NoAgent}]
      /\ lease \in [Workspaces -> Agents \cup {NoAgent}]
      /\ writer => lease[spec.workspace] = NoAgent
  BY DEF Dispatch, Idle, Specs, IInv, StoreInv, TypeOK
<1>2. CASE UNCHANGED <<mem, lease>>
  BY <1>1, <1>2 DEF WriterHoldsLease, SharedWriters, Known
<1>3. CASE /\ mem' = [mem EXCEPT ![a] = new]
           /\ lease' = IF writer THEN [lease EXCEPT ![spec.workspace] = a] ELSE lease
  <2>1. mem'[a] = new /\ \A b \in Agents : b # a => mem'[b] = mem[b]
    BY <1>1, <1>3
  <2>2. new.spec = spec /\ new.caps = caps
    OBVIOUS
  <2> HIDE DEF new
  <2>3. SUFFICES ASSUME NEW w \in Workspaces, NEW b \in SharedWriters(w)', mem'[b].gen = 0
                 PROVE  lease'[w] = b
    BY DEF WriterHoldsLease
  <2>4. /\ b \in Agents /\ mem'[b] # NoAgent /\ mem'[b].state \notin Terminal
        /\ SharedWriter(mem'[b]) /\ mem'[b].spec.workspace = w
    BY <2>3 DEF SharedWriters, Known
  <2>5. CASE b = a
    <3>1. writer /\ w = spec.workspace
      BY <2>1, <2>2, <2>4, <2>5 DEF SharedWriter
    <3>2. QED
      BY <1>1, <1>3, <2>5, <3>1
  <2>6. CASE b # a
    <3>1. b \in SharedWriters(w) /\ mem[b].gen = 0
      BY <2>1, <2>3, <2>4, <2>6 DEF SharedWriters, Known
    <3>2. lease[w] = b /\ b # NoAgent
      <4>1. NoAgent \notin Agents
        BY SchedulerAssumption
      <4>2. QED
        BY <1>1, <2>4, <3>1, <4>1 DEF WriterHoldsLease
    <3>3. lease'[w] = lease[w]
      BY <1>1, <1>3, <3>2
    <3>4. QED
      BY <3>2, <3>3
  <2>7. QED
    BY <2>5, <2>6
<1>4. QED
  BY <1>2, <1>3 DEF Dispatch

LEMMA OperateKeepsLease ==
  ASSUME IInv, WriterHoldsLease, NEW a \in Agents, Operate(a)
  PROVE  WriterHoldsLease'
<1>1. phase = "up" /\ AgentInv(a)
  BY DEF IInv, StoreInv, Operate, Dispatch, BeginFollowup, Transition, Finish, Terminate,
     RecordRuntime, RecordProgress, Idle
<1>2. ASSUME Known(a)
      PROVE  /\ Synced(Now(a)) /\ Now(a).m = mem[a] /\ Now(a).d = disk[a]
             /\ mem[a] \in ScheduledAgent /\ mem[a].state = disk[a].state
  <2>1. Synced(Now(a)) /\ Now(a).m = mem[a] /\ Now(a).d = disk[a] /\ mem[a].state = disk[a].state
    BY <1>1, <1>2, NowSynced
  <2>2. Now(a).m \in ScheduledAgent
    BY <2>1, SyncedFields
  <2>3. QED
    BY <2>1, <2>2
<1>3. ASSUME NEW request \in Requests, Dispatch(a, request.spec, request.caps)
      PROVE  WriterHoldsLease'
  BY <1>3, DispatchKeepsLease, SchedulerAssumption
<1>4. ASSUME NEW caps \in SUBSET Capabilities, BeginFollowup(a, caps)
      PROVE  WriterHoldsLease'
  <2>1. Known(a) /\ Attempt(a, FollowupStages(Now(a), caps))
    BY <1>4 DEF BeginFollowup
  <2>2. Legal(FollowupStages(Now(a), caps), disk[a])
    <3>1. /\ disk[a].state \in {"Completed", "Interrupted"} /\ ~disk[a].authorized
          /\ caps # {} /\ caps \subseteq disk[a].caps
      BY <1>1, <1>4, <2>1, NowSynced DEF BeginFollowup
    <3>2. QED
      BY <1>2, <2>1, <3>1, FollowupStagesLegal
  <2>3. QED
    BY <1>1, <1>2, <2>1, <2>2, FollowupContinues, AttemptKeepsLease
<1>5. ASSUME NEW to \in Executing, Transition(a, to) PROVE WriterHoldsLease'
  <2> DEFINE q == LifecycleStep(Now(a), to, FALSE)
  <2>1. Known(a) /\ Apply(a, q) /\ ValidTransition(mem[a].state, to) /\ mem[a].pending = "none"
    BY <1>5 DEF Transition
  <2>2. mem[a].state \notin Terminal /\ disk[a].pending = "none"
    BY <1>1, <2>1, NowSynced DEF ValidTransition, Terminal, Waiting
  <2>3. Continues(mem[a], q.m)
    BY <1>2, <2>1, <2>2, StepsContinue
  <2>4. Synced(q)
    <3>1. to \in States /\ to \notin Terminal
      BY DEF States, Executing, Waiting, Terminal
    <3>2. QED
      BY <1>2, <2>1, <2>2, <3>1, LifecycleKeepsSync
  <2>5. q.m \in ScheduledAgent
    BY <2>4, SyncedFields
  <2>6. QED
    BY <1>1, <2>1, <2>3, <2>5, ApplyKeepsLease
<1>6. ASSUME NEW status \in HandoffStatuses, Finish(a, status) PROVE WriterHoldsLease'
  <2>1. /\ Known(a) /\ Attempt(a, FinishStages(Now(a), status))
        /\ ValidTransition(mem[a].state, TerminalStateFor(status))
        /\ mem[a].pending = "none" /\ OpenOperations(mem[a]) = {}
    BY <1>6 DEF Finish
  <2>2. Legal(FinishStages(Now(a), status), disk[a])
    <3>1. disk[a].pending = "none" /\ mem[a].ops = disk[a].ops
      BY <1>1, <2>1, NowSynced
    <3>2. OpenOperations(disk[a]) = {}
      BY <2>1, <3>1 DEF OpenOperations
    <3>3. QED
      BY <1>2, <2>1, <3>1, <3>2, FinishStagesLegal
  <2>3. QED
    BY <1>1, <1>2, <2>1, <2>2, FinishContinues, AttemptKeepsLease
<1>7. ASSUME NEW status \in HandoffStatuses \ {"completed"}, Terminate(a, status)
      PROVE  WriterHoldsLease'
  <2>1. Known(a) /\ EndConservatively(a, status)
    BY <1>7 DEF Terminate
  <2>2. CASE mem[a].pending # "none"
    <3>1. Attempt(a, ResumeStages(Now(a))) /\ disk[a].pending # "none"
      BY <1>1, <2>1, <2>2, NowSynced DEF EndConservatively
    <3>2. Legal(ResumeStages(Now(a)), disk[a])
      BY <1>2, <2>1, <3>1, ResumedHandoffLegal
    <3>3. QED
      BY <1>1, <1>2, <2>1, <3>1, <3>2, ResumeContinues, AttemptKeepsLease
  <2>3. CASE mem[a].pending = "none"
    <3>1. UNCHANGED <<mem, lease>>
      BY <2>1, <2>3 DEF EndConservatively
    <3>2. QED
      BY <1>1, <3>1 DEF WriterHoldsLease, SharedWriters, Known
  <2>4. QED
    BY <2>2, <2>3
<1>8. ASSUME NEW k, NEW op \in Operations, RecordRuntime(a, k, op) PROVE WriterHoldsLease'
  <2> DEFINE q == RuntimeStep(Now(a), k, op)
  <2>1. /\ Known(a) /\ Apply(a, q) /\ OperationStep(k, mem[a].ops[op]) # "refused"
    BY <1>8 DEF RecordRuntime, LoopAttached
  <2>2. Continues(mem[a], q.m)
    BY <1>2, <2>1, StepsContinue
  <2>3. q.m \in ScheduledAgent
    <3>1. OperationStep(k, mem[a].ops[op]) \in OperationStates
      BY <2>1, OperationStepType
    <3>2. NextEvent(mem[a].tip) \in EventIds
      BY <1>2, <2>1, NextEventType DEF ScheduledAgent
    <3>3. q.m = [mem[a] EXCEPT !.ops[op] = OperationStep(k, mem[a].ops[op]),
                               !.tip = NextEvent(mem[a].tip)]
      BY <1>2, <2>1 DEF RuntimeStep, ScheduledAgent
    <3> DEFINE ops == [mem[a].ops EXCEPT ![op] = OperationStep(k, mem[a].ops[op])]
               tip == NextEvent(mem[a].tip)
    <3>4. mem[a] \in ScheduledAgent /\ q.m = [mem[a] EXCEPT !.ops = ops, !.tip = tip]
      BY <1>2, <2>1, <3>3 DEF ScheduledAgent
    <3>5. ops \in [Operations -> OperationStates] /\ tip \in EventIds
      BY <3>1, <3>2, <3>4 DEF ScheduledAgent
    <3> HIDE DEF ops, tip, q
    <3>6. QED
      BY <3>4, <3>5 DEF ScheduledAgent
  <2>4. QED
    BY <1>1, <2>1, <2>2, <2>3, ApplyKeepsLease
<1>9. ASSUME RecordProgress(a) PROVE WriterHoldsLease'
  <2> DEFINE q == ProgressStep(Now(a))
  <2>1. Known(a) /\ Apply(a, q)
    BY <1>9 DEF RecordProgress, LoopAttached
  <2>2. Continues(mem[a], q.m)
    BY <1>2, <2>1, StepsContinue
  <2>3. q.m \in ScheduledAgent
    <3>1. NextEvent(mem[a].tip) \in EventIds
      BY <1>2, <2>1, NextEventType DEF ScheduledAgent
    <3>2. q.m = [mem[a] EXCEPT !.tip = NextEvent(mem[a].tip)]
      BY <1>2, <2>1 DEF ProgressStep, ScheduledAgent
    <3>3. QED
      BY <1>2, <2>1, <3>1, <3>2 DEF ScheduledAgent
  <2>4. QED
    BY <1>1, <2>1, <2>2, <2>3, ApplyKeepsLease
<1>10. QED
  BY <1>3, <1>4, <1>5, <1>6, <1>7, <1>8, <1>9 DEF Operate

LEMMA EndKeepsLease ==
  ASSUME IInv, WriterHoldsLease, End
  PROVE  WriterHoldsLease'
<1> DEFINE a == ending.agent
<1>1. ending # NoAgent
  BY DEF End, CloseOperation, EndWithHandoff
<1>2. /\ ending \in Endings /\ a \in Agents /\ Known(a)
      /\ Synced(Now(a)) /\ Now(a).d = disk[a] /\ Now(a).m = mem[a]
      /\ disk[a].state \notin Terminal /\ disk[a].pending = "none"
      /\ ending.open = OpenOperations(Now(a).m)
      /\ OpenOperations(disk[a]) = OpenOperations(mem[a])
      /\ ending.open = {} =>
           ValidTransition(disk[a].state, TerminalStateFor(ending.status))
  BY <1>1, EndingSynced DEF IInv
<1>3. CASE phase # "up"
  <2>1. phase' # "up"
    BY <1>3 DEF End, CloseOperation, EndWithHandoff, Attempt, Drop
  <2>2. QED
    BY <2>1 DEF WriterHoldsLease
<1>4. ASSUME phase = "up", NEW op \in Operations, CloseOperation(op)
      PROVE  WriterHoldsLease'
  <2>1. op \in ending.open /\ Attempt(a, CloseStages(Now(a), op))
    BY <1>4 DEF CloseOperation
  <2>2. Legal(CloseStages(Now(a), op), disk[a])
    BY <1>2, <2>1, CloseStagesLegal
  <2>3. QED
    BY <1>2, <1>4, <2>1, <2>2, CloseContinues, AttemptKeepsLease
<1>5. ASSUME phase = "up", EndWithHandoff PROVE WriterHoldsLease'
  <2>1. ending.open = {} /\ Attempt(a, FinishStages(Now(a), ending.status))
    BY <1>5 DEF EndWithHandoff
  <2>2. ending.status \in HandoffStatuses
    BY <1>2 DEF Endings
  <2>3. Legal(FinishStages(Now(a), ending.status), disk[a])
    BY <1>2, <2>1, <2>2, FinishStagesLegal
  <2>4. QED
    BY <1>2, <1>5, <2>1, <2>2, <2>3, FinishContinues, AttemptKeepsLease
<1>6. QED
  BY <1>3, <1>4, <1>5 DEF End

(* WriterHoldsLease: it needs IInv only for what memory holds of a running      *)
(* scheduler; a restart rebuilds the leases from memory.                       *)
THEOREM LeasesAreHeld == Spec => []WriterHoldsLease
<1>1. Init => WriterHoldsLease
  BY DEF Init, WriterHoldsLease, SharedWriters, Known
<1>2. ASSUME IInv, WriterHoldsLease, [Next]_vars PROVE WriterHoldsLease'
  <2>1. CASE \E a \in Agents : Operate(a)
    BY <1>2, <2>1, OperateKeepsLease
  <2>2. CASE phase' # "up"
    BY <2>2 DEF WriterHoldsLease
  <2>3. CASE \E a \in Agents : Recover(a)
    <3>1. PICK a \in Agents : Recover(a)
      BY <2>3
    <3>2. phase # "up"
      BY <3>1 DEF Recover, RecoverHandoff, RecoverFollowup, RecoverInFlight, RecoverRoute,
         Handles
    <3>3. phase' # "up"
      BY <3>1, <3>2 DEF Recover, RecoverHandoff, RecoverFollowup, RecoverInFlight,
         RecoverRoute, EndConservatively, Attempt, Drop
    <3>4. QED
      BY <2>2, <3>3
  <2>4. CASE Recovered
    <3>1. SUFFICES ASSUME NEW w \in Workspaces, NEW b \in SharedWriters(w)'
                   PROVE  lease'[w] = b
      BY DEF WriterHoldsLease
    <3>2. b \in SharedWriters(w) /\ OneWriter(w)
      BY <2>4, <3>1 DEF Recovered, SharedWriters, Known
    <3>3. (CHOOSE a \in SharedWriters(w) : TRUE) = b
      BY <3>2 DEF OneWriter
    <3>4. QED
      BY <2>4, <3>2, <3>3 DEF Recovered
  <2>5. CASE UNCHANGED vars
    BY <1>2, <2>5 DEF vars, WriterHoldsLease, SharedWriters, Known
  <2>6. CASE Stop \/ Rehydrate \/ NextPass \/ Refused
    BY <2>2, <2>6 DEF Stop, Rehydrate, NextPass, PassAfter, Refused, Drop
  <2>7. CASE End
    BY <1>2, <2>7, EndKeepsLease
  <2>8. QED
    BY <1>2, <2>1, <2>3, <2>4, <2>5, <2>6, <2>7 DEF Next
<1>3. QED
  BY <1>1, <1>2, Invariance, PTL DEF Spec

-----------------------------------------------------------------------------
(* The refinement. *)

OneAtATime ==
    \E a \in Agents : \A b \in Agents : b # a => disk'[b] = disk[b]

(* A step appends to the events of one agent at most. *)
LEMMA StepsOneAtATime ==
  ASSUME IInv, [Next]_vars
  PROVE  disk' = disk \/ OneAtATime
<1>1. ASSUME NEW a, NEW s, Attempt(a, s) PROVE disk' = disk \/ \E d : disk' = [disk EXCEPT ![a] = d]
  BY <1>1 DEF Attempt, Apply
<1>2. ASSUME NEW a \in Agents, \E d : disk' = [disk EXCEPT ![a] = d] PROVE OneAtATime
  BY <1>2 DEF OneAtATime, IInv, StoreInv, TypeOK
<1>3. ASSUME NEW a \in Agents, Operate(a) \/ Recover(a) PROVE disk' = disk \/ OneAtATime
  <2>1. disk' = disk \/ \E d : disk' = [disk EXCEPT ![a] = d]
    BY <1>1, <1>3 DEF Operate, Recover, Dispatch, BeginFollowup, Transition, Finish, Terminate,
       RecordRuntime, RecordProgress, RecoverHandoff, RecoverFollowup, RecoverInFlight,
       RecoverRoute, EndConservatively, Apply
  <2>2. QED
    BY <1>2, <2>1
<1>4. CASE End
  <2>1. ending.agent \in Agents
    BY <1>4 DEF End, CloseOperation, EndWithHandoff, IInv, StoreInv, TypeOK, Endings
  <2>2. disk' = disk \/ \E d : disk' = [disk EXCEPT ![ending.agent] = d]
    BY <1>1, <1>4 DEF End, CloseOperation, EndWithHandoff
  <2>3. QED
    BY <1>2, <2>1, <2>2
<1>5. CASE Stop \/ Rehydrate \/ NextPass \/ Recovered \/ Refused \/ UNCHANGED vars
  BY <1>5 DEF Stop, Rehydrate, NextPass, Recovered, Refused, vars
<1>6. QED
  BY <1>3, <1>4, <1>5 DEF Next

(* Nothing dispatched is no turn. *)
LEMMA InitTurns == Init => Turns!Init
  BY DEF Init, Turns!Init, TurnNumber, TurnStatus, TurnResult, Placed

(* A legal change of the log is a step of its turns. *)
LEMMA StepTurns ==
  ASSUME IInv, IInv', DiskAdvances, disk' = disk \/ OneAtATime
  PROVE  [Turns!Next]_(Turns!vars)
<1>1. CASE disk' = disk
  BY <1>1 DEF Turns!vars
<1>2. ASSUME NEW a \in Agents, \A b \in Agents : b # a => disk'[b] = disk[b]
      PROVE  [Turns!Next]_(Turns!vars)
  <2>1. ASSUME NEW n, NEW st, NEW r, Turn(disk'[a]) = <<n, st, r>>
        PROVE  Turns!Become(a, n, st, r)
    <3>1. TurnNumber(disk'[a]) = n /\ TurnStatus(disk'[a]) = st /\ TurnResult(disk'[a]) = r
      BY <2>1 DEF Turn
    <3>2. QED
      BY <1>2, <3>1 DEF Turns!Become
  <2>2. ASSUME Turn(disk'[a]) = Turn(disk[a]) PROVE UNCHANGED Turns!vars
    <3>1. /\ TurnNumber(disk'[a]) = TurnNumber(disk[a])
          /\ TurnStatus(disk'[a]) = TurnStatus(disk[a])
          /\ TurnResult(disk'[a]) = TurnResult(disk[a])
      BY <2>2 DEF Turn
    <3>2. QED
      BY <1>2, <3>1 DEF Turns!vars
  <2>3. ASSUME NEW n, NEW st, NEW r, Turn(disk[a]) = <<n, st, r>>
        PROVE  TurnNumber(disk[a]) = n /\ TurnStatus(disk[a]) = st /\ TurnResult(disk[a]) = r
    BY <2>3 DEF Turn
  <2>4. CASE disk[a] = NoAgent
    <3>1. CASE disk'[a] = NoAgent
      BY <2>2, <2>4, <3>1
    <3>2. CASE Turn(disk'[a]) = <<0, "open", "none">>
      <4>1. TurnStatus(disk[a]) = "absent"
        BY <2>4 DEF TurnStatus, Placed
      <4>2. Turns!Admit(a)
        BY <2>1, <3>2, <4>1 DEF Turns!Admit
      <4>3. QED
        BY <4>2 DEF Turns!Next
    <3>3. QED
      BY <2>4, <3>1, <3>2 DEF DiskAdvances
  <2>5. CASE disk[a] # NoAgent
    <3>1. TurnMoves(disk[a], disk'[a])
      BY <2>5 DEF DiskAdvances, Advances
    <3>2. CASE Turn(disk'[a]) = Turn(disk[a])
      BY <2>2, <3>2
    <3>3. ASSUME NEW r \in HandoffStatuses, Turn(disk[a]) = <<disk[a].gen, "open", "none">>,
                 Turn(disk'[a]) \in {<<disk[a].gen, "reported", r>>,
                                     <<disk[a].gen, "settled", r>>}
          PROVE  Turns!Next
      <4>1. Turns!Report(a, r) \/ Turns!Settle(a, r)
        BY <2>1, <2>3, <3>3 DEF Turns!Report, Turns!Settle
      <4>2. QED
        BY <4>1 DEF Turns!Next, Turns!Results, HandoffStatuses
    <3>4. ASSUME NEW r \in HandoffStatuses, Turn(disk[a]) = <<disk[a].gen, "reported", r>>,
                 Turn(disk'[a]) = <<disk[a].gen, "settled", r>>
          PROVE  Turns!Next
      <4>1. Turns!Settle(a, r)
        BY <2>1, <2>3, <3>4 DEF Turns!Settle
      <4>2. QED
        BY <4>1 DEF Turns!Next, Turns!Results, HandoffStatuses
    <3>5. ASSUME NEW r \in HandoffStatuses, r # "failed",
                 Turn(disk[a]) = <<disk[a].gen, "settled", r>>,
                 Turn(disk'[a]) \in {<<disk[a].gen + 1, "reopening", "none">>,
                                     <<disk[a].gen + 1, "open", "none">>}
          PROVE  Turns!Next
      <4>1. Turns!Reopen(a)
        BY <2>1, <2>3, <3>5 DEF Turns!Reopen
      <4>2. QED
        BY <4>1 DEF Turns!Next
    <3>6. ASSUME Turn(disk[a]) = <<disk[a].gen, "reopening", "none">>,
                 Turn(disk'[a]) = <<disk[a].gen, "open", "none">>
          PROVE  Turns!Next
      <4>1. Turns!Resume(a)
        BY <2>1, <2>3, <3>6 DEF Turns!Resume
      <4>2. QED
        BY <4>1 DEF Turns!Next
    <3>7. QED
      BY <3>1, <3>2, <3>3, <3>4, <3>5, <3>6 DEF TurnMoves
  <2>6. QED
    BY <2>4, <2>5
<1>3. QED
  BY <1>1, <1>2 DEF OneAtATime

(* ImplementsTurns: the log reads as turns that have one result each.          *)
THEOREM RefinesTurns == Spec => ImplementsTurns
<1>1. IInv /\ IInv' /\ DiskAdvances /\ [Next]_vars => [Turns!Next]_(Turns!vars)
  BY StepsOneAtATime, StepTurns
<1>2. QED
  BY Invariance, InitTurns, StepInv, <1>1, PTL DEF ImplementsTurns, Spec, Turns!Spec
=============================================================================
