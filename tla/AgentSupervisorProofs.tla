------------------------- MODULE AgentSupervisorProofs -------------------------
(***************************************************************************)
(* Theorems about AgentSupervisor, for any tree of agents, any number of      *)
(* permits, interrupts and observers.                                        *)
(*                                                                          *)
(* SlotsBoundLoops is an account: a permit is free, or in a drain's hand, or  *)
(* held by the task of a turn, and a wait has given one away that it or a     *)
(* debt owes (Accounts).                                                     *)
(*                                                                          *)
(* StartedIsLive, InterruptStopsAll and NoLostIdleWakeup are about one turn at *)
(* a time: the task of a turn keeps its agent in the live map until it leaves, *)
(* and no other turn of the agent begins before that (Lives).  One step can    *)
(* end this, StaleFollowup, and a second one may lose a wakeup, TellingFails.  *)
(* The theorems assume neither away: they say that a run in which the property *)
(* fails is one in which such a step is taken.                                *)
(***************************************************************************)
EXTENDS AgentSupervisor, FiniteSetTheorems, TLAPS

-----------------------------------------------------------------------------
(* The account of permits. *)

HoldingIn(tasks) == {t \in Turns : tasks[t[1]][t[2]] # "none"}
YieldedIn(w) == {a \in Agents : w[a] # "no"}
InHand == IF drain.at = "permit" THEN 1 ELSE 0

Accounts ==
    /\ IsFiniteSet(HoldingIn(task)) /\ IsFiniteSet(YieldedIn(waits))
    /\ permits + Cardinality(HoldingIn(task)) + InHand
         = MaxConcurrent + debts + Cardinality(YieldedIn(waits))

(* A turn that has not started has no task, nor has a later one. *)
TurnsAreFresh ==
    \A a \in Agents, g \in Generations :
        \/ g > agent[a].gen
        \/ g = agent[a].gen /\ agent[a].state \in {"absent", "Queued"}
        => task[a][g] = "none"

DrainHasTask ==
    drain.at = "publish" =>
        drain.agent \in Agents /\ \E g \in Generations : task[drain.agent][g] = "gated"

WaitersRun ==
    \A a \in Agents : waits[a] # "no" => \E g \in Generations : task[a][g] = "running"

IInv == TypeOK /\ TurnsAreFresh /\ DrainHasTask /\ WaitersRun /\ Accounts

-----------------------------------------------------------------------------
(* One turn at a time. *)

(* An interrupt returns an error before it has told the parents, or the         *)
(* observers, of all that it has ended.                                        *)
TellingFails ==
    \E i \in Interrupters, t \in Turns : TellInterrupted(i, t) /\ Fault

Entered == {"running", "failed", "settled", "leaving"}

LiveIsTask(a) ==
    /\ live[a] # NoTurn => live[a] = agent[a].gen
    /\ agent[a].state \in {"absent", "Queued"} => live[a] = NoTurn
    /\ \A g \in Generations :
          /\ task[a][g] \in Entered => live[a] = g
          /\ task[a][g] = "gated" =>
                /\ g = agent[a].gen /\ live[a] = NoTurn
                /\ drain = [at |-> "publish", agent |-> a] /\ liveLock = "drain"

ExecutingHasTask(a) ==
    agent[a].state \in Executing =>
        \/ task[a][agent[a].gen] \in {"gated", "running", "failed"}
        \/ parked[a] = agent[a].gen

LockIsHeld == \A i \in Interrupters : interrupter[i].at = "pass" => liveLock = i

Lives ==
    /\ \A a \in Agents : LiveIsTask(a) /\ ExecutingHasTask(a)
    /\ LockIsHeld

(* What an interrupt set out to stop and has passed over stays stopped. *)
Stopped(t) == Settled(t[1]) \/ t \in cancelled \/ agent[t[1]].gen # t[2]

GoalIsRight(i) ==
    interrupter[i].at \in {"asked", "pass"} =>
        \A t \in interrupter[i].goal :
            t[2] <= agent[t[1]].gen /\ (t[1] \in interrupter[i].todo \/ Stopped(t))

Goals == \A i \in Interrupters : GoalIsRight(i)

(* An observer that decided to sleep is awake to what has changed since. *)
WakerIsThere ==
    \/ \E t \in Turns : task[t[1]][t[2]] = "freeing"
    \/ \E i \in Interrupters : interrupter[i].at \in {"pass", "tell"}

Watched ==
    \A o \in Observers :
        idle[o].at \in {"busy", "asleep"} /\ ~idle[o].woken /\ RunIdle => WakerIsThere

TurnInv == IInv /\ Lives /\ Goals
-----------------------------------------------------------------------------
(* What the parts of an operation do. *)

LEMMA NoTurnIsNone == NoTurn \notin Generations /\ Generations \subseteq Nat
  BY SupervisorAssumption DEF Generations

(* To settle an agent is to end the turn it is in. *)
LEMMA SettleIs ==
  ASSUME NEW s \in AgentStatus, NEW to \in Terminal
  PROVE  LET r == Settle(s, to)
         IN  /\ r \in AgentStatus /\ r.state \in Terminal /\ r.gen = s.gen
             /\ r.authorized = s.authorized
<1>1. (IF s.handed = "no" THEN to ELSE s.handed) \in Terminal
  BY DEF AgentStatus
<1>2. "no" \in Terminal \cup {"no"} /\ Terminal \subseteq States
  BY DEF States
<1>3. QED
  BY <1>1, <1>2 DEF Settle, AgentStatus

LEMMA UnfinishedIs ==
  ASSUME NEW s \in AgentStatus, NEW to \in Terminal, NEW r \in Unfinished(s, to)
  PROVE  r \in AgentStatus /\ r.state = s.state /\ r.gen = s.gen /\ r.authorized = s.authorized
<1>1. (IF s.handed = "no" THEN to ELSE s.handed) \in Terminal
  BY DEF AgentStatus
<1>2. QED
  BY <1>1 DEF Unfinished, AgentStatus

(* How a step may treat the agents: turns never go back, and none is queued. *)
AgentsMove(ag) ==
    /\ ag \in [Agents -> AgentStatus]
    /\ \A a \in Agents :
          /\ ag[a].gen = agent[a].gen
          /\ \/ ag[a].state = agent[a].state
             \/ ag[a].state \in Terminal /\ ~Settled(a)

LEMMA AfterSettleIs ==
  ASSUME TypeOK, NEW F \in SUBSET Parked
  PROVE  LET s == AfterSettle(F)
         IN  /\ AgentsMove(s.agent)
             /\ \A a \in Agents : a \notin Rescued(F) => s.agent[a] = agent[a]
             /\ \A a \in Rescued(F) : s.agent[a].state \in Terminal
             /\ s.queue \in [Agents -> SUBSET Agents]
             /\ s.parked \in [Agents -> Generations \cup {NoTurn}]
             /\ \A a \in Agents : s.parked[a] = IF a \in F THEN parked[a] ELSE NoTurn
             /\ told \subseteq s.told /\ s.told \subseteq Turns
             /\ Rescued(F) \subseteq Agents
<1> DEFINE s == AfterSettle(F)
<1>1. /\ agent \in [Agents -> AgentStatus] /\ queue \in [Agents -> SUBSET Agents]
      /\ parked \in [Agents -> Generations \cup {NoTurn}] /\ told \subseteq Turns
  BY DEF TypeOK
<1>2. Rescued(F) \subseteq Agents /\ F \subseteq Agents /\ \A a \in Rescued(F) : ~Settled(a)
  BY DEF Rescued, Parked
<1>3. \A a \in Agents :
         s.agent[a] = IF a \in Rescued(F) THEN Settle(agent[a], "Failed") ELSE agent[a]
  BY DEF AfterSettle
<1>4. "Failed" \in Terminal
  BY DEF Terminal
<1>5. \A a \in Rescued(F) :
         /\ s.agent[a] \in AgentStatus /\ s.agent[a].state \in Terminal
         /\ s.agent[a].gen = agent[a].gen
  BY <1>1, <1>2, <1>3, <1>4, SettleIs
<1>6. s.agent \in [Agents -> AgentStatus]
  <2>1. s.agent = [a \in Agents |-> IF a \in Rescued(F) THEN Settle(agent[a], "Failed")
                                    ELSE agent[a]]
    BY DEF AfterSettle
  <2>2. \A a \in Agents : (IF a \in Rescued(F) THEN Settle(agent[a], "Failed")
                           ELSE agent[a]) \in AgentStatus
    BY <1>1, <1>3, <1>5
  <2>3. QED
    BY <2>1, <2>2
<1>7. AgentsMove(s.agent)
  BY <1>1, <1>2, <1>3, <1>5, <1>6 DEF AgentsMove
<1>8. s.queue \in [Agents -> SUBSET Agents]
  BY <1>1 DEF AfterSettle, Without
<1>9. /\ s.parked \in [Agents -> Generations \cup {NoTurn}]
      /\ \A a \in Agents : s.parked[a] = IF a \in F THEN parked[a] ELSE NoTurn
  BY <1>1 DEF AfterSettle
<1>10. told \subseteq s.told /\ s.told \subseteq Turns
  <2>1. \A a \in Rescued(F) : <<a, agent[a].gen>> \in Turns
    BY <1>1, <1>2 DEF AgentStatus, Turns
  <2>2. s.told = told \cup {<<a, agent[a].gen>> : a \in Rescued(F)}
    BY DEF AfterSettle
  <2>3. QED
    BY <1>1, <2>1, <2>2
<1>11. QED
  BY <1>2, <1>3, <1>5, <1>7, <1>8, <1>9, <1>10

IdleStatus == [at : {"off", "armed", "read", "busy", "asleep"}, woken : BOOLEAN]

LEMMA WokenIs ==
  ASSUME idle \in [Observers -> IdleStatus]
  PROVE  /\ Woken \in [Observers -> IdleStatus]
         /\ \A o \in Observers :
               Woken[o].at = idle[o].at /\ (idle[o].at # "off" => Woken[o].woken)
<1>1. ASSUME NEW o \in Observers
      PROVE  /\ [idle[o] EXCEPT !.woken = idle[o].woken \/ idle[o].at # "off"] \in IdleStatus
             /\ [idle[o] EXCEPT !.woken = idle[o].woken \/ idle[o].at # "off"].at = idle[o].at
             /\ [idle[o] EXCEPT !.woken = idle[o].woken \/ idle[o].at # "off"].woken
                  = (idle[o].woken \/ idle[o].at # "off")
  <2> DEFINE b == idle[o].woken \/ idle[o].at # "off"
  <2>1. b \in BOOLEAN
    OBVIOUS
  <2> HIDE DEF b
  <2>2. /\ [idle[o] EXCEPT !.woken = b] \in IdleStatus
        /\ [idle[o] EXCEPT !.woken = b].at = idle[o].at
        /\ [idle[o] EXCEPT !.woken = b].woken = b
    BY <2>1 DEF IdleStatus
  <2>3. QED
    BY <2>2 DEF b
<1>2. QED
  BY <1>1 DEF Woken

-----------------------------------------------------------------------------
(* Accounting. *)

WaitStates == {"no", "waiting", "resuming"}

LEMMA YieldedOneLess ==
  ASSUME NEW w \in [Agents -> WaitStates], NEW a \in Agents, w[a] # "no",
         IsFiniteSet(YieldedIn(w))
  PROVE  LET v == [w EXCEPT ![a] = "no"]
         IN  /\ v \in [Agents -> WaitStates] /\ IsFiniteSet(YieldedIn(v))
             /\ Cardinality(YieldedIn(v)) \in Nat /\ Cardinality(YieldedIn(w)) \in Nat
             /\ Cardinality(YieldedIn(v)) + 1 = Cardinality(YieldedIn(w))
<1> DEFINE v == [w EXCEPT ![a] = "no"]
<1>1. v \in [Agents -> WaitStates] /\ YieldedIn(v) = YieldedIn(w) \ {a} /\ a \in YieldedIn(w)
  BY DEF YieldedIn, WaitStates
<1>2. /\ IsFiniteSet(YieldedIn(w) \ {a})
      /\ Cardinality(YieldedIn(w) \ {a}) = Cardinality(YieldedIn(w)) - 1
  BY <1>1, FS_RemoveElement
<1>3. Cardinality(YieldedIn(w)) \in Nat /\ Cardinality(YieldedIn(w) \ {a}) \in Nat
  BY <1>2, FS_CardinalityType
<1> HIDE DEF v
<1>4. /\ v \in [Agents -> WaitStates] /\ IsFiniteSet(YieldedIn(v))
      /\ Cardinality(YieldedIn(v)) \in Nat
      /\ Cardinality(YieldedIn(v)) + 1 = Cardinality(YieldedIn(w))
  BY <1>1, <1>2, <1>3
<1>5. QED
  BY <1>3, <1>4 DEF v

LEMMA YieldedOneMore ==
  ASSUME NEW w \in [Agents -> WaitStates], NEW a \in Agents, w[a] = "no",
         IsFiniteSet(YieldedIn(w))
  PROVE  LET v == [w EXCEPT ![a] = "waiting"]
         IN  /\ v \in [Agents -> WaitStates] /\ IsFiniteSet(YieldedIn(v))
             /\ Cardinality(YieldedIn(v)) \in Nat /\ Cardinality(YieldedIn(w)) \in Nat
             /\ Cardinality(YieldedIn(v)) = Cardinality(YieldedIn(w)) + 1
<1> DEFINE v == [w EXCEPT ![a] = "waiting"]
<1>1. v \in [Agents -> WaitStates] /\ YieldedIn(v) = YieldedIn(w) \cup {a} /\ a \notin YieldedIn(w)
  BY DEF YieldedIn, WaitStates
<1>2. /\ IsFiniteSet(YieldedIn(w) \cup {a})
      /\ Cardinality(YieldedIn(w) \cup {a}) = Cardinality(YieldedIn(w)) + 1
  BY <1>1, FS_AddElement
<1>3. Cardinality(YieldedIn(w)) \in Nat /\ Cardinality(YieldedIn(w) \cup {a}) \in Nat
  BY <1>2, FS_CardinalityType
<1>4. QED
  BY <1>1, <1>2, <1>3

(* A permit that is given back is free, or pays a wait or a debt. *)
LEMMA PermitAdded ==
  ASSUME NEW w \in [Agents -> WaitStates], IsFiniteSet(YieldedIn(w)),
         permits \in Nat, debts \in Nat, AddPermit(w)
  PROVE  /\ permits' \in Nat /\ debts' \in Nat /\ waits' \in [Agents -> WaitStates]
         /\ IsFiniteSet(YieldedIn(waits'))
         /\ permits' + debts + Cardinality(YieldedIn(w))
              = permits + 1 + debts' + Cardinality(YieldedIn(waits'))
         /\ \A a \in Agents : waits'[a] # "no" => w[a] # "no"
         /\ Cardinality(YieldedIn(w)) \in Nat /\ Cardinality(YieldedIn(waits')) \in Nat
<1>1. Cardinality(YieldedIn(w)) \in Nat
  BY FS_CardinalityType
<1>2. CASE \E a \in Agents : /\ w[a] = "resuming"
                             /\ waits' = [w EXCEPT ![a] = "no"]
                             /\ UNCHANGED <<permits, debts>>
  <2>1. PICK a \in Agents : /\ w[a] = "resuming"
                            /\ waits' = [w EXCEPT ![a] = "no"]
                            /\ permits' = permits /\ debts' = debts
    BY <1>2
  <2> DEFINE v == [w EXCEPT ![a] = "no"]
  <2>2. /\ v \in [Agents -> WaitStates] /\ IsFiniteSet(YieldedIn(v))
        /\ Cardinality(YieldedIn(v)) \in Nat
        /\ Cardinality(YieldedIn(v)) + 1 = Cardinality(YieldedIn(w))
    BY <2>1, YieldedOneLess
  <2>3. \A b \in Agents : v[b] # "no" => w[b] # "no"
    OBVIOUS
  <2>4. waits' = v
    BY <2>1
  <2> HIDE DEF v
  <2>5. /\ waits' \in [Agents -> WaitStates] /\ IsFiniteSet(YieldedIn(waits'))
        /\ Cardinality(YieldedIn(waits')) \in Nat
        /\ Cardinality(YieldedIn(waits')) + 1 = Cardinality(YieldedIn(w))
    BY <2>2, <2>4
  <2>6. \A b \in Agents : waits'[b] # "no" => w[b] # "no"
    BY <2>3, <2>4
  <2>7. permits' + debts + Cardinality(YieldedIn(w))
          = permits + 1 + debts' + Cardinality(YieldedIn(waits'))
    BY <1>1, <2>1, <2>5
  <2>8. QED
    BY <1>1, <2>1, <2>5, <2>6, <2>7
<1>3. CASE debts > 0 /\ debts' = debts - 1 /\ waits' = w /\ UNCHANGED permits
  BY <1>1, <1>3
<1>4. CASE /\ debts = 0 /\ \A a \in Agents : w[a] # "resuming"
           /\ permits' = permits + 1 /\ waits' = w /\ UNCHANGED debts
  BY <1>1, <1>4
<1>5. QED
  BY <1>2, <1>3, <1>4 DEF AddPermit

(* A wait that is dropped takes its permit back or owes it. *)
LEMMA SlotDropped ==
  ASSUME waits \in [Agents -> WaitStates], IsFiniteSet(YieldedIn(waits)),
         permits \in Nat, debts \in Nat, NEW a \in Agents, DropSlot(a)
  PROVE  /\ permits' \in Nat /\ debts' \in Nat /\ waits' \in [Agents -> WaitStates]
         /\ IsFiniteSet(YieldedIn(waits'))
         /\ permits' + debts + Cardinality(YieldedIn(waits))
              = permits + debts' + Cardinality(YieldedIn(waits'))
         /\ waits'[a] = "no" /\ \A b \in Agents : waits'[b] # "no" => waits[b] # "no"
         /\ Cardinality(YieldedIn(waits)) \in Nat /\ Cardinality(YieldedIn(waits')) \in Nat
<1>1. Cardinality(YieldedIn(waits)) \in Nat
  BY FS_CardinalityType
<1>2. CASE waits[a] = "no"
  <2>1. permits' = permits /\ debts' = debts /\ waits' = waits
    BY <1>2 DEF DropSlot, slots
  <2>2. QED
    BY <1>1, <1>2, <2>1
<1>3. CASE waits[a] # "no"
  <2> DEFINE v == [waits EXCEPT ![a] = "no"]
  <2>1. /\ waits' = v
        /\ \/ permits > 0 /\ permits' = permits - 1 /\ debts' = debts
           \/ debts' = debts + 1 /\ permits' = permits
    BY <1>3 DEF DropSlot
  <2>2. /\ v \in [Agents -> WaitStates] /\ IsFiniteSet(YieldedIn(v))
        /\ Cardinality(YieldedIn(v)) \in Nat
        /\ Cardinality(YieldedIn(v)) + 1 = Cardinality(YieldedIn(waits))
    BY <1>3, YieldedOneLess
  <2>3. v[a] = "no" /\ \A b \in Agents : v[b] # "no" => waits[b] # "no"
    OBVIOUS
  <2> HIDE DEF v
  <2>4. QED
    BY <1>1, <2>1, <2>2, <2>3
<1>4. QED
  BY <1>2, <1>3

TaskFunctions == [Agents -> [Generations -> TaskStates]]

LEMMA HoldingKept ==
  ASSUME NEW k, NEW l,
         \A b \in Agents, h \in Generations : l[b][h] # "none" <=> k[b][h] # "none"
  PROVE  HoldingIn(l) = HoldingIn(k)
<1>1. \A t \in Turns : t[1] \in Agents /\ t[2] \in Generations
  BY DEF Turns
<1>2. QED
  BY <1>1 DEF HoldingIn

LEMMA HoldingOneMore ==
  ASSUME NEW k \in TaskFunctions, NEW a \in Agents, NEW g \in Generations, NEW at \in TaskStates,
         k[a][g] = "none", at # "none", IsFiniteSet(HoldingIn(k))
  PROVE  LET l == [k EXCEPT ![a][g] = at]
         IN  /\ IsFiniteSet(HoldingIn(l)) /\ Cardinality(HoldingIn(k)) \in Nat
             /\ Cardinality(HoldingIn(l)) = Cardinality(HoldingIn(k)) + 1
<1> DEFINE l == [k EXCEPT ![a][g] = at]
<1>1. \A b \in Agents, h \in Generations : l[b][h] = IF b = a /\ h = g THEN at ELSE k[b][h]
  BY DEF TaskFunctions
<1> HIDE DEF l
<1>2. \A t \in Turns : /\ t[1] \in Agents /\ t[2] \in Generations
                       /\ (t = <<a, g>> <=> t[1] = a /\ t[2] = g)
  BY DEF Turns
<1>3. <<a, g>> \in Turns /\ <<a, g>>[1] = a /\ <<a, g>>[2] = g
  BY DEF Turns
<1>4. HoldingIn(l) = HoldingIn(k) \cup {<<a, g>>} /\ <<a, g>> \notin HoldingIn(k)
  BY <1>1, <1>2, <1>3 DEF HoldingIn
<1>5. /\ IsFiniteSet(HoldingIn(k) \cup {<<a, g>>}) /\ Cardinality(HoldingIn(k)) \in Nat
      /\ Cardinality(HoldingIn(k) \cup {<<a, g>>}) = Cardinality(HoldingIn(k)) + 1
  BY <1>4, FS_AddElement, FS_CardinalityType
<1>6. QED
  BY <1>4, <1>5 DEF l

LEMMA HoldingOneLess ==
  ASSUME NEW k \in TaskFunctions, NEW a \in Agents, NEW g \in Generations,
         k[a][g] # "none", IsFiniteSet(HoldingIn(k))
  PROVE  LET l == [k EXCEPT ![a][g] = "none"]
         IN  /\ IsFiniteSet(HoldingIn(l)) /\ Cardinality(HoldingIn(l)) \in Nat
             /\ Cardinality(HoldingIn(l)) + 1 = Cardinality(HoldingIn(k))
<1> DEFINE l == [k EXCEPT ![a][g] = "none"]
<1>1. \A b \in Agents, h \in Generations : l[b][h] = IF b = a /\ h = g THEN "none" ELSE k[b][h]
  BY DEF TaskFunctions
<1> HIDE DEF l
<1>2. \A t \in Turns : /\ t[1] \in Agents /\ t[2] \in Generations
                       /\ (t = <<a, g>> <=> t[1] = a /\ t[2] = g)
  BY DEF Turns
<1>3. <<a, g>> \in Turns /\ <<a, g>>[1] = a /\ <<a, g>>[2] = g
  BY DEF Turns
<1>4. HoldingIn(l) = HoldingIn(k) \ {<<a, g>>} /\ <<a, g>> \in HoldingIn(k)
  BY <1>1, <1>2, <1>3 DEF HoldingIn
<1>5. /\ IsFiniteSet(HoldingIn(k) \ {<<a, g>>})
      /\ Cardinality(HoldingIn(k) \ {<<a, g>>}) = Cardinality(HoldingIn(k)) - 1
  BY <1>4, FS_RemoveElement
<1>6. Cardinality(HoldingIn(k) \ {<<a, g>>}) \in Nat /\ Cardinality(HoldingIn(k)) \in Nat
  BY <1>5, FS_CardinalityType
<1>7. /\ IsFiniteSet(HoldingIn(l)) /\ Cardinality(HoldingIn(l)) \in Nat
      /\ Cardinality(HoldingIn(l)) + 1 = Cardinality(HoldingIn(k))
  BY <1>4, <1>5, <1>6
<1>8. QED
  BY <1>7 DEF l

-----------------------------------------------------------------------------
(* Types. *)

DrainStatus == [at : {"off", "loop", "permit", "publish"}, agent : Agents \cup {NoAgent}]
InterruptStatus == [at : {"off", "asked", "pass", "tell"}, todo : SUBSET Agents,
                    ended : SUBSET Turns, goal : SUBSET Turns]

SchedulerType == agent \in [Agents -> AgentStatus] /\ queue \in [Agents -> SUBSET Agents]
TaskType ==
    /\ task \in TaskFunctions /\ live \in [Agents -> Generations \cup {NoTurn}]
    /\ cancelled \subseteq Turns /\ parked \in [Agents -> Generations \cup {NoTurn}]
    /\ told \subseteq Turns
SlotType == permits \in Nat /\ waits \in [Agents -> WaitStates] /\ debts \in Nat
DrainType ==
    /\ drain \in DrainStatus /\ drains \in Nat
    /\ liveLock \in {"free", "drain"} \cup Interrupters
CallType ==
    /\ interrupter \in [Interrupters -> InterruptStatus]
    /\ follower \in [Followers -> Agents \cup {NoAgent}]
    /\ idle \in [Observers -> IdleStatus] /\ faults \in 0..MaxFaults

LEMMA TypeParts == TypeOK <=> SchedulerType /\ TaskType /\ SlotType /\ DrainType /\ CallType
  BY DEF TypeOK, SchedulerType, TaskType, SlotType, DrainType, CallType, TaskFunctions,
         WaitStates, DrainStatus, InterruptStatus, IdleStatus

LEMMA FaultIs ==
  ASSUME faults \in 0..MaxFaults
  PROVE  /\ Fault => faults' \in 0..MaxFaults
         /\ \A F : MayFail(F) => faults' \in 0..MaxFaults
  BY SupervisorAssumption DEF Fault, MayFail

LEMMA EndsIs ==
  ASSUME SchedulerType, NEW a \in Agents, NEW to \in Terminal, Ends(a, to)
  PROVE  /\ SchedulerType' /\ agent'[a].state \in Terminal /\ agent'[a].gen = agent[a].gen
         /\ \A b \in Agents : b # a => agent'[b] = agent[b]
<1>1. /\ Settle(agent[a], to) \in AgentStatus /\ Settle(agent[a], to).state \in Terminal
      /\ Settle(agent[a], to).gen = agent[a].gen
  BY SettleIs DEF SchedulerType
<1>2. /\ agent' = [agent EXCEPT ![a] = Settle(agent[a], to)]
      /\ queue' = [b \in Agents |-> IF b \in {a} THEN {} ELSE queue[b] \ {a}]
  BY DEF Ends, Without
<1>3. queue' \in [Agents -> SUBSET Agents]
  BY <1>2 DEF SchedulerType
<1>4. QED
  BY <1>1, <1>2, <1>3 DEF SchedulerType

LEMMA FailsToEndIs ==
  ASSUME SchedulerType, NEW a \in Agents, NEW to \in Terminal, FailsToEnd(a, to)
  PROVE  /\ SchedulerType' /\ Fault
         /\ \A b \in Agents : agent'[b].state = agent[b].state /\ agent'[b].gen = agent[b].gen
<1>1. PICK s \in Unfinished(agent[a], to) : agent' = [agent EXCEPT ![a] = s]
  BY DEF FailsToEnd
<1>2. s \in AgentStatus /\ s.state = agent[a].state /\ s.gen = agent[a].gen
  BY UnfinishedIs DEF SchedulerType
<1>3. QED
  BY <1>1, <1>2 DEF SchedulerType, FailsToEnd

LEMMA MovedIs ==
  ASSUME SchedulerType, NEW a \in Agents, NEW to \in States,
         agent' = [agent EXCEPT ![a].state = to]
  PROVE  /\ agent' \in [Agents -> AgentStatus] /\ agent'[a].state = to
         /\ agent'[a].gen = agent[a].gen /\ agent'[a].handed = agent[a].handed
         /\ \A b \in Agents : b # a => agent'[b] = agent[b]
<1>1. agent' = [agent EXCEPT ![a] = [agent[a] EXCEPT !.state = to]]
  OBVIOUS
<1>2. /\ [agent[a] EXCEPT !.state = to] \in AgentStatus
      /\ [agent[a] EXCEPT !.state = to].state = to
      /\ [agent[a] EXCEPT !.state = to].gen = agent[a].gen
      /\ [agent[a] EXCEPT !.state = to].handed = agent[a].handed
  BY DEF SchedulerType, AgentStatus
<1>3. QED
  BY <1>1, <1>2 DEF SchedulerType

(* One move of one task. *)
LEMMA BecomesIs ==
  ASSUME TaskType, NEW a \in Agents, NEW g \in Generations, NEW at \in TaskStates,
         Becomes(a, g, at)
  PROVE  /\ task' \in TaskFunctions /\ task'[a][g] = at
         /\ \A b \in Agents, h \in Generations :
               task'[b][h] = IF b = a /\ h = g THEN at ELSE task[b][h]
         /\ task[a][g] # "none" /\ at # "none" => HoldingIn(task') = HoldingIn(task)
<1>1. task \in TaskFunctions /\ task' = [task EXCEPT ![a][g] = at]
  BY DEF TaskType, Becomes
<1>2. task' \in TaskFunctions /\ \A b \in Agents, h \in Generations :
               task'[b][h] = IF b = a /\ h = g THEN at ELSE task[b][h]
  BY <1>1 DEF TaskFunctions
<1>3. ASSUME task[a][g] # "none", at # "none" PROVE HoldingIn(task') = HoldingIn(task)
  <2>1. \A b \in Agents, h \in Generations : task'[b][h] # "none" <=> task[b][h] # "none"
    BY <1>2, <1>3
  <2>2. QED
    BY <2>1, HoldingKept
<1>4. QED
  BY <1>2, <1>3

LEMMA CallTypes == NoInterrupt \in InterruptStatus /\ NotWaiting \in IdleStatus
  BY DEF NoInterrupt, NotWaiting, InterruptStatus, IdleStatus

LEMMA AfterSettleIdle ==
  ASSUME CallType, NEW F
  PROVE  LET s == AfterSettle(F)
         IN  /\ s.idle \in [Observers -> IdleStatus]
             /\ \A o \in Observers :
                   /\ s.idle[o].at = idle[o].at
                   /\ ~(Parked \subseteq F) /\ idle[o].at # "off" => s.idle[o].woken
             /\ Parked \subseteq F => s.idle = idle
<1>1. idle \in [Observers -> IdleStatus]
  BY DEF CallType
<1>2. AfterSettle(F).idle = IF Parked \subseteq F THEN idle ELSE Woken
  BY DEF AfterSettle
<1>3. QED
  BY <1>1, <1>2, WokenIs

LEMMA DispatchType == ASSUME TypeOK, NEW a \in Agents, Dispatch(a) PROVE TypeOK'
<1>1. PICK F \in SUBSET Parked :
         /\ MayFail(F)
         /\ agent' = [AfterSettle(F).agent EXCEPT ![a].state = "Queued"]
         /\ queue' = [AfterSettle(F).queue EXCEPT ![a] = Queued(AfterSettle(F).agent)]
         /\ parked' = AfterSettle(F).parked
         /\ told' = AfterSettle(F).told
         /\ idle' = AfterSettle(F).idle
  BY DEF Dispatch
<1> DEFINE s == AfterSettle(F)
<1>2. /\ s.agent \in [Agents -> AgentStatus] /\ s.queue \in [Agents -> SUBSET Agents]
      /\ s.parked \in [Agents -> Generations \cup {NoTurn}] /\ s.told \subseteq Turns
  BY AfterSettleIs DEF AgentsMove
<1>3. s.idle \in [Observers -> IdleStatus]
  BY TypeParts, AfterSettleIdle
<1>4. faults' \in 0..MaxFaults
  BY <1>1, FaultIs, TypeParts DEF CallType
<1> HIDE DEF s
<1>5. agent' = [s.agent EXCEPT ![a].state = "Queued"]
      /\ queue' = [s.queue EXCEPT ![a] = Queued(s.agent)]
      /\ parked' = s.parked /\ told' = s.told /\ idle' = s.idle
  BY <1>1 DEF s
<1>6. SchedulerType'
  <2>1. [s.agent[a] EXCEPT !.state = "Queued"] \in AgentStatus
    BY <1>2 DEF AgentStatus, States
  <2>2. agent' = [s.agent EXCEPT ![a] = [s.agent[a] EXCEPT !.state = "Queued"]]
    BY <1>5
  <2>3. Queued(s.agent) \in SUBSET Agents
    BY DEF Queued
  <2>4. QED
    BY <1>2, <1>5, <2>1, <2>2, <2>3 DEF SchedulerType
<1>7. drains' \in Nat /\ UNCHANGED <<task, live, cancelled, slots, drain, liveLock, callers>>
  BY TypeParts DEF Dispatch, DrainType
<1>8. TaskType'
  BY <1>2, <1>5, <1>7, TypeParts DEF TaskType
<1>9. CallType'
  BY <1>3, <1>4, <1>5, <1>7, TypeParts DEF CallType, callers
<1>10. SlotType' /\ DrainType'
  BY <1>7, TypeParts DEF SlotType, DrainType, slots
<1>11. QED
  BY <1>6, <1>8, <1>9, <1>10, TypeParts, PTL

(* What settle_pending_terminalizations does inside other operations. *)
SettlesParked(F) ==
    LET s == AfterSettle(F)
    IN  /\ F \in SUBSET Parked /\ MayFail(F)
        /\ agent' = s.agent /\ queue' = s.queue /\ parked' = s.parked /\ told' = s.told

LEMMA SettlesParkedType ==
  ASSUME TypeOK, NEW F, SettlesParked(F), UNCHANGED <<task, live, cancelled>>
  PROVE  SchedulerType' /\ TaskType' /\ faults' \in 0..MaxFaults
<1>1. /\ AfterSettle(F).agent \in [Agents -> AgentStatus]
      /\ AfterSettle(F).queue \in [Agents -> SUBSET Agents]
      /\ AfterSettle(F).parked \in [Agents -> Generations \cup {NoTurn}]
      /\ AfterSettle(F).told \subseteq Turns
  BY AfterSettleIs DEF AgentsMove, SettlesParked
<1>2. faults' \in 0..MaxFaults
  BY FaultIs, TypeParts DEF CallType, SettlesParked
<1>3. SchedulerType'
  BY <1>1 DEF SchedulerType, SettlesParked
<1>4. TaskType'
  BY <1>1, TypeParts DEF TaskType, SettlesParked
<1>5. QED
  BY <1>2, <1>3, <1>4

LEMMA BeginDrainSettles ==
  ASSUME BeginDrain
  PROVE  \E F \in SUBSET Parked : SettlesParked(F) /\ idle' = AfterSettle(F).idle
  BY DEF BeginDrain, SettlesParked

LEMMA ArmWaiterSettles ==
  ASSUME NEW o \in Observers, ArmWaiter(o)
  PROVE  \E F \in SUBSET Parked :
            /\ SettlesParked(F)
            /\ idle' = [AfterSettle(F).idle EXCEPT ![o] =
                          [at |-> "armed", woken |-> ~(Parked \subseteq F)]]
  BY DEF ArmWaiter, SettlesParked

LEMMA DrainTypes ==
  ASSUME TypeOK, Redrain \/ BeginDrain \/ TakePermit
  PROVE  TypeOK'
<1>1. SchedulerType /\ TaskType /\ SlotType /\ DrainType /\ CallType
  BY TypeParts
<1>2. CASE Redrain
  <2>1. drains' \in Nat
    BY <1>1, <1>2 DEF Redrain, DrainType
  <2>2. SchedulerType' /\ TaskType' /\ SlotType' /\ DrainType' /\ CallType'
    BY <1>1, <1>2, <2>1 DEF Redrain, SchedulerType, TaskType, SlotType, DrainType, CallType,
       scheduler, slots, callers
  <2>3. QED
    BY <2>2, TypeParts, PTL
<1>3. CASE BeginDrain
  <2>1. PICK F \in SUBSET Parked : SettlesParked(F) /\ idle' = AfterSettle(F).idle
    BY <1>3, BeginDrainSettles
  <2>2. /\ drains > 0 /\ drains' = drains - 1 /\ drain' = [drain EXCEPT !.at = "loop"]
        /\ UNCHANGED <<task, live, cancelled, slots, liveLock, callers>>
    BY <1>3 DEF BeginDrain
  <2>3. SchedulerType' /\ TaskType' /\ faults' \in 0..MaxFaults
    BY <2>1, <2>2, SettlesParkedType
  <2>4. drains' \in Nat /\ drain' \in DrainStatus
    BY <1>1, <2>2 DEF DrainType, DrainStatus
  <2>5. DrainType' /\ SlotType'
    BY <1>1, <2>2, <2>4 DEF DrainType, SlotType, slots
  <2>6. idle' \in [Observers -> IdleStatus]
    BY <1>1, <2>1, AfterSettleIdle
  <2>7. CallType'
    BY <1>1, <2>2, <2>3, <2>6 DEF CallType, callers
  <2>8. QED
    BY <2>3, <2>5, <2>7, TypeParts, PTL
<1>4. CASE TakePermit
  <2>1. permits' \in Nat
    BY <1>1, <1>4 DEF TakePermit, SlotType
  <2>2. drain' \in DrainStatus
    BY <1>1, <1>4 DEF TakePermit, DrainType, DrainStatus
  <2>3. SchedulerType' /\ TaskType' /\ SlotType' /\ DrainType' /\ CallType'
    BY <1>1, <1>4, <2>1, <2>2 DEF TakePermit, SchedulerType, TaskType, SlotType, DrainType,
       CallType, scheduler, callers
  <2>4. QED
    BY <2>3, TypeParts, PTL
<1>5. QED
  BY <1>2, <1>3, <1>4

LEMMA EndDrainType ==
  ASSUME TypeOK, IsFiniteSet(YieldedIn(waits)), EndDrain
  PROVE  TypeOK'
<1>1. SchedulerType /\ TaskType /\ SlotType /\ DrainType /\ CallType
  BY TypeParts
<1>2. SlotType'
  BY <1>1, PermitAdded DEF EndDrain, SlotType
<1>3. drain' \in DrainStatus
  BY <1>1 DEF EndDrain, DrainType, DrainStatus
<1>4. faults' \in 0..MaxFaults
  BY <1>1, FaultIs DEF EndDrain, CallType
<1>5. SchedulerType' /\ TaskType' /\ DrainType' /\ CallType'
  BY <1>1, <1>3, <1>4 DEF EndDrain, SchedulerType, TaskType, DrainType, CallType,
     scheduler, callers
<1>6. QED
  BY <1>2, <1>5, TypeParts, PTL

(* Promote starts the oldest queued agent. *)
LEMMA PromoteIs ==
  ASSUME TypeOK, NEW a \in Oldest, Started(a)
  PROVE  /\ SchedulerType' /\ a \in Agents /\ agent[a].gen \in Generations
         /\ agent[a].state = "Queued" /\ agent'[a].state = "Starting"
         /\ agent'[a].gen = agent[a].gen
         /\ \A b \in Agents : b # a => agent'[b] = agent[b]
         /\ Becomes(a, agent[a].gen, "gated")
         /\ drain' = [at |-> "publish", agent |-> a]
<1>1. SchedulerType /\ a \in Agents /\ agent[a].state = "Queued"
  BY TypeParts DEF Oldest, Queued
<1>2. agent[a].gen \in Generations
  BY <1>1 DEF SchedulerType, AgentStatus
<1>3. "Starting" \in States
  BY DEF States, Executing
<1>4. /\ agent' \in [Agents -> AgentStatus] /\ agent'[a].state = "Starting"
      /\ agent'[a].gen = agent[a].gen /\ \A b \in Agents : b # a => agent'[b] = agent[b]
  BY <1>1, <1>3, MovedIs DEF Started
<1>5. queue' \in [Agents -> SUBSET Agents]
  BY <1>1 DEF Started, Without, SchedulerType
<1>6. QED
  BY <1>1, <1>2, <1>4, <1>5 DEF Started, SchedulerType, Becomes

LEMMA PromoteType == ASSUME TypeOK, Promote PROVE TypeOK'
<1>1. SchedulerType /\ TaskType /\ SlotType /\ DrainType /\ CallType
  BY TypeParts
<1>2. PICK a \in Oldest : agent[a].handed = "no" /\ Started(a)
  BY DEF Promote
<1>3. /\ SchedulerType' /\ a \in Agents /\ agent[a].gen \in Generations
      /\ Becomes(a, agent[a].gen, "gated") /\ drain' = [at |-> "publish", agent |-> a]
  BY <1>2, PromoteIs
<1>4. task' \in TaskFunctions
  BY <1>1, <1>3, BecomesIs DEF TaskStates
<1>5. drain' \in DrainStatus
  BY <1>3 DEF DrainStatus
<1>6. TaskType' /\ SlotType' /\ DrainType' /\ CallType'
  BY <1>1, <1>4, <1>5 DEF Promote, TaskType, SlotType, DrainType, CallType, slots, callers
<1>7. QED
  BY <1>3, <1>6, TypeParts, PTL

(* The turn whose gate Publish opens. *)
LEMMA PublishIs ==
  ASSUME TypeOK, DrainHasTask, Publish
  PROVE  LET a == drain.agent
             g == CHOOSE g \in Generations : task[a][g] = "gated"
         IN  /\ a \in Agents /\ g \in Generations /\ task[a][g] = "gated"
             /\ live' = [live EXCEPT ![a] = g] /\ Becomes(a, g, "running")
  BY DEF DrainHasTask, Publish, Becomes

LEMMA PublishType == ASSUME TypeOK, DrainHasTask, Publish PROVE TypeOK'
<1>1. SchedulerType /\ TaskType /\ SlotType /\ DrainType /\ CallType
  BY TypeParts
<1> DEFINE a == drain.agent
           g == CHOOSE g \in Generations : task[a][g] = "gated"
<1>2. /\ a \in Agents /\ g \in Generations
      /\ live' = [live EXCEPT ![a] = g] /\ Becomes(a, g, "running")
  BY PublishIs
<1> HIDE DEF a, g
<1>3. task' \in TaskFunctions
  BY <1>1, <1>2, BecomesIs DEF TaskStates
<1>4. live' \in [Agents -> Generations \cup {NoTurn}]
  BY <1>1, <1>2 DEF TaskType
<1>5. drain' \in DrainStatus
  BY DEF Publish, DrainStatus
<1>6. SchedulerType' /\ TaskType' /\ SlotType' /\ DrainType' /\ CallType'
  BY <1>1, <1>3, <1>4, <1>5 DEF Publish, SchedulerType, TaskType, SlotType, DrainType,
     CallType, scheduler, slots, callers
<1>7. QED
  BY <1>6, TypeParts, PTL

LEMMA LoopMovesType ==
  ASSUME TypeOK, NEW a \in Agents, NEW g \in Generations,
         NEW to \in {"Running", "WaitingForTool"}, LoopMoves(a, g, to)
  PROVE  TypeOK'
<1>1. SchedulerType /\ TaskType /\ SlotType /\ DrainType /\ CallType
  BY TypeParts
<1>2. agent' \in [Agents -> AgentStatus]
  <2>1. to \in States
    BY DEF States, Executing, Waiting
  <2>2. QED
    BY <1>1, <2>1, MovedIs DEF LoopMoves
<1>3. SchedulerType' /\ TaskType' /\ SlotType' /\ DrainType' /\ CallType'
  BY <1>1, <1>2 DEF LoopMoves, SchedulerType, TaskType, SlotType, DrainType, CallType,
     slots, draining, callers
<1>4. QED
  BY <1>3, TypeParts, PTL

LEMMA LoopFailsType ==
  ASSUME TypeOK, IsFiniteSet(YieldedIn(waits)), NEW a \in Agents, NEW g \in Generations,
         LoopFails(a, g)
  PROVE  TypeOK'
<1>1. SchedulerType /\ TaskType /\ SlotType /\ DrainType /\ CallType
  BY TypeParts
<1>2. task' \in TaskFunctions
  BY <1>1, BecomesIs DEF LoopFails, TaskStates
<1>3. SlotType'
  BY <1>1, SlotDropped DEF LoopFails, SlotType
<1>4. faults' \in 0..MaxFaults
  BY <1>1, FaultIs DEF LoopFails, CallType
<1>5. SchedulerType' /\ TaskType' /\ DrainType' /\ CallType'
  BY <1>1, <1>2, <1>4 DEF LoopFails, SchedulerType, TaskType, DrainType, CallType,
     scheduler, draining, callers
<1>6. QED
  BY <1>3, <1>5, TypeParts, PTL

LEMMA LoopEndsType ==
  ASSUME TypeOK, IsFiniteSet(YieldedIn(waits)), NEW a \in Agents, NEW g \in Generations,
         NEW to \in Terminal, LoopEnds(a, g, to)
  PROVE  TypeOK'
<1>1. SchedulerType /\ TaskType /\ SlotType /\ DrainType /\ CallType
  BY TypeParts
<1>2. task' \in TaskFunctions
  BY <1>1, BecomesIs DEF LoopEnds, TaskStates
<1>3. SlotType'
  BY <1>1, SlotDropped DEF LoopEnds, SlotType
<1>4. SchedulerType' /\ faults' \in 0..MaxFaults
  BY <1>1, FaultIs, EndsIs, FailsToEndIs DEF LoopEnds, CallType
<1>5. TaskType' /\ DrainType' /\ CallType'
  BY <1>1, <1>2, <1>4 DEF LoopEnds, TaskType, DrainType, CallType, draining, callers
<1>6. QED
  BY <1>3, <1>4, <1>5, TypeParts, PTL

LEMMA TerminalizeType ==
  ASSUME TypeOK, NEW a \in Agents, NEW g \in Generations, Terminalize(a, g)
  PROVE  TypeOK'
<1>1. SchedulerType /\ TaskType /\ SlotType /\ DrainType /\ CallType
  BY TypeParts
<1>2. task' \in TaskFunctions
  BY <1>1, BecomesIs DEF Terminalize, TaskStates
<1>3. {"Failed", "Interrupted"} \subseteq Terminal
  BY DEF Terminal
<1>4. SchedulerType' /\ faults' \in 0..MaxFaults
  <2>1. CASE UNCHANGED <<scheduler, faults>>
    BY <1>1, <2>1 DEF SchedulerType, CallType, scheduler
  <2>2. CASE \E to \in {"Failed", "Interrupted"} : Ends(a, to) /\ UNCHANGED faults
    BY <1>1, <1>3, <2>2, EndsIs DEF CallType
  <2>3. CASE \E to \in {"Failed", "Interrupted"} : FailsToEnd(a, to)
    BY <1>1, <1>3, <2>3, FailsToEndIs, FaultIs DEF CallType
  <2>4. QED
    BY <2>1, <2>2, <2>3 DEF Terminalize
<1>5. parked' \in [Agents -> Generations \cup {NoTurn}]
  BY <1>1 DEF Terminalize, TaskType
<1>6. TaskType' /\ SlotType' /\ DrainType' /\ CallType'
  BY <1>1, <1>2, <1>4, <1>5 DEF Terminalize, TaskType, SlotType, DrainType, CallType,
     slots, draining, callers
<1>7. QED
  BY <1>4, <1>6, TypeParts, PTL

LEMMA NotifyTerminalType ==
  ASSUME TypeOK, NEW a \in Agents, NEW g \in Generations, NotifyTerminal(a, g)
  PROVE  TypeOK'
<1>1. SchedulerType /\ TaskType /\ SlotType /\ DrainType /\ CallType
  BY TypeParts
<1>2. task' \in TaskFunctions
  BY <1>1, BecomesIs DEF NotifyTerminal, TaskStates
<1>3. told' \subseteq Turns
  <2>1. <<a, g>> \in Turns
    BY DEF Turns
  <2>2. QED
    BY <1>1, <2>1 DEF NotifyTerminal, TaskType
<1>4. idle' \in [Observers -> IdleStatus] /\ faults' \in 0..MaxFaults
  BY <1>1, FaultIs, WokenIs DEF NotifyTerminal, CallType
<1>5. SchedulerType' /\ TaskType' /\ SlotType' /\ DrainType' /\ CallType'
  BY <1>1, <1>2, <1>3, <1>4 DEF NotifyTerminal, SchedulerType, TaskType, SlotType, DrainType,
     CallType, scheduler, slots, draining, callers
<1>6. QED
  BY <1>5, TypeParts, PTL

LEMMA LeaveType ==
  ASSUME TypeOK, NEW a \in Agents, NEW g \in Generations, Leave(a, g)
  PROVE  TypeOK'
<1>1. SchedulerType /\ TaskType /\ SlotType /\ DrainType /\ CallType
  BY TypeParts
<1>2. task' \in TaskFunctions
  BY <1>1, BecomesIs DEF Leave, TaskStates
<1>3. live' \in [Agents -> Generations \cup {NoTurn}]
  BY <1>1 DEF Leave, TaskType
<1>4. SchedulerType' /\ TaskType' /\ SlotType' /\ DrainType' /\ CallType'
  BY <1>1, <1>2, <1>3 DEF Leave, SchedulerType, TaskType, SlotType, DrainType, CallType,
     scheduler, slots, draining, callers
<1>5. QED
  BY <1>4, TypeParts, PTL

LEMMA FreeSlotType ==
  ASSUME TypeOK, IsFiniteSet(YieldedIn(waits)), NEW a \in Agents, NEW g \in Generations,
         FreeSlot(a, g)
  PROVE  TypeOK'
<1>1. SchedulerType /\ TaskType /\ SlotType /\ DrainType /\ CallType
  BY TypeParts
<1>2. task' \in TaskFunctions
  BY <1>1, BecomesIs DEF FreeSlot, TaskStates
<1>3. SlotType'
  BY <1>1, PermitAdded DEF FreeSlot, SlotType
<1>4. idle' \in [Observers -> IdleStatus]
  BY <1>1, WokenIs DEF FreeSlot, CallType
<1>5. drains' \in Nat
  BY <1>1 DEF FreeSlot, DrainType
<1>6. SchedulerType' /\ TaskType' /\ DrainType' /\ CallType'
  BY <1>1, <1>2, <1>4, <1>5 DEF FreeSlot, SchedulerType, TaskType, DrainType, CallType,
     scheduler, callers
<1>7. QED
  BY <1>3, <1>6, TypeParts, PTL

LEMMA BeginWaitIs ==
  ASSUME TypeOK, IsFiniteSet(YieldedIn(waits)), NEW a \in Agents, NEW g \in Generations,
         BeginWait(a, g)
  PROVE  LET w == [waits EXCEPT ![a] = "waiting"]
         IN  /\ w \in [Agents -> WaitStates] /\ IsFiniteSet(YieldedIn(w)) /\ AddPermit(w)
             /\ Cardinality(YieldedIn(waits)) \in Nat
             /\ Cardinality(YieldedIn(w)) = Cardinality(YieldedIn(waits)) + 1
             /\ \A b \in Agents : w[b] # "no" => b = a \/ waits[b] # "no"
<1> DEFINE w == [waits EXCEPT ![a] = "waiting"]
<1>1. waits \in [Agents -> WaitStates] /\ waits[a] = "no" /\ AddPermit(w)
  BY TypeParts DEF SlotType, BeginWait
<1>2. /\ w \in [Agents -> WaitStates] /\ IsFiniteSet(YieldedIn(w))
      /\ Cardinality(YieldedIn(waits)) \in Nat
      /\ Cardinality(YieldedIn(w)) = Cardinality(YieldedIn(waits)) + 1
  BY <1>1, YieldedOneMore
<1>3. \A b \in Agents : w[b] # "no" => b = a \/ waits[b] # "no"
  BY <1>1
<1>4. QED
  BY <1>1, <1>2, <1>3

LEMMA WaitTypes ==
  ASSUME TypeOK, IsFiniteSet(YieldedIn(waits)), NEW a \in Agents,
         EndWait(a) \/ \E g \in Generations : BeginWait(a, g)
  PROVE  TypeOK'
<1>1. SchedulerType /\ TaskType /\ SlotType /\ DrainType /\ CallType
  BY TypeParts
<1>2. CASE EndWait(a)
  <2>1. SlotType'
    BY <1>1, <1>2 DEF EndWait, SlotType, WaitStates
  <2>2. SchedulerType' /\ TaskType' /\ DrainType' /\ CallType'
    BY <1>1, <1>2 DEF EndWait, SchedulerType, TaskType, DrainType, CallType, scheduler,
       draining, callers
  <2>3. QED
    BY <2>1, <2>2, TypeParts, PTL
<1>3. ASSUME NEW g \in Generations, BeginWait(a, g) PROVE TypeOK'
  <2> DEFINE w == [waits EXCEPT ![a] = "waiting"]
  <2>1. w \in [Agents -> WaitStates] /\ IsFiniteSet(YieldedIn(w)) /\ AddPermit(w)
    BY <1>3, BeginWaitIs
  <2> HIDE DEF w
  <2>2. SlotType'
    BY <1>1, <2>1, PermitAdded DEF SlotType
  <2>3. agent' \in [Agents -> AgentStatus]
    <3>1. "WaitingForAgent" \in States
      BY DEF States, Executing, Waiting
    <3>2. QED
      BY <1>1, <1>3, <3>1, MovedIs DEF BeginWait
  <2>4. drains' \in Nat
    BY <1>1, <1>3 DEF BeginWait, DrainType
  <2>5. SchedulerType' /\ TaskType' /\ DrainType' /\ CallType'
    BY <1>1, <1>3, <2>3, <2>4 DEF BeginWait, SchedulerType, TaskType, DrainType, CallType,
       callers
  <2>6. QED
    BY <2>2, <2>5, TypeParts, PTL
<1>4. QED
  BY <1>2, <1>3

(* Only calls change, of the variables that have a type of their own. *)
LEMMA OnlyCallsType ==
  ASSUME TypeOK, CallType', liveLock' \in {"free", "drain"} \cup Interrupters,
         cancelled' \subseteq Turns, told' \subseteq Turns, SchedulerType',
         UNCHANGED <<task, live, parked, slots, draining>>
  PROVE  TypeOK'
<1>1. TaskType /\ SlotType /\ DrainType
  BY TypeParts
<1>2. TaskType' /\ SlotType' /\ DrainType'
  BY <1>1 DEF TaskType, SlotType, DrainType, slots, draining
<1>3. QED
  BY <1>2, TypeParts, PTL

(* What an interrupt becomes. *)
LEMMA InterrupterIs ==
  ASSUME interrupter \in [Interrupters -> InterruptStatus], NEW i \in Interrupters,
         NEW s \in InterruptStatus, interrupter' = [interrupter EXCEPT ![i] = s]
  PROVE  /\ interrupter' \in [Interrupters -> InterruptStatus] /\ interrupter'[i] = s
         /\ \A j \in Interrupters : j # i => interrupter'[j] = interrupter[j]
  OBVIOUS

(* Passing an agent over leaves the rest of the call as it is. *)
LEMMA PassedIs ==
  ASSUME interrupter \in [Interrupters -> InterruptStatus], NEW i \in Interrupters, NEW a
  PROVE  /\ Passed(i, a) \in [Interrupters -> InterruptStatus]
         /\ Passed(i, a)[i].todo = interrupter[i].todo \ {a}
         /\ Passed(i, a)[i].at = interrupter[i].at
         /\ Passed(i, a)[i].goal = interrupter[i].goal
         /\ Passed(i, a)[i].ended = interrupter[i].ended
         /\ \A j \in Interrupters : j # i => Passed(i, a)[j] = interrupter[j]
<1> DEFINE s == [interrupter[i] EXCEPT !.todo = interrupter[i].todo \ {a}]
<1>1. /\ s \in InterruptStatus /\ s.todo = interrupter[i].todo \ {a}
      /\ s.at = interrupter[i].at /\ s.goal = interrupter[i].goal
      /\ s.ended = interrupter[i].ended
  BY DEF InterruptStatus
<1>2. Passed(i, a) = [interrupter EXCEPT ![i] = s]
  BY DEF Passed
<1> HIDE DEF s
<1>3. QED
  BY <1>1, <1>2

(* An interrupt moves on to the next part of the call. *)
LEMMA AtIs ==
  ASSUME interrupter \in [Interrupters -> InterruptStatus], NEW i \in Interrupters,
         NEW at \in {"off", "asked", "pass", "tell"},
         interrupter' = [interrupter EXCEPT ![i].at = at]
  PROVE  /\ interrupter' \in [Interrupters -> InterruptStatus]
         /\ interrupter'[i].at = at /\ interrupter'[i].todo = interrupter[i].todo
         /\ interrupter'[i].goal = interrupter[i].goal
         /\ \A j \in Interrupters : j # i => interrupter'[j] = interrupter[j]
<1> DEFINE s == [interrupter[i] EXCEPT !.at = at]
<1>1. /\ s \in InterruptStatus /\ s.at = at /\ s.todo = interrupter[i].todo
      /\ s.goal = interrupter[i].goal
  BY DEF InterruptStatus
<1>2. interrupter' = [interrupter EXCEPT ![i] = s]
  OBVIOUS
<1> HIDE DEF s
<1>3. QED
  BY <1>1, <1>2

(* And says what it has ended. *)
LEMMA EndedIs ==
  ASSUME NEW f \in [Interrupters -> InterruptStatus], NEW i \in Interrupters,
         NEW e \in SUBSET Turns
  PROVE  LET h == [f EXCEPT ![i].ended = e]
         IN  /\ h \in [Interrupters -> InterruptStatus]
             /\ h[i].at = f[i].at /\ h[i].todo = f[i].todo /\ h[i].goal = f[i].goal
             /\ \A j \in Interrupters : j # i => h[j] = f[j]
<1> DEFINE s == [f[i] EXCEPT !.ended = e]
           h == [f EXCEPT ![i] = s]
<1>1. /\ s \in InterruptStatus /\ s.at = f[i].at /\ s.todo = f[i].todo /\ s.goal = f[i].goal
  BY DEF InterruptStatus
<1>2. [f EXCEPT ![i].ended = e] = h
  OBVIOUS
<1> HIDE DEF s
<1>3. /\ h \in [Interrupters -> InterruptStatus]
      /\ h[i].at = f[i].at /\ h[i].todo = f[i].todo /\ h[i].goal = f[i].goal
      /\ \A j \in Interrupters : j # i => h[j] = f[j]
  BY <1>1
<1>4. QED
  BY <1>2, <1>3

(* An interrupt that has ended an agent goes on with its pass. *)
LEMMA InterruptChildIs ==
  ASSUME TypeOK, NEW i \in Interrupters, NEW a \in Agents, InterruptChild(i, a)
  PROVE  /\ interrupter' \in [Interrupters -> InterruptStatus]
         /\ interrupter[i].at = "pass" /\ interrupter'[i].at = "pass"
         /\ interrupter'[i].todo = interrupter[i].todo \ {a}
         /\ interrupter'[i].goal = interrupter[i].goal
         /\ \A j \in Interrupters : j # i => interrupter'[j] = interrupter[j]
<1> DEFINE f == Passed(i, a)
           e == f[i].ended \cup {<<a, agent[a].gen>>}
<1>1. /\ f \in [Interrupters -> InterruptStatus]
      /\ f[i].todo = interrupter[i].todo \ {a} /\ f[i].at = interrupter[i].at
      /\ f[i].goal = interrupter[i].goal
      /\ \A j \in Interrupters : j # i => f[j] = interrupter[j]
  BY PassedIs, TypeParts DEF CallType
<1>2. e \in SUBSET Turns
  BY <1>1 DEF InterruptStatus, Turns, TypeOK, AgentStatus
<1>3. interrupter' = [f EXCEPT ![i].ended = e] /\ interrupter[i].at = "pass"
  BY DEF InterruptChild
<1> HIDE DEF f, e
<1>4. /\ interrupter' \in [Interrupters -> InterruptStatus]
      /\ interrupter'[i].at = f[i].at /\ interrupter'[i].todo = f[i].todo
      /\ interrupter'[i].goal = f[i].goal
      /\ \A j \in Interrupters : j # i => interrupter'[j] = f[j]
  <2> DEFINE h == [f EXCEPT ![i].ended = e]
  <2>1. /\ h \in [Interrupters -> InterruptStatus]
        /\ h[i].at = f[i].at /\ h[i].todo = f[i].todo /\ h[i].goal = f[i].goal
        /\ \A j \in Interrupters : j # i => h[j] = f[j]
    BY <1>1, <1>2, EndedIs
  <2> HIDE DEF h
  <2>2. interrupter' = h
    BY <1>3 DEF h
  <2>3. QED
    BY <2>1, <2>2
<1>5. QED
  BY <1>1, <1>3, <1>4

LEMMA InterruptTypes ==
  ASSUME TypeOK, NEW i \in Interrupters, Interrupt(i)
  PROVE  TypeOK'
<1>1. SchedulerType /\ TaskType /\ SlotType /\ DrainType /\ CallType
  BY TypeParts
<1>2. interrupter \in [Interrupters -> InterruptStatus]
  BY <1>1 DEF CallType
<1>3. ASSUME NEW a \in Agents, BeginInterrupt(i, a) PROVE TypeOK'
  <2> DEFINE D == DescendantsIncluding(a)
             s == [at |-> "asked", todo |-> D, ended |-> {},
                   goal |-> {<<b, agent[b].gen>> : b \in D}]
  <2>1. D \subseteq Agents
    BY DEF DescendantsIncluding, Records
  <2> HIDE DEF D
  <2>2. {<<b, agent[b].gen>> : b \in D} \subseteq Turns
    BY <1>1, <2>1 DEF SchedulerType, AgentStatus, Turns
  <2>3. s \in InterruptStatus
    BY <2>1, <2>2 DEF InterruptStatus
  <2>4. interrupter' \in [Interrupters -> InterruptStatus]
    BY <1>2, <1>3, <2>3, InterrupterIs DEF BeginInterrupt, D
  <2>5. CallType' /\ SchedulerType'
    BY <1>1, <1>3, <2>4 DEF BeginInterrupt, CallType, SchedulerType, scheduler
  <2>6. QED
    BY <1>1, <1>3, <2>5, OnlyCallsType DEF BeginInterrupt, DrainType, TaskType
<1>4. CASE LockLive(i) \/ UnlockLive(i)
  <2>1. interrupter' \in [Interrupters -> InterruptStatus]
    BY <1>2, <1>4, AtIs DEF LockLive, UnlockLive
  <2>2. CallType' /\ SchedulerType'
    BY <1>1, <1>4, <2>1 DEF LockLive, UnlockLive, CallType, SchedulerType, scheduler
  <2>3. QED
    BY <1>1, <1>4, <2>2, OnlyCallsType DEF LockLive, UnlockLive, TaskType
<1>5. ASSUME NEW a \in Agents, PassOver(i, a) PROVE TypeOK'
  <2>1. interrupter' \in [Interrupters -> InterruptStatus]
    BY <1>2, <1>5, PassedIs DEF PassOver
  <2>2. cancelled' \subseteq Turns
    <3>1. live[a] # NoTurn => <<a, live[a]>> \in Turns
      BY <1>1 DEF TaskType, Turns
    <3>2. QED
      BY <1>1, <1>5, <3>1 DEF PassOver, TaskType
  <2>3. CallType' /\ SchedulerType'
    BY <1>1, <1>5, <2>1 DEF PassOver, CallType, SchedulerType, scheduler
  <2>4. QED
    BY <1>1, <1>5, <2>2, <2>3, OnlyCallsType DEF PassOver, DrainType, TaskType
<1>6. ASSUME NEW a \in Agents, InterruptChild(i, a) PROVE TypeOK'
  <2>1. interrupter' \in [Interrupters -> InterruptStatus]
    BY <1>6, InterruptChildIs
  <2>2. SchedulerType'
    <3>1. "Interrupted" \in Terminal
      BY DEF Terminal
    <3>2. QED
      BY <1>1, <1>6, <3>1, EndsIs DEF InterruptChild
  <2>3. CallType'
    BY <1>1, <1>6, <2>1 DEF InterruptChild, CallType
  <2>4. QED
    BY <1>1, <1>6, <2>2, <2>3, OnlyCallsType DEF InterruptChild, DrainType, TaskType
<1>7. ASSUME NEW a \in Agents, InterruptFails(i, a) PROVE TypeOK'
  <2>1. interrupter' \in [Interrupters -> InterruptStatus]
    BY <1>2, <1>7, InterrupterIs, CallTypes DEF InterruptFails
  <2>2. SchedulerType' /\ faults' \in 0..MaxFaults
    <3>1. "Interrupted" \in Terminal
      BY DEF Terminal
    <3>2. CASE FailsToEnd(a, "Interrupted")
      BY <1>1, <3>1, <3>2, FailsToEndIs, FaultIs DEF CallType
    <3>3. CASE UNCHANGED <<scheduler, faults>>
      BY <1>1, <3>3 DEF SchedulerType, CallType, scheduler
    <3>4. QED
      BY <1>7, <3>2, <3>3 DEF InterruptFails
  <2>3. CallType'
    BY <1>1, <1>7, <2>1, <2>2 DEF InterruptFails, CallType
  <2>4. QED
    BY <1>1, <1>7, <2>2, <2>3, OnlyCallsType DEF InterruptFails, TaskType
<1>8. ASSUME NEW t \in Turns, TellInterrupted(i, t) PROVE TypeOK'
  <2>1. interrupter' \in [Interrupters -> InterruptStatus]
    <3> DEFINE e == interrupter[i].ended \ {t}
    <3>1. e \in SUBSET Turns
      BY <1>2 DEF InterruptStatus
    <3>2. \/ interrupter' = [interrupter EXCEPT ![i].ended = e]
          \/ interrupter' = [interrupter EXCEPT ![i] = NoInterrupt]
      BY <1>8 DEF TellInterrupted
    <3> HIDE DEF e
    <3>3. QED
      BY <1>2, <3>1, <3>2, EndedIs, InterrupterIs, CallTypes
  <2>2. idle' \in [Observers -> IdleStatus] /\ faults' \in 0..MaxFaults /\ told' \subseteq Turns
    BY <1>1, <1>8, FaultIs, WokenIs DEF TellInterrupted, CallType, TaskType
  <2>3. CallType' /\ SchedulerType'
    BY <1>1, <1>8, <2>1, <2>2 DEF TellInterrupted, CallType, SchedulerType, scheduler
  <2>4. QED
    BY <1>1, <1>8, <2>2, <2>3, OnlyCallsType DEF TellInterrupted, DrainType, TaskType
<1>9. CASE EndInterrupt(i)
  <2>1. interrupter' \in [Interrupters -> InterruptStatus]
    BY <1>2, <1>9, InterrupterIs, CallTypes DEF EndInterrupt
  <2>2. idle' \in [Observers -> IdleStatus]
    BY <1>1, <1>9, WokenIs DEF EndInterrupt, CallType
  <2>3. CallType' /\ SchedulerType'
    BY <1>1, <1>9, <2>1, <2>2 DEF EndInterrupt, CallType, SchedulerType, scheduler
  <2>4. QED
    BY <1>1, <1>9, <2>3, OnlyCallsType DEF EndInterrupt, DrainType, TaskType
<1>10. QED
  BY <1>3, <1>4, <1>5, <1>6, <1>7, <1>8, <1>9 DEF Interrupt

(* A follow-up begins the next turn, queued or only authorized, or is refused. *)
LEMMA BeginFollowupIs ==
  ASSUME SchedulerType, NEW f \in Followers, NEW a \in Agents, BeginFollowup(f, a)
  PROVE  \/ UNCHANGED scheduler
         \/ /\ SchedulerType' /\ agent'[a].gen = agent[a].gen + 1
            /\ agent[a].state \in {"Completed", "Interrupted"}
            /\ agent'[a].state \in {"Queued", agent[a].state}
            /\ \A b \in Agents : b # a => agent'[b] = agent[b]
<1>1. CASE Reopenable(a) /\ agent[a].gen < MaxGeneration
           /\ (\/ /\ agent' = [agent EXCEPT ![a].state = "Queued", ![a].gen = @ + 1]
                  /\ queue' = [queue EXCEPT ![a] = Queued(agent)]
               \/ /\ agent' = [agent EXCEPT ![a].authorized = TRUE, ![a].gen = @ + 1]
                  /\ UNCHANGED queue)
  <2>1. agent[a] \in AgentStatus /\ agent[a].gen + 1 \in Generations
    BY <1>1, SupervisorAssumption DEF SchedulerType, AgentStatus, Generations
  <2> DEFINE n == agent[a].gen + 1
             s == [agent[a] EXCEPT !.state = "Queued", !.gen = n]
             z == [agent[a] EXCEPT !.authorized = TRUE, !.gen = n]
  <2> HIDE DEF n
  <2>2. n \in Generations
    BY <2>1 DEF n
  <2>3. "Queued" \in States \cup {"absent"} /\ TRUE \in BOOLEAN
    BY DEF States
  <2>4. s \in AgentStatus /\ s.gen = n /\ s.state = "Queued"
    BY <2>1, <2>2, <2>3 DEF AgentStatus
  <2>5. z \in AgentStatus /\ z.gen = n /\ z.state = agent[a].state
    BY <2>1, <2>2, <2>3 DEF AgentStatus
  <2>6. Queued(agent) \in SUBSET Agents
    BY DEF Queued
  <2>7. queue' \in [Agents -> SUBSET Agents]
    BY <1>1, <2>6 DEF SchedulerType
  <2>8. \/ agent' = [agent EXCEPT ![a] = s]
        \/ agent' = [agent EXCEPT ![a] = z]
    BY <1>1 DEF n
  <2> HIDE DEF s, z
  <2>9. /\ agent' \in [Agents -> AgentStatus] /\ agent'[a].gen = n
        /\ agent'[a].state \in {"Queued", agent[a].state}
        /\ \A b \in Agents : b # a => agent'[b] = agent[b]
    BY <2>4, <2>5, <2>8 DEF SchedulerType
  <2>10. QED
    BY <1>1, <2>7, <2>9 DEF SchedulerType, Reopenable, n
<1>2. CASE UNCHANGED scheduler
  BY <1>2
<1>3. QED
  BY <1>1, <1>2 DEF BeginFollowup

LEMMA FollowUpTypes ==
  ASSUME TypeOK, NEW f \in Followers, FollowUp(f)
  PROVE  TypeOK'
<1>1. SchedulerType /\ TaskType /\ SlotType /\ DrainType /\ CallType
  BY TypeParts
<1>2. ASSUME NEW a \in Agents, CheckNotLive(f, a) PROVE TypeOK'
  <2>1. CallType' /\ SchedulerType'
    BY <1>1, <1>2 DEF CheckNotLive, CallType, SchedulerType, scheduler
  <2>2. QED
    BY <1>1, <1>2, <2>1, OnlyCallsType DEF CheckNotLive, DrainType, TaskType
<1>3. ASSUME NEW a \in Agents, BeginFollowup(f, a) PROVE TypeOK'
  <2>1. SchedulerType'
    BY <1>1, <1>3, BeginFollowupIs DEF SchedulerType, scheduler
  <2>2. faults' \in 0..MaxFaults
    BY <1>1, <1>3, FaultIs DEF BeginFollowup, CallType
  <2>3. drains' \in Nat
    BY <1>1, <1>3 DEF BeginFollowup, DrainType
  <2>4. TaskType' /\ SlotType' /\ DrainType' /\ CallType'
    BY <1>1, <1>3, <2>2, <2>3 DEF BeginFollowup, TaskType, SlotType, DrainType, CallType, slots
  <2>5. QED
    BY <2>1, <2>4, TypeParts, PTL
<1>4. QED
  BY <1>2, <1>3 DEF FollowUp

(* What an observer becomes. *)
LEMMA ObserverIs ==
  ASSUME NEW f \in [Observers -> IdleStatus], NEW o \in Observers, NEW s \in IdleStatus
  PROVE  LET h == [f EXCEPT ![o] = s]
         IN  /\ h \in [Observers -> IdleStatus] /\ h[o] = s
             /\ \A p \in Observers : p # o => h[p] = f[p]
  OBVIOUS

LEMMA ObserverAt ==
  ASSUME idle \in [Observers -> IdleStatus], NEW o \in Observers,
         NEW at \in {"off", "armed", "read", "busy", "asleep"}
  PROVE  LET s == [idle[o] EXCEPT !.at = at]
         IN  s \in IdleStatus /\ s.at = at /\ s.woken = idle[o].woken
  BY DEF IdleStatus

(* The states an observer moves to by itself. *)
LEMMA ObserverMoves ==
  ASSUME CallType, NEW o \in Observers,
         ReadState(o) \/ ReadLive(o) \/ FallAsleep(o) \/ IdleTimesOut(o)
  PROVE  /\ idle' \in [Observers -> IdleStatus]
         /\ \A p \in Observers : p # o => idle'[p] = idle[p]
         /\ \/ idle'[o] = NotWaiting
            \/ /\ idle'[o].woken = idle[o].woken
               /\ \/ idle'[o].at = "read"
                  \/ idle'[o].at = "busy" /\ idle[o].at = "armed"
                       /\ \E a \in Records : ~Settled(a)
                  \/ idle'[o].at = "busy" /\ idle[o].at = "read"
                       /\ \E a \in Agents : live[a] # NoTurn
                  \/ idle'[o].at = "asleep" /\ idle[o].at = "busy"
<1>1. idle \in [Observers -> IdleStatus] /\ NotWaiting \in IdleStatus
  BY CallTypes DEF CallType
<1> DEFINE Now(at) == [idle[o] EXCEPT !.at = at]
<1>2. \A at \in {"read", "busy", "asleep"} :
         Now(at) \in IdleStatus /\ Now(at).at = at /\ Now(at).woken = idle[o].woken
  BY <1>1, ObserverAt
<1>3. CASE ReadState(o)
  <2>1. PICK at \in {"read", "busy"} : /\ idle' = [idle EXCEPT ![o] = Now(at)]
                                       /\ at = "busy" => \E a \in Records : ~Settled(a)
    BY <1>3 DEF ReadState
  <2>2. idle[o].at = "armed"
    BY <1>3 DEF ReadState
  <2> HIDE DEF Now
  <2>3. /\ idle' \in [Observers -> IdleStatus] /\ idle'[o] = Now(at)
        /\ \A p \in Observers : p # o => idle'[p] = idle[p]
    BY <1>1, <1>2, <2>1
  <2>4. QED
    BY <1>2, <2>1, <2>2, <2>3
<1>4. CASE ReadLive(o)
  <2>1. \/ idle' = [idle EXCEPT ![o] = NotWaiting]
        \/ idle' = [idle EXCEPT ![o] = Now("busy")] /\ \E a \in Agents : live[a] # NoTurn
    BY <1>4 DEF ReadLive
  <2>2. idle[o].at = "read"
    BY <1>4 DEF ReadLive
  <2> HIDE DEF Now
  <2>3. /\ idle' \in [Observers -> IdleStatus]
        /\ \A p \in Observers : p # o => idle'[p] = idle[p]
        /\ \/ idle'[o] = NotWaiting
           \/ idle'[o] = Now("busy") /\ \E a \in Agents : live[a] # NoTurn
    BY <1>1, <1>2, <2>1
  <2>4. QED
    BY <1>2, <2>2, <2>3
<1>5. CASE FallAsleep(o)
  <2>1. idle' = [idle EXCEPT ![o] = Now("asleep")] /\ idle[o].at = "busy"
    BY <1>5 DEF FallAsleep
  <2> HIDE DEF Now
  <2>2. QED
    BY <1>1, <1>2, <2>1
<1>6. CASE IdleTimesOut(o)
  BY <1>1, <1>6 DEF IdleTimesOut
<1>7. QED
  BY <1>3, <1>4, <1>5, <1>6

LEMMA WaitForIdleTypes ==
  ASSUME TypeOK, NEW o \in Observers, WaitForIdle(o)
  PROVE  TypeOK'
<1>1. SchedulerType /\ TaskType /\ SlotType /\ DrainType /\ CallType
  BY TypeParts
<1>2. CASE ArmWaiter(o)
  <2>1. PICK F \in SUBSET Parked :
           /\ SettlesParked(F)
           /\ idle' = [AfterSettle(F).idle EXCEPT ![o] =
                          [at |-> "armed", woken |-> ~(Parked \subseteq F)]]
    BY <1>2, ArmWaiterSettles
  <2>2. UNCHANGED <<task, live, cancelled, slots, draining, liveLock, callers>>
    BY <1>2 DEF ArmWaiter
  <2>3. SchedulerType' /\ TaskType' /\ faults' \in 0..MaxFaults
    BY <2>1, <2>2, SettlesParkedType
  <2>4. AfterSettle(F).idle \in [Observers -> IdleStatus]
    BY <1>1, AfterSettleIdle
  <2>5. [at |-> "armed", woken |-> ~(Parked \subseteq F)] \in IdleStatus
    BY DEF IdleStatus
  <2>6. idle' \in [Observers -> IdleStatus]
    BY <2>1, <2>4, <2>5, ObserverIs
  <2>7. CallType' /\ SlotType' /\ DrainType'
    BY <1>1, <2>2, <2>3, <2>6 DEF CallType, SlotType, DrainType, slots, draining, callers
  <2>8. QED
    BY <2>3, <2>7, TypeParts, PTL
<1>3. CASE ReadState(o) \/ ReadLive(o) \/ FallAsleep(o) \/ IdleTimesOut(o)
  <2>1. idle' \in [Observers -> IdleStatus]
    BY <1>1, <1>3, ObserverMoves
  <2>2. UNCHANGED <<scheduler, task, live, cancelled, parked, told, slots, draining,
                    liveLock, callers, faults>>
    BY <1>3 DEF ReadState, ReadLive, FallAsleep, IdleTimesOut
  <2>3. CallType' /\ SchedulerType'
    BY <1>1, <2>1, <2>2 DEF CallType, SchedulerType, scheduler, callers
  <2>4. QED
    BY <1>1, <2>2, <2>3, OnlyCallsType DEF DrainType, TaskType
<1>4. QED
  BY <1>2, <1>3 DEF WaitForIdle

-----------------------------------------------------------------------------
(* The account of permits is kept. *)

(* Turns only begin, and an agent is queued only for a turn that has not.      *)
AgentsAdvance ==
    \A a \in Agents :
        /\ agent'[a].gen >= agent[a].gen
        /\ agent'[a].state \in {"absent", "Queued"} =>
              agent[a].state \in {"absent", "Queued"} \/ agent'[a].gen > agent[a].gen

LEMMA FreshKept ==
  ASSUME TypeOK, TypeOK', TurnsAreFresh, AgentsAdvance,
         \A a \in Agents, g \in Generations : task[a][g] = "none" => task'[a][g] = "none"
  PROVE  TurnsAreFresh'
<1>1. ASSUME NEW a \in Agents, NEW g \in Generations,
             \/ g > agent'[a].gen
             \/ g = agent'[a].gen /\ agent'[a].state \in {"absent", "Queued"}
      PROVE  task[a][g] = "none"
  <2>1. g \in Nat /\ agent[a].gen \in Nat /\ agent'[a].gen \in Nat
    BY ZenonT(40), TypeParts, NoTurnIsNone DEF TypeOK, AgentStatus
  <2>2. \/ g > agent[a].gen
        \/ g = agent[a].gen /\ agent[a].state \in {"absent", "Queued"}
    BY <1>1, <2>1 DEF AgentsAdvance
  <2>3. QED
    BY <2>2 DEF TurnsAreFresh
<1>2. QED
  BY <1>1 DEF TurnsAreFresh

LEMMA AdvanceSame ==
  ASSUME TypeOK, \A a \in Agents : /\ agent'[a].gen = agent[a].gen
                                   /\ agent'[a].state \in {"absent", "Queued"} =>
                                        agent[a].state \in {"absent", "Queued"}
  PROVE  AgentsAdvance
<1>1. \A a \in Agents : agent[a].gen \in Nat
  BY NoTurnIsNone DEF TypeOK, AgentStatus
<1>2. QED
  BY <1>1 DEF AgentsAdvance

(* A step that leaves tasks and permits alone. *)
LEMMA CalmKeeps ==
  ASSUME IInv, TypeOK', AgentsAdvance, UNCHANGED <<task, slots>>,
         drain' = drain \/ {drain.at, drain'.at} \subseteq {"off", "loop"}
  PROVE  IInv'
<1>1. task' = task /\ permits' = permits /\ waits' = waits /\ debts' = debts
  BY DEF slots
<1>2. TurnsAreFresh'
  BY <1>1, FreshKept DEF IInv
<1>3. DrainHasTask'
  BY <1>1 DEF IInv, DrainHasTask
<1>4. WaitersRun'
  BY <1>1 DEF IInv, WaitersRun
<1>5. Accounts'
  <2>1. InHand' = InHand
    BY DEF InHand
  <2>2. HoldingIn(task') = HoldingIn(task) /\ YieldedIn(waits') = YieldedIn(waits)
    BY <1>1
  <2>3. QED
    BY <1>1, <2>1, <2>2 DEF IInv, Accounts
<1>6. QED
  BY <1>2, <1>3, <1>4, <1>5 DEF IInv

(* A step that moves the task of a turn that has one, and no permit. *)
LEMMA TaskStepKeeps ==
  ASSUME IInv, TypeOK', AgentsAdvance, NEW a \in Agents, NEW g \in Generations,
         NEW at \in TaskStates \ {"none"}, Becomes(a, g, at),
         task[a][g] \notin {"none", "gated"}, UNCHANGED drain,
         \A b \in Agents : waits'[b] # "no" => waits[b] # "no",
         task[a][g] = "running" => waits'[a] = "no",
         IsFiniteSet(YieldedIn(waits')),
         permits' + debts + Cardinality(YieldedIn(waits))
            = permits + debts' + Cardinality(YieldedIn(waits')),
         Cardinality(YieldedIn(waits')) \in Nat, Cardinality(YieldedIn(waits)) \in Nat
  PROVE  IInv'
<1>1. TypeOK /\ TaskType /\ SlotType /\ Accounts
  BY TypeParts DEF IInv
<1>2. /\ \A b \in Agents, h \in Generations :
            task'[b][h] = IF b = a /\ h = g THEN at ELSE task[b][h]
      /\ HoldingIn(task') = HoldingIn(task)
  BY <1>1, BecomesIs
<1>3. TurnsAreFresh'
  BY <1>1, <1>2, FreshKept DEF IInv
<1>4. DrainHasTask'
  BY <1>2 DEF IInv, DrainHasTask
<1>5. WaitersRun'
  <2>1. ASSUME NEW b \in Agents, waits'[b] # "no"
        PROVE  \E h \in Generations : task'[b][h] = "running"
    <3>1. PICK h \in Generations : task[b][h] = "running"
      BY <2>1 DEF IInv, WaitersRun
    <3>2. task'[b][h] = "running"
      BY <1>2, <2>1, <3>1
    <3>3. QED
      BY <3>2
  <2>2. QED
    BY <2>1 DEF WaitersRun
<1>6. Accounts'
  <2>1. InHand' = InHand /\ InHand \in Nat
    BY DEF InHand
  <2>2. Cardinality(HoldingIn(task)) \in Nat /\ IsFiniteSet(HoldingIn(task))
    BY <1>1, FS_CardinalityType DEF Accounts
  <2>3. /\ permits \in Nat /\ debts \in Nat /\ permits' \in Nat /\ debts' \in Nat
        /\ MaxConcurrent \in Nat
    BY SupervisorAssumption DEF IInv, TypeOK
  <2>4. permits + Cardinality(HoldingIn(task)) + InHand
          = MaxConcurrent + debts + Cardinality(YieldedIn(waits))
    BY <1>1 DEF Accounts
  <2> DEFINE y == Cardinality(YieldedIn(waits))
             z == Cardinality(YieldedIn(waits'))
             h == Cardinality(HoldingIn(task))
  <2>5. y \in Nat /\ z \in Nat /\ h \in Nat /\ permits' + debts + y = permits + debts' + z
        /\ permits + h + InHand = MaxConcurrent + debts + y
    BY <2>2, <2>4
  <2> HIDE DEF y, z, h
  <2>6. permits' + h + InHand = MaxConcurrent + debts' + z
    BY ONLY <2>1, <2>3, <2>5
  <2>7. QED
    BY <1>2, <2>1, <2>2, <2>6 DEF Accounts, z, h
<1>7. QED
  BY <1>3, <1>4, <1>5, <1>6 DEF IInv

(* Nothing but the task moves. *)
LEMMA TaskOnlyKeeps ==
  ASSUME IInv, TypeOK', AgentsAdvance, NEW a \in Agents, NEW g \in Generations,
         NEW at \in TaskStates \ {"none"}, Becomes(a, g, at),
         task[a][g] \notin {"none", "gated", "running"}, UNCHANGED <<drain, slots>>
  PROVE  IInv'
<1>1. waits' = waits /\ permits' = permits /\ debts' = debts /\ drain' = drain
  BY DEF slots
<1>2. /\ IsFiniteSet(YieldedIn(waits)) /\ Cardinality(YieldedIn(waits)) \in Nat
      /\ permits \in Nat /\ debts \in Nat
  BY FS_CardinalityType DEF IInv, Accounts, TypeOK
<1>3. YieldedIn(waits') = YieldedIn(waits)
  BY <1>1
<1>4. QED
  BY <1>1, <1>2, <1>3, TaskStepKeeps

(* A step of a loop that ends drops its wait. *)
LEMMA LoopStopKeeps ==
  ASSUME IInv, TypeOK', AgentsAdvance, NEW a \in Agents, NEW g \in Generations,
         NEW at \in TaskStates \ {"none"}, Becomes(a, g, at),
         task[a][g] = "running", DropSlot(a), UNCHANGED drain
  PROVE  IInv'
<1>1. /\ IsFiniteSet(YieldedIn(waits)) /\ permits \in Nat /\ debts \in Nat
      /\ waits \in [Agents -> WaitStates]
  BY DEF IInv, Accounts, TypeOK, WaitStates
<1>2. /\ IsFiniteSet(YieldedIn(waits'))
      /\ permits' + debts + Cardinality(YieldedIn(waits))
           = permits + debts' + Cardinality(YieldedIn(waits'))
      /\ waits'[a] = "no" /\ \A b \in Agents : waits'[b] # "no" => waits[b] # "no"
      /\ Cardinality(YieldedIn(waits)) \in Nat /\ Cardinality(YieldedIn(waits')) \in Nat
  BY <1>1, SlotDropped
<1>3. QED
  BY <1>2, TaskStepKeeps

LEMMA TerminalIsNotQueued == Terminal \cap {"absent", "Queued"} = {} /\ Executing \cap {"absent", "Queued"} = {}
  BY DEF Terminal, Executing, Waiting

LEMMA SameAgents == ASSUME TypeOK, UNCHANGED agent PROVE AgentsAdvance
  BY AdvanceSame

LEMMA SettlesParkedAdvance ==
  ASSUME TypeOK, NEW F, SettlesParked(F)
  PROVE  AgentsAdvance
<1>1. AgentsMove(AfterSettle(F).agent) /\ agent' = AfterSettle(F).agent
  BY AfterSettleIs DEF SettlesParked
<1>2. QED
  BY <1>1, AdvanceSame, TerminalIsNotQueued DEF AgentsMove

(* Dispatch queues an agent that was absent. *)
LEMMA DispatchIs ==
  ASSUME TypeOK, NEW a \in Agents, Dispatch(a)
  PROVE  \E F \in SUBSET Parked :
            /\ MayFail(F) /\ agent[a].state = "absent"
            /\ agent'[a].state = "Queued" /\ agent'[a].gen = agent[a].gen
            /\ \A b \in Agents : b # a => agent'[b] = AfterSettle(F).agent[b]
            /\ parked' = AfterSettle(F).parked /\ idle' = AfterSettle(F).idle
<1>1. PICK F \in SUBSET Parked :
         /\ MayFail(F)
         /\ agent' = [AfterSettle(F).agent EXCEPT ![a].state = "Queued"]
         /\ parked' = AfterSettle(F).parked
         /\ idle' = AfterSettle(F).idle
  BY DEF Dispatch
<1> DEFINE g == AfterSettle(F).agent
<1>2. g \in [Agents -> AgentStatus] /\ \A b \in Agents : g[b].gen = agent[b].gen
  BY AfterSettleIs DEF AgentsMove
<1>3. agent' = [g EXCEPT ![a] = [g[a] EXCEPT !.state = "Queued"]]
  BY <1>1
<1> HIDE DEF g
<1>4. /\ [g[a] EXCEPT !.state = "Queued"].state = "Queued"
      /\ [g[a] EXCEPT !.state = "Queued"].gen = g[a].gen
  BY <1>2 DEF AgentStatus
<1>5. /\ agent'[a].state = "Queued" /\ agent'[a].gen = agent[a].gen
      /\ \A b \in Agents : b # a => agent'[b] = g[b]
  BY <1>2, <1>3, <1>4
<1>6. agent[a].state = "absent"
  BY DEF Dispatch, Present
<1>7. QED
  BY <1>1, <1>5, <1>6 DEF g

LEMMA DispatchAdvance == ASSUME TypeOK, NEW a \in Agents, Dispatch(a) PROVE AgentsAdvance
<1>1. PICK F \in SUBSET Parked :
            /\ agent[a].state = "absent"
            /\ agent'[a].state = "Queued" /\ agent'[a].gen = agent[a].gen
            /\ \A b \in Agents : b # a => agent'[b] = AfterSettle(F).agent[b]
  BY DispatchIs
<1>2. AgentsMove(AfterSettle(F).agent)
  BY AfterSettleIs
<1>3. QED
  BY <1>1, <1>2, AdvanceSame, TerminalIsNotQueued DEF AgentsMove

LEMMA DispatchKeeps == ASSUME IInv, NEW a \in Agents, Dispatch(a) PROVE IInv'
<1>1. TypeOK /\ TypeOK' /\ AgentsAdvance
  BY DispatchType, DispatchAdvance DEF IInv
<1>2. UNCHANGED <<task, slots, drain>>
  BY DEF Dispatch
<1>3. QED
  BY <1>1, <1>2, CalmKeeps

LEMMA DrainOffLoop ==
  ASSUME TypeOK, BeginDrain \/ Redrain
  PROVE  drain' = drain \/ {drain.at, drain'.at} \subseteq {"off", "loop"}
  BY DEF BeginDrain, Redrain, TypeOK

LEMMA BeginDrainKeeps == ASSUME IInv, BeginDrain \/ Redrain PROVE IInv'
<1>1. TypeOK /\ TypeOK'
  BY DrainTypes DEF IInv
<1>2. AgentsAdvance
  <2>1. CASE BeginDrain
    BY <1>1, <2>1, BeginDrainSettles, SettlesParkedAdvance
  <2>2. CASE Redrain
    BY <1>1, <2>2, SameAgents DEF Redrain, scheduler
  <2>3. QED
    BY <2>1, <2>2
<1>3. UNCHANGED <<task, slots>>
  BY DEF BeginDrain, Redrain
<1>4. QED
  BY <1>1, <1>2, <1>3, DrainOffLoop, CalmKeeps

LEMMA AccountNumbers ==
  ASSUME IInv
  PROVE  /\ Cardinality(HoldingIn(task)) \in Nat /\ Cardinality(YieldedIn(waits)) \in Nat
         /\ permits \in Nat /\ debts \in Nat /\ MaxConcurrent \in Nat
         /\ IsFiniteSet(HoldingIn(task)) /\ IsFiniteSet(YieldedIn(waits))
         /\ waits \in [Agents -> WaitStates] /\ task \in TaskFunctions
         /\ permits + Cardinality(HoldingIn(task)) + InHand
              = MaxConcurrent + debts + Cardinality(YieldedIn(waits))
  BY FS_CardinalityType, SupervisorAssumption DEF IInv, Accounts, TypeOK, WaitStates, TaskFunctions

LEMMA TakePermitKeeps == ASSUME IInv, TakePermit PROVE IInv'
<1>1. TypeOK /\ TypeOK' /\ AgentsAdvance
  BY DrainTypes, SameAgents DEF IInv, TakePermit, scheduler
<1>2. /\ task' = task /\ waits' = waits /\ debts' = debts /\ drain.at = "loop"
      /\ \/ permits > 0 /\ permits' = permits - 1 /\ drain' = [drain EXCEPT !.at = "permit"]
         \/ permits' = permits /\ drain' = [drain EXCEPT !.at = "off"]
  BY DEF TakePermit
<1>3. \/ permits' = permits - 1 /\ drain'.at = "permit" /\ permits > 0
      \/ permits' = permits /\ drain'.at = "off"
  BY <1>1, <1>2 DEF TypeOK
<1>4. TurnsAreFresh' /\ DrainHasTask' /\ WaitersRun'
  BY <1>1, <1>2, <1>3, FreshKept DEF IInv, DrainHasTask, WaitersRun
<1>5. Accounts'
  <2>1. permits' + InHand' = permits + InHand /\ InHand \in Nat /\ InHand' \in Nat /\ permits' \in Nat
    BY <1>2, <1>3, AccountNumbers DEF InHand
  <2>2. HoldingIn(task') = HoldingIn(task) /\ YieldedIn(waits') = YieldedIn(waits)
    BY <1>2
  <2>3. permits' + Cardinality(HoldingIn(task)) + InHand'
          = MaxConcurrent + debts + Cardinality(YieldedIn(waits))
    BY <2>1, AccountNumbers
  <2>4. QED
    BY <1>2, <2>2, <2>3, AccountNumbers DEF Accounts
<1>6. QED
  BY <1>1, <1>4, <1>5 DEF IInv

LEMMA EndDrainKeeps == ASSUME IInv, EndDrain PROVE IInv'
<1>1. TypeOK /\ TypeOK' /\ AgentsAdvance
  BY EndDrainType, SameAgents DEF IInv, Accounts, EndDrain, scheduler
<1>2. task' = task /\ AddPermit(waits) /\ drain.at = "permit" /\ drain' = [drain EXCEPT !.at = "off"]
  BY DEF EndDrain
<1>3. drain'.at = "off"
  BY <1>1, <1>2 DEF TypeOK
<1>4. /\ permits' \in Nat /\ debts' \in Nat
      /\ IsFiniteSet(YieldedIn(waits')) /\ Cardinality(YieldedIn(waits')) \in Nat
      /\ permits' + debts + Cardinality(YieldedIn(waits))
           = permits + 1 + debts' + Cardinality(YieldedIn(waits'))
      /\ \A a \in Agents : waits'[a] # "no" => waits[a] # "no"
  BY <1>2, AccountNumbers, PermitAdded
<1>5. TurnsAreFresh' /\ DrainHasTask' /\ WaitersRun'
  BY <1>1, <1>2, <1>3, <1>4, FreshKept DEF IInv, DrainHasTask, WaitersRun
<1>6. Accounts'
  <2>1. InHand = 1 /\ InHand' = 0
    BY <1>2, <1>3 DEF InHand
  <2>2. HoldingIn(task') = HoldingIn(task)
    BY <1>2
  <2>3. permits' + Cardinality(HoldingIn(task)) + InHand'
          = MaxConcurrent + debts' + Cardinality(YieldedIn(waits'))
    <3> DEFINE y == Cardinality(YieldedIn(waits))
               z == Cardinality(YieldedIn(waits'))
               h == Cardinality(HoldingIn(task))
    <3>1. /\ y \in Nat /\ z \in Nat /\ h \in Nat /\ permits' + debts + y = permits + 1 + debts' + z
          /\ permits + h + 1 = MaxConcurrent + debts + y
          /\ permits \in Nat /\ debts \in Nat /\ MaxConcurrent \in Nat
      BY <1>4, <2>1, AccountNumbers
    <3> HIDE DEF y, z, h
    <3>2. permits' + h + 0 = MaxConcurrent + debts' + z
      BY ONLY <1>4, <3>1
    <3>3. QED
      BY <2>1, <3>2 DEF z, h
  <2>4. QED
    BY <1>4, <2>2, <2>3, AccountNumbers DEF Accounts
<1>7. QED
  BY <1>1, <1>5, <1>6 DEF IInv

LEMMA PromoteKeeps == ASSUME IInv, Promote PROVE IInv'
<1>1. TypeOK /\ TypeOK'
  BY PromoteType DEF IInv
<1>2. PICK a \in Oldest : agent[a].handed = "no" /\ Started(a)
  BY DEF Promote
<1> DEFINE g == agent[a].gen
<1>3. /\ a \in Agents /\ g \in Generations
      /\ agent[a].state = "Queued" /\ agent'[a].state = "Starting" /\ agent'[a].gen = g
      /\ \A b \in Agents : b # a => agent'[b] = agent[b]
      /\ Becomes(a, g, "gated") /\ drain' = [at |-> "publish", agent |-> a]
  BY <1>1, <1>2, PromoteIs
<1>4. UNCHANGED slots /\ drain.at = "permit"
  BY DEF Promote
<1>5. task[a][g] = "none"
  BY <1>3 DEF IInv, TurnsAreFresh
<1>6. \A b \in Agents : agent[b].gen \in Generations
  BY <1>1 DEF TypeOK, AgentStatus
<1> HIDE DEF g
<1>7. "gated" \in TaskStates
  BY DEF TaskStates
<1>8. /\ task' = [task EXCEPT ![a][g] = "gated"] /\ task'[a][g] = "gated"
      /\ \A b \in Agents, h \in Generations :
            task'[b][h] = IF b = a /\ h = g THEN "gated" ELSE task[b][h]
  <2>1. task' = [task EXCEPT ![a][g] = "gated"]
    BY <1>3 DEF Becomes
  <2>2. QED
    BY <1>1, <1>3, <1>7, <2>1, BecomesIs, TypeParts
<1>9. TurnsAreFresh'
  <2>1. ASSUME NEW b \in Agents, NEW h \in Generations,
               \/ h > agent'[b].gen
               \/ h = agent'[b].gen /\ agent'[b].state \in {"absent", "Queued"}
        PROVE  task'[b][h] = "none"
    <3>1. CASE b = a
      <4>1. h > g
        BY <1>3, <2>1, <3>1
      <4>2. h # g
        BY <1>3, <4>1, NoTurnIsNone
      <4>3. task[b][h] = "none"
        BY <1>3, <3>1, <4>1 DEF IInv, TurnsAreFresh, g
      <4>4. QED
        BY <1>8, <2>1, <4>2, <4>3
    <3>2. CASE b # a
      BY <1>3, <1>8, <2>1, <3>2 DEF IInv, TurnsAreFresh
    <3>3. QED
      BY <3>1, <3>2
  <2>2. QED
    BY <2>1 DEF TurnsAreFresh
<1>10. DrainHasTask'
  BY <1>3, <1>8 DEF DrainHasTask
<1>11. WaitersRun'
  <2>1. ASSUME NEW b \in Agents, waits'[b] # "no"
        PROVE  \E h \in Generations : task'[b][h] = "running"
    <3>1. PICK h \in Generations : task[b][h] = "running"
      BY <1>4, <2>1 DEF IInv, WaitersRun, slots
    <3>2. task'[b][h] = "running"
      BY <1>5, <1>8, <3>1
    <3>3. QED
      BY <3>2
  <2>2. QED
    BY <2>1 DEF WaitersRun
<1>12. Accounts'
  <2>1. /\ IsFiniteSet(HoldingIn(task'))
        /\ Cardinality(HoldingIn(task')) = Cardinality(HoldingIn(task)) + 1
    BY <1>3, <1>5, <1>7, <1>8, AccountNumbers, HoldingOneMore
  <2>2. InHand = 1 /\ InHand' = 0
    BY <1>3, <1>4 DEF InHand
  <2>3. permits' = permits /\ waits' = waits /\ debts' = debts
    BY <1>4 DEF slots
  <2>4. permits' + Cardinality(HoldingIn(task')) + InHand'
          = MaxConcurrent + debts' + Cardinality(YieldedIn(waits))
    BY <2>1, <2>2, <2>3, AccountNumbers
  <2>5. QED
    BY <2>1, <2>3, <2>4, AccountNumbers DEF Accounts
<1>13. QED
  BY <1>1, <1>9, <1>10, <1>11, <1>12 DEF IInv

LEMMA PublishKeeps == ASSUME IInv, Publish PROVE IInv'
<1>1. TypeOK /\ TypeOK' /\ AgentsAdvance
  BY PublishType, SameAgents DEF IInv, Publish, scheduler
<1> DEFINE a == drain.agent
           g == CHOOSE g \in Generations : task[a][g] = "gated"
<1>2. a \in Agents /\ g \in Generations /\ task[a][g] = "gated" /\ Becomes(a, g, "running")
  BY <1>1, PublishIs DEF IInv
<1>3. UNCHANGED slots /\ drain.at = "publish" /\ drain' = [at |-> "loop", agent |-> NoAgent]
  BY DEF Publish
<1> HIDE DEF a, g
<1>4. "running" \in TaskStates
  BY DEF TaskStates
<1>5. /\ \A b \in Agents, h \in Generations :
            task'[b][h] = IF b = a /\ h = g THEN "running" ELSE task[b][h]
      /\ HoldingIn(task') = HoldingIn(task)
  BY <1>1, <1>2, <1>4, BecomesIs, TypeParts
<1>6. TurnsAreFresh'
  BY <1>1, <1>2, <1>5, FreshKept DEF IInv
<1>7. DrainHasTask'
  BY <1>3 DEF DrainHasTask
<1>8. WaitersRun'
  <2>1. ASSUME NEW b \in Agents, waits'[b] # "no"
        PROVE  \E h \in Generations : task'[b][h] = "running"
    <3>1. PICK h \in Generations : task[b][h] = "running"
      BY <1>3, <2>1 DEF IInv, WaitersRun, slots
    <3>2. task'[b][h] = "running"
      BY <1>5, <3>1
    <3>3. QED
      BY <3>2
  <2>2. QED
    BY <2>1 DEF WaitersRun
<1>9. Accounts'
  <2>1. InHand' = InHand
    BY <1>3 DEF InHand
  <2>2. permits' = permits /\ waits' = waits /\ debts' = debts
    BY <1>3 DEF slots
  <2>3. YieldedIn(waits') = YieldedIn(waits)
    BY <2>2
  <2>4. QED
    BY <1>5, <2>1, <2>2, <2>3 DEF IInv, Accounts
<1>10. QED
  BY <1>1, <1>6, <1>7, <1>8, <1>9 DEF IInv

(* The steps of a run_one task, but FreeSlot. *)
LEMMA LoopMovesKeeps ==
  ASSUME IInv, NEW a \in Agents, NEW g \in Generations,
         NEW to \in {"Running", "WaitingForTool"}, LoopMoves(a, g, to)
  PROVE  IInv'
<1>1. TypeOK /\ TypeOK' /\ SchedulerType
  BY LoopMovesType, TypeParts DEF IInv
<1>2. to \in States /\ to \notin {"absent", "Queued"}
  BY DEF States, Executing, Waiting
<1>3. /\ agent'[a].state = to /\ agent'[a].gen = agent[a].gen
      /\ \A b \in Agents : b # a => agent'[b] = agent[b]
  BY <1>1, <1>2, MovedIs DEF LoopMoves
<1>4. AgentsAdvance
  BY <1>1, <1>2, <1>3, AdvanceSame
<1>5. UNCHANGED <<task, slots>> /\ drain' = drain
  BY DEF LoopMoves, draining
<1>6. QED
  BY <1>1, <1>4, <1>5, CalmKeeps

LEMMA LoopStops ==
  ASSUME IInv, NEW a \in Agents, NEW g \in Generations,
         LoopFails(a, g) \/ \E to \in Terminal : LoopEnds(a, g, to)
  PROVE  IInv'
<1>1. TypeOK /\ SchedulerType /\ IsFiniteSet(YieldedIn(waits))
  BY TypeParts DEF IInv, Accounts
<1>2. CASE LoopFails(a, g)
  <2>1. TypeOK' /\ AgentsAdvance
    BY <1>1, <1>2, LoopFailsType, SameAgents DEF LoopFails, scheduler
  <2>2. task[a][g] = "running" /\ Becomes(a, g, "failed") /\ DropSlot(a) /\ UNCHANGED drain
    BY <1>2 DEF LoopFails, draining
  <2>3. QED
    BY <2>1, <2>2, LoopStopKeeps DEF TaskStates
<1>3. ASSUME NEW to \in Terminal, LoopEnds(a, g, to) PROVE IInv'
  <2>1. TypeOK'
    BY <1>1, <1>3, LoopEndsType
  <2>2. Ends(a, to) \/ FailsToEnd(a, to)
    BY <1>3 DEF LoopEnds
  <2>3. AgentsAdvance
    BY <1>1, <2>2, EndsIs, FailsToEndIs, AdvanceSame, TerminalIsNotQueued
  <2>4. task[a][g] = "running" /\ DropSlot(a) /\ UNCHANGED drain
    BY <1>3 DEF LoopEnds, draining
  <2>5. Becomes(a, g, "settled") \/ Becomes(a, g, "failed")
    BY <1>3 DEF LoopEnds
  <2>6. QED
    BY <2>1, <2>3, <2>4, <2>5, LoopStopKeeps DEF TaskStates
<1>4. QED
  BY <1>2, <1>3

LEMMA TerminalizeAdvance ==
  ASSUME TypeOK, NEW a \in Agents, NEW g \in Generations, Terminalize(a, g)
  PROVE  AgentsAdvance
<1>1. CASE UNCHANGED scheduler
  BY <1>1, SameAgents DEF scheduler
<1>2. ASSUME NEW to \in {"Failed", "Interrupted"}, Ends(a, to) \/ FailsToEnd(a, to)
      PROVE  AgentsAdvance
  <2>1. to \in Terminal /\ SchedulerType
    BY TypeParts DEF Terminal
  <2>2. QED
    BY <1>2, <2>1, EndsIs, FailsToEndIs, AdvanceSame, TerminalIsNotQueued
<1>3. QED
  BY <1>1, <1>2 DEF Terminalize

LEMMA TaskGoesOn ==
  ASSUME IInv, NEW a \in Agents, NEW g \in Generations,
         Terminalize(a, g) \/ NotifyTerminal(a, g) \/ Leave(a, g)
  PROVE  IInv'
<1>1. TypeOK /\ TypeOK'
  BY TerminalizeType, NotifyTerminalType, LeaveType DEF IInv
<1>2. AgentsAdvance
  BY <1>1, TerminalizeAdvance, SameAgents DEF NotifyTerminal, Leave, scheduler
<1>3. task[a][g] \notin {"none", "gated", "running"} /\ UNCHANGED <<drain, slots>>
  BY DEF Terminalize, NotifyTerminal, Leave, draining
<1>4. \E at \in {"leaving", "settled", "freeing"} : Becomes(a, g, at)
  BY DEF Terminalize, NotifyTerminal, Leave
<1>5. QED
  BY <1>1, <1>2, <1>3, <1>4, TaskOnlyKeeps DEF TaskStates

LEMMA FreeSlotKeeps ==
  ASSUME IInv, NEW a \in Agents, NEW g \in Generations, FreeSlot(a, g)
  PROVE  IInv'
<1>1. TypeOK /\ TypeOK' /\ AgentsAdvance
  BY FreeSlotType, SameAgents DEF IInv, Accounts, FreeSlot, scheduler
<1>2. task[a][g] = "freeing" /\ AddPermit(waits) /\ Becomes(a, g, "none") /\ UNCHANGED drain
  BY DEF FreeSlot
<1>3. task' = [task EXCEPT ![a][g] = "none"]
  BY <1>2 DEF Becomes
<1>4. \A b \in Agents, h \in Generations :
         task'[b][h] = IF b = a /\ h = g THEN "none" ELSE task[b][h]
  BY <1>1, <1>2, BecomesIs, TypeParts DEF TaskStates
<1>5. /\ permits' \in Nat /\ debts' \in Nat
      /\ IsFiniteSet(YieldedIn(waits')) /\ Cardinality(YieldedIn(waits')) \in Nat
      /\ permits' + debts + Cardinality(YieldedIn(waits))
           = permits + 1 + debts' + Cardinality(YieldedIn(waits'))
      /\ \A b \in Agents : waits'[b] # "no" => waits[b] # "no"
  BY <1>2, AccountNumbers, PermitAdded
<1>6. TurnsAreFresh'
  BY <1>1, <1>4, FreshKept DEF IInv
<1>7. DrainHasTask'
  BY <1>2, <1>4 DEF IInv, DrainHasTask
<1>8. WaitersRun'
  <2>1. ASSUME NEW b \in Agents, waits'[b] # "no"
        PROVE  \E h \in Generations : task'[b][h] = "running"
    <3>1. PICK h \in Generations : task[b][h] = "running"
      BY <1>5, <2>1 DEF IInv, WaitersRun
    <3>2. task'[b][h] = "running"
      BY <1>2, <1>4, <3>1
    <3>3. QED
      BY <3>2
  <2>2. QED
    BY <2>1 DEF WaitersRun
<1>9. Accounts'
  <2>1. /\ IsFiniteSet(HoldingIn(task')) /\ Cardinality(HoldingIn(task')) \in Nat
        /\ Cardinality(HoldingIn(task')) + 1 = Cardinality(HoldingIn(task))
    BY <1>2, <1>3, AccountNumbers, HoldingOneLess
  <2>2. InHand' = InHand /\ InHand \in Nat
    BY <1>2 DEF InHand
  <2> DEFINE y == Cardinality(YieldedIn(waits))
             z == Cardinality(YieldedIn(waits'))
             h == Cardinality(HoldingIn(task))
             k == Cardinality(HoldingIn(task'))
  <2>3. /\ y \in Nat /\ z \in Nat /\ h \in Nat /\ k \in Nat
        /\ permits' + debts + y = permits + 1 + debts' + z /\ k + 1 = h
        /\ permits + h + InHand = MaxConcurrent + debts + y
        /\ permits \in Nat /\ debts \in Nat /\ MaxConcurrent \in Nat
    BY <1>5, <2>1, AccountNumbers
  <2> HIDE DEF y, z, h, k
  <2>4. permits' + k + InHand = MaxConcurrent + debts' + z
    BY ONLY <1>5, <2>2, <2>3
  <2>5. permits' + k + InHand' = MaxConcurrent + debts' + z
    BY <2>2, <2>4
  <2>6. QED
    BY <1>5, <2>1, <2>5 DEF Accounts, z, k
<1>10. QED
  BY <1>1, <1>6, <1>7, <1>8, <1>9 DEF IInv

LEMMA BeginWaitKeeps ==
  ASSUME IInv, NEW a \in Agents, NEW g \in Generations, BeginWait(a, g)
  PROVE  IInv'
<1>1. TypeOK /\ TypeOK' /\ SchedulerType
  BY WaitTypes, TypeParts DEF IInv, Accounts
<1> DEFINE w == [waits EXCEPT ![a] = "waiting"]
<1>2. /\ w \in [Agents -> WaitStates] /\ IsFiniteSet(YieldedIn(w)) /\ AddPermit(w)
      /\ Cardinality(YieldedIn(waits)) \in Nat
      /\ Cardinality(YieldedIn(w)) = Cardinality(YieldedIn(waits)) + 1
      /\ \A b \in Agents : w[b] # "no" => b = a \/ waits[b] # "no"
  BY <1>1, BeginWaitIs DEF IInv, Accounts
<1> HIDE DEF w
<1>3. task' = task /\ drain' = drain /\ task[a][g] = "running"
  BY DEF BeginWait
<1>4. AgentsAdvance
  <2>1. "WaitingForAgent" \in States /\ "WaitingForAgent" \notin {"absent", "Queued"}
    BY DEF States, Executing, Waiting
  <2>2. /\ agent'[a].state = "WaitingForAgent" /\ agent'[a].gen = agent[a].gen
        /\ \A b \in Agents : b # a => agent'[b] = agent[b]
    BY <1>1, <2>1, MovedIs DEF BeginWait
  <2>3. QED
    BY <1>1, <2>1, <2>2, AdvanceSame
<1>5. /\ permits' \in Nat /\ debts' \in Nat
      /\ IsFiniteSet(YieldedIn(waits')) /\ Cardinality(YieldedIn(waits')) \in Nat
      /\ permits' + debts + Cardinality(YieldedIn(w))
           = permits + 1 + debts' + Cardinality(YieldedIn(waits'))
      /\ \A b \in Agents : waits'[b] # "no" => w[b] # "no"
  BY <1>2, AccountNumbers, PermitAdded
<1>6. TurnsAreFresh' /\ DrainHasTask'
  BY <1>1, <1>3, <1>4, FreshKept DEF IInv, DrainHasTask
<1>7. WaitersRun'
  BY <1>2, <1>3, <1>5 DEF IInv, WaitersRun
<1>8. Accounts'
  <2>1. InHand' = InHand /\ InHand \in Nat
    BY <1>3 DEF InHand
  <2>2. HoldingIn(task') = HoldingIn(task)
    BY <1>3
  <2> DEFINE x == Cardinality(YieldedIn(waits))
             y == Cardinality(YieldedIn(w))
             z == Cardinality(YieldedIn(waits'))
             h == Cardinality(HoldingIn(task))
  <2>3. /\ x \in Nat /\ y = x + 1 /\ z \in Nat /\ h \in Nat
        /\ permits' + debts + y = permits + 1 + debts' + z
        /\ permits + h + InHand = MaxConcurrent + debts + x
        /\ permits \in Nat /\ debts \in Nat /\ MaxConcurrent \in Nat
    BY <1>2, <1>5, AccountNumbers
  <2> HIDE DEF x, y, z, h
  <2>4. permits' + h + InHand = MaxConcurrent + debts' + z
    BY ONLY <1>5, <2>1, <2>3
  <2>5. QED
    BY <1>5, <2>1, <2>2, <2>4, AccountNumbers DEF Accounts, z, h
<1>9. QED
  BY <1>1, <1>6, <1>7, <1>8 DEF IInv

LEMMA EndWaitKeeps == ASSUME IInv, NEW a \in Agents, EndWait(a) PROVE IInv'
<1>1. TypeOK /\ TypeOK' /\ AgentsAdvance
  BY WaitTypes, SameAgents DEF IInv, Accounts, EndWait, scheduler
<1>2. task' = task /\ drain' = drain /\ debts' = debts /\ waits[a] = "waiting"
  BY DEF EndWait, draining
<1>3. TurnsAreFresh' /\ DrainHasTask'
  BY <1>1, <1>2, FreshKept DEF IInv, DrainHasTask
<1>4. InHand' = InHand /\ InHand \in Nat /\ HoldingIn(task') = HoldingIn(task)
  BY <1>2 DEF InHand
<1>5. CASE permits > 0 /\ permits' = permits - 1 /\ waits' = [waits EXCEPT ![a] = "no"]
  <2> DEFINE v == [waits EXCEPT ![a] = "no"]
  <2>1. /\ v \in [Agents -> WaitStates] /\ IsFiniteSet(YieldedIn(v))
        /\ Cardinality(YieldedIn(v)) \in Nat
        /\ Cardinality(YieldedIn(v)) + 1 = Cardinality(YieldedIn(waits))
    BY <1>2, AccountNumbers, YieldedOneLess
  <2>2. waits' = v /\ \A b \in Agents : v[b] # "no" => waits[b] # "no"
    BY <1>5
  <2> HIDE DEF v
  <2>3. WaitersRun'
    BY <1>2, <2>2 DEF IInv, WaitersRun
  <2>4. permits' + Cardinality(HoldingIn(task)) + InHand
          = MaxConcurrent + debts + Cardinality(YieldedIn(v))
    BY <1>4, <1>5, <2>1, AccountNumbers
  <2>5. Accounts'
    BY <1>2, <1>4, <2>1, <2>2, <2>4, AccountNumbers DEF Accounts
  <2>6. QED
    BY <1>1, <1>3, <2>3, <2>5 DEF IInv
<1>6. CASE waits' = [waits EXCEPT ![a] = "resuming"] /\ permits' = permits
  <2>1. \A b \in Agents : waits'[b] # "no" <=> waits[b] # "no"
    BY <1>1, <1>2, <1>6 DEF TypeOK
  <2>2. YieldedIn(waits') = YieldedIn(waits)
    BY <2>1 DEF YieldedIn
  <2>3. WaitersRun'
    BY <1>2, <2>1 DEF IInv, WaitersRun
  <2>4. Accounts'
    BY <1>2, <1>4, <1>6, <2>2, AccountNumbers DEF Accounts
  <2>5. QED
    BY <1>1, <1>3, <2>3, <2>4 DEF IInv
<1>7. QED
  BY <1>5, <1>6 DEF EndWait

(* The agents that an interrupt ends, and the callers that change none. *)
LEMMA InterruptAdvance ==
  ASSUME TypeOK, NEW i \in Interrupters, Interrupt(i)
  PROVE  AgentsAdvance /\ UNCHANGED <<task, slots>> /\ drain' = drain
<1>1. SchedulerType /\ "Interrupted" \in Terminal
  BY TypeParts DEF Terminal
<1>2. ASSUME NEW a \in Agents, InterruptChild(i, a)
      PROVE  AgentsAdvance /\ UNCHANGED <<task, slots>> /\ drain' = drain
  <2>1. Ends(a, "Interrupted") /\ UNCHANGED <<task, slots>> /\ drain' = drain
    BY <1>2 DEF InterruptChild, draining
  <2>2. QED
    BY <1>1, <2>1, EndsIs, AdvanceSame, TerminalIsNotQueued
<1>3. ASSUME NEW a \in Agents, InterruptFails(i, a)
      PROVE  AgentsAdvance /\ UNCHANGED <<task, slots>> /\ drain' = drain
  <2>1. /\ FailsToEnd(a, "Interrupted") \/ UNCHANGED agent
        /\ UNCHANGED <<task, slots>> /\ drain' = drain
    BY <1>3 DEF InterruptFails, draining, scheduler
  <2>2. CASE UNCHANGED agent
    BY <2>1, <2>2, SameAgents
  <2>3. CASE FailsToEnd(a, "Interrupted")
    BY <1>1, <2>1, <2>3, FailsToEndIs, AdvanceSame
  <2>4. QED
    BY <2>1, <2>2, <2>3
<1>4. CASE UNCHANGED <<scheduler, task, slots, draining>>
  BY <1>4, SameAgents DEF scheduler, draining
<1>5. ASSUME NEW a \in Agents, BeginInterrupt(i, a) \/ PassOver(i, a)
      PROVE  UNCHANGED <<scheduler, task, slots, draining>>
  BY <1>5 DEF BeginInterrupt, PassOver
<1>6. ASSUME \/ LockLive(i) \/ UnlockLive(i) \/ EndInterrupt(i)
             \/ \E t \in Turns : TellInterrupted(i, t)
      PROVE  UNCHANGED <<scheduler, task, slots, draining>>
  BY <1>6 DEF LockLive, UnlockLive, EndInterrupt, TellInterrupted
<1>7. QED
  BY <1>2, <1>3, <1>4, <1>5, <1>6 DEF Interrupt

LEMMA FollowUpAdvance ==
  ASSUME TypeOK, NEW f \in Followers, FollowUp(f)
  PROVE  AgentsAdvance /\ UNCHANGED <<task, slots>> /\ drain' = drain
<1>1. SchedulerType
  BY TypeParts
<1>2. ASSUME NEW a \in Agents, CheckNotLive(f, a)
      PROVE  AgentsAdvance /\ UNCHANGED <<task, slots>> /\ drain' = drain
  BY <1>2, SameAgents DEF CheckNotLive, scheduler, draining
<1>3. ASSUME NEW a \in Agents, BeginFollowup(f, a)
      PROVE  AgentsAdvance /\ UNCHANGED <<task, slots>> /\ drain' = drain
  <2>1. UNCHANGED <<task, slots>> /\ drain' = drain
    BY <1>3 DEF BeginFollowup
  <2>2. CASE UNCHANGED scheduler
    BY <2>1, <2>2, SameAgents DEF scheduler
  <2>3. CASE /\ agent'[a].gen = agent[a].gen + 1
             /\ \A b \in Agents : b # a => agent'[b] = agent[b]
    <3>1. \A b \in Agents : agent[b].gen \in Nat
      BY NoTurnIsNone DEF TypeOK, AgentStatus
    <3>2. AgentsAdvance
      BY <2>3, <3>1 DEF AgentsAdvance
    <3>3. QED
      BY <2>1, <3>2
  <2>4. QED
    BY <1>1, <1>3, <2>2, <2>3, BeginFollowupIs
<1>4. QED
  BY <1>2, <1>3 DEF FollowUp

LEMMA WaitForIdleAdvance ==
  ASSUME TypeOK, NEW o \in Observers, WaitForIdle(o)
  PROVE  AgentsAdvance /\ UNCHANGED <<task, slots>> /\ drain' = drain
<1>1. CASE ArmWaiter(o)
  <2>1. UNCHANGED <<task, slots>> /\ drain' = drain
    BY <1>1 DEF ArmWaiter, draining
  <2>2. QED
    BY <1>1, <2>1, ArmWaiterSettles, SettlesParkedAdvance
<1>2. CASE ReadState(o) \/ ReadLive(o) \/ FallAsleep(o) \/ IdleTimesOut(o)
  <2>1. UNCHANGED <<agent, task, slots>> /\ drain' = drain
    BY <1>2 DEF ReadState, ReadLive, FallAsleep, IdleTimesOut, scheduler, draining
  <2>2. QED
    BY <2>1, SameAgents
<1>3. QED
  BY <1>1, <1>2 DEF WaitForIdle

LEMMA CallsKeep ==
  ASSUME IInv, \/ \E i \in Interrupters : Interrupt(i)
               \/ \E f \in Followers : FollowUp(f)
               \/ \E o \in Observers : WaitForIdle(o)
  PROVE  IInv'
<1>1. TypeOK /\ TypeOK'
  BY InterruptTypes, FollowUpTypes, WaitForIdleTypes DEF IInv
<1>2. AgentsAdvance /\ UNCHANGED <<task, slots>> /\ drain' = drain
  BY <1>1, InterruptAdvance, FollowUpAdvance, WaitForIdleAdvance
<1>3. QED
  BY <1>1, <1>2, CalmKeeps

LEMMA StutterKeeps == ASSUME IInv, UNCHANGED vars PROVE IInv'
<1>1. UNCHANGED <<task, slots>> /\ drain' = drain /\ UNCHANGED agent
  BY DEF vars, scheduler, draining
<1>2. TypeOK'
  BY DEF IInv, TypeOK, vars, scheduler, slots, draining, callers
<1>3. QED
  BY <1>1, <1>2, CalmKeeps, SameAgents DEF IInv

LEMMA RunOneKeeps == ASSUME IInv, NEW t \in Turns, RunOne(t[1], t[2]) PROVE IInv'
<1>1. t[1] \in Agents /\ t[2] \in Generations
  BY DEF Turns
<1>2. QED
  BY <1>1, LoopMovesKeeps, LoopStops, TaskGoesOn, FreeSlotKeeps, BeginWaitKeeps DEF RunOne

LEMMA InitType == Init => TypeOK
<1> SUFFICES ASSUME Init PROVE TypeOK
  OBVIOUS
<1>1. 0 \in Generations /\ 0 \in 0..MaxFaults /\ MaxConcurrent \in Nat
  BY SupervisorAssumption DEF Generations
<1>2. SchedulerType
  <2>1. [state |-> "absent", gen |-> 0, handed |-> "no", authorized |-> FALSE] \in AgentStatus
    BY <1>1 DEF AgentStatus
  <2>2. QED
    BY <2>1 DEF Init, SchedulerType
<1>3. TaskType
  BY DEF Init, TaskType, TaskFunctions, TaskStates
<1>4. SlotType
  BY <1>1 DEF Init, SlotType, WaitStates
<1>5. DrainType
  BY DEF Init, DrainType, DrainStatus
<1>6. CallType
  BY <1>1, CallTypes DEF Init, CallType
<1>7. QED
  BY <1>2, <1>3, <1>4, <1>5, <1>6, TypeParts

LEMMA InitInv == Init => IInv
<1> SUFFICES ASSUME Init PROVE IInv
  OBVIOUS
<1>1. TypeOK
  BY InitType
<1>2. TurnsAreFresh /\ DrainHasTask /\ WaitersRun
  BY DEF Init, TurnsAreFresh, DrainHasTask, WaitersRun
<1>3. Accounts
  <2>1. HoldingIn(task) = {}
    BY DEF Init, HoldingIn, Turns
  <2>2. YieldedIn(waits) = {}
    BY DEF Init, YieldedIn
  <2>3. InHand = 0 /\ permits = MaxConcurrent /\ debts = 0
    BY DEF Init, InHand
  <2>4. MaxConcurrent \in Nat
    BY SupervisorAssumption
  <2>5. QED
    BY <2>1, <2>2, <2>3, <2>4, FS_EmptySet DEF Accounts
<1>4. QED
  BY <1>1, <1>2, <1>3 DEF IInv

LEMMA NextKeeps == IInv /\ [Next]_vars => IInv'
<1> SUFFICES ASSUME IInv, [Next]_vars PROVE IInv'
  OBVIOUS
<1>1. CASE UNCHANGED vars
  BY <1>1, StutterKeeps
<1>2. ASSUME NEW a \in Agents, Dispatch(a) \/ EndWait(a) PROVE IInv'
  BY <1>2, DispatchKeeps, EndWaitKeeps
<1>3. CASE Redrain \/ Drain
  BY <1>3, BeginDrainKeeps, TakePermitKeeps, EndDrainKeeps, PromoteKeeps, PublishKeeps DEF Drain
<1>4. QED
  BY <1>1, <1>2, <1>3, RunOneKeeps, CallsKeep DEF Next

(* The account of permits, with the types and the fresh turns that it needs, is *)
(* invariant.                                                                 *)
THEOREM Invariant == Spec => []IInv
  BY InitInv, NextKeeps, PTL DEF Spec

-----------------------------------------------------------------------------
(* SlotsBoundLoops. *)

(* A waiting parent has a running turn of its own; it is not one that executes. *)
TurnOf(a) == <<a, CHOOSE g \in Generations : task[a][g] = "running">>
WaitingTurns == {TurnOf(a) : a \in YieldedIn(waits)}

LEMMA WaitingTurnsAre ==
  ASSUME IInv
  PROVE  /\ IsFiniteSet(WaitingTurns)
         /\ Cardinality(WaitingTurns) = Cardinality(YieldedIn(waits))
         /\ WaitingTurns \subseteq HoldingIn(task)
         /\ \A t \in WaitingTurns : ~Executes(t)
<1>1. ASSUME NEW a \in YieldedIn(waits)
      PROVE  /\ TurnOf(a) \in HoldingIn(task) /\ TurnOf(a)[1] = a /\ ~Executes(TurnOf(a))
  <2> DEFINE g == CHOOSE g \in Generations : task[a][g] = "running"
  <2>1. a \in Agents /\ waits[a] # "no"
    BY DEF YieldedIn
  <2>2. g \in Generations /\ task[a][g] = "running"
    BY <2>1 DEF IInv, WaitersRun
  <2>3. TurnOf(a) = <<a, g>>
    BY DEF TurnOf
  <2> HIDE DEF g
  <2>4. QED
    BY <2>1, <2>2, <2>3 DEF HoldingIn, Executes, Turns
<1> DEFINE f == [a \in YieldedIn(waits) |-> TurnOf(a)]
<1>2. f \in Bijection(YieldedIn(waits), WaitingTurns)
  <2>1. f \in [YieldedIn(waits) -> WaitingTurns]
    BY DEF WaitingTurns
  <2>2. \A a, b \in YieldedIn(waits) : f[a] = f[b] => a = b
    BY <1>1
  <2>3. \A t \in WaitingTurns : \E a \in YieldedIn(waits) : f[a] = t
    BY DEF WaitingTurns
  <2>4. DOMAIN f = YieldedIn(waits)
    OBVIOUS
  <2> HIDE DEF f
  <2>5. QED
    BY <2>1, <2>2, <2>3, <2>4 DEF Bijection, Injection, Surjection, IsInjective
<1>3. ExistsBijection(YieldedIn(waits), WaitingTurns)
  BY <1>2 DEF ExistsBijection
<1>4. /\ IsFiniteSet(WaitingTurns)
      /\ Cardinality(WaitingTurns) = Cardinality(YieldedIn(waits))
  BY <1>3, FS_Bijection, AccountNumbers
<1>5. QED
  BY <1>1, <1>4 DEF WaitingTurns

LEMMA InvBoundsLoops == IInv => SlotsBoundLoops
<1> SUFFICES ASSUME IInv PROVE SlotsBoundLoops
  OBVIOUS
<1> DEFINE E == {t \in Turns : Executes(t)}
           W == WaitingTurns
           H == HoldingIn(task)
<1>1. /\ IsFiniteSet(W) /\ Cardinality(W) = Cardinality(YieldedIn(waits))
      /\ W \subseteq H /\ \A t \in W : ~Executes(t)
  BY WaitingTurnsAre
<1>2. E \subseteq H /\ E \cap W = {} /\ E \cup W \subseteq H
  BY <1>1 DEF Executes, HoldingIn
<1>3. IsFiniteSet(H)
  BY AccountNumbers
<1> HIDE DEF E, W, H
<1>4. IsFiniteSet(E) /\ IsFiniteSet(E \cup W) /\ Cardinality(E \cup W) <= Cardinality(H)
  BY <1>2, <1>3, FS_Subset
<1>5. Cardinality(E \cup W) = Cardinality(E) + Cardinality(W)
  <2>1. Cardinality(E) \in Nat /\ Cardinality(W) \in Nat
    BY <1>1, <1>4, FS_CardinalityType
  <2>2. Cardinality(E \cup W) = Cardinality(E) + Cardinality(W) - Cardinality(E \cap W)
    BY <1>1, <1>4, FS_Union
  <2>3. Cardinality(E \cap W) = 0
    BY <1>2, FS_EmptySet
  <2>4. QED
    BY <2>1, <2>2, <2>3
<1>6. Cardinality(E) \in Nat /\ Cardinality(W) \in Nat /\ Cardinality(H) \in Nat
  BY <1>1, <1>3, <1>4, FS_CardinalityType
<1>7. /\ permits \in Nat /\ debts \in Nat /\ MaxConcurrent \in Nat
      /\ InHand \in Nat
      /\ permits + Cardinality(H) + InHand = MaxConcurrent + debts + Cardinality(W)
  BY <1>1, AccountNumbers DEF H, InHand
<1> DEFINE e == Cardinality(E)
           w == Cardinality(W)
           h == Cardinality(H)
<1>8. /\ e \in Nat /\ w \in Nat /\ h \in Nat /\ e + w <= h
      /\ permits + h + InHand = MaxConcurrent + debts + w
  BY <1>4, <1>5, <1>6, <1>7
<1> HIDE DEF e, w, h
<1>9. e <= MaxConcurrent + debts
  BY ONLY <1>7, <1>8
<1>10. QED
  BY <1>9 DEF e, E, SlotsBoundLoops

(* For any tree of agents and any callers: the variables keep their types. *)
THEOREM TypeCorrect == Spec => []TypeOK
  BY Invariant, PTL DEF IInv

(* The loops that execute never outnumber the permits, but by the permits that *)
(* a dropped wait still has to take back.                                      *)
THEOREM SlotsBound == Spec => []SlotsBoundLoops
  BY Invariant, InvBoundsLoops, PTL

-----------------------------------------------------------------------------
(* Lives is kept, but for a StaleFollowup. *)

NoGate(a) == \A g \in Generations : task[a][g] # "gated"

(* A step that does to an agent no more than to settle it. *)
StillAt(a) ==
    /\ agent'[a].gen = agent[a].gen
    /\ \/ agent'[a].state = agent[a].state
       \/ agent'[a].state \in Terminal /\ ~Settled(a)
    /\ \A g \in Generations : task'[a][g] = task[a][g]
    /\ live'[a] = live[a]
    /\ agent'[a].state \in Executing => parked'[a] = parked[a]
    /\ NoGate(a) \/ (drain' = drain /\ liveLock' = liveLock)

LEMMA StatesApart ==
  /\ Terminal \cap Executing = {} /\ Terminal \cap {"absent", "Queued"} = {}
  /\ Executing \cap {"absent", "Queued"} = {}
  BY DEF Terminal, Executing, Waiting

LEMMA GenIs == ASSUME TypeOK, NEW a \in Agents PROVE agent[a].gen \in Generations
  BY DEF TypeOK, AgentStatus

LEMMA StillLives ==
  ASSUME TypeOK, NEW a \in Agents, LiveIsTask(a), ExecutingHasTask(a), StillAt(a)
  PROVE  LiveIsTask(a)' /\ ExecutingHasTask(a)'
<1>1. LiveIsTask(a)'
  BY StatesApart DEF LiveIsTask, StillAt, NoGate
<1>2. ExecutingHasTask(a)'
  BY StatesApart, GenIs DEF ExecutingHasTask, StillAt
<1>3. QED
  BY <1>1, <1>2

(* A step may do more to one agent. *)
LEMMA LivesButOne ==
  ASSUME TypeOK, Lives, NEW a, \A b \in Agents \ {a} : StillAt(b),
         a \in Agents => LiveIsTask(a)' /\ ExecutingHasTask(a)',
         LockIsHeld'
  PROVE  Lives'
<1>1. \A b \in Agents \ {a} : LiveIsTask(b)' /\ ExecutingHasTask(b)'
  BY StillLives DEF Lives
<1>2. QED
  BY <1>1 DEF Lives

LEMMA LivesStill ==
  ASSUME TypeOK, Lives, \A b \in Agents : StillAt(b), LockIsHeld'
  PROVE  Lives'
<1>1. \A b \in Agents : LiveIsTask(b)' /\ ExecutingHasTask(b)'
  BY StillLives DEF Lives
<1>2. QED
  BY <1>1 DEF Lives

LEMMA NoGates ==
  ASSUME Lives, drain.at # "publish" \/ liveLock # "drain", NEW a \in Agents
  PROVE  NoGate(a)
  BY DEF Lives, LiveIsTask, NoGate

LEMMA HeldKept ==
  ASSUME LockIsHeld, UNCHANGED <<interrupter, liveLock>>
  PROVE  LockIsHeld'
  BY DEF LockIsHeld

(* What a task that has entered its loop says of its agent. *)
LEMMA EnteredIs ==
  ASSUME TypeOK, Lives, NEW a \in Agents, NEW g \in Generations, task[a][g] \in Entered
  PROVE  /\ live[a] = g /\ agent[a].gen = g /\ NoGate(a)
         /\ agent[a].state \notin {"absent", "Queued"}
         /\ \A h \in Generations : task[a][h] \in Entered => h = g
<1>1. live[a] = g /\ g # NoTurn
  BY NoTurnIsNone DEF Lives, LiveIsTask
<1>2. QED
  BY <1>1 DEF Lives, LiveIsTask, NoGate

(* What such a task becomes as it goes on. *)
LEMMA EnteredGoesOn ==
  ASSUME TypeOK, Lives, NEW a \in Agents, NEW g \in Generations, task[a][g] \in Entered,
         NEW at \in TaskStates \ {"gated"},
         \A b \in Agents, h \in Generations :
            task'[b][h] = IF b = a /\ h = g THEN at ELSE task[b][h],
         agent'[a].gen = g, agent'[a].state \notin {"absent", "Queued"},
         agent'[a].state \in Executing => at \in {"running", "failed"} \/ parked'[a] = g,
         IF at \in Entered THEN live'[a] = g ELSE live'[a] = NoTurn
  PROVE  LiveIsTask(a)' /\ ExecutingHasTask(a)'
<1>1. \A h \in Generations : task'[a][h] = IF h = g THEN at ELSE task[a][h]
  OBVIOUS
<1>2. g # NoTurn
  BY NoTurnIsNone
<1>3. NoGate(a) /\ \A h \in Generations : task[a][h] \in Entered => h = g
  BY EnteredIs
<1>4. LiveIsTask(a)'
  BY <1>1, <1>2, <1>3 DEF LiveIsTask, NoGate
<1>5. ExecutingHasTask(a)'
  BY <1>1 DEF ExecutingHasTask
<1>6. QED
  BY <1>4, <1>5

(* Steps in which every agent stays. *)

LEMMA SameAgentsStill ==
  ASSUME UNCHANGED <<agent, task, live, parked>>,
         \/ drain' = drain /\ liveLock' = liveLock
         \/ \A a \in Agents : NoGate(a)
  PROVE  \A a \in Agents : StillAt(a)
  BY DEF StillAt

LEMMA SettlesParkedStill ==
  ASSUME TypeOK, NEW F, SettlesParked(F), UNCHANGED <<task, live>>,
         \/ drain' = drain /\ liveLock' = liveLock
         \/ \A a \in Agents : NoGate(a)
  PROVE  \A a \in Agents : StillAt(a)
<1> DEFINE s == AfterSettle(F)
<1>1. /\ AgentsMove(s.agent) /\ \A a \in Rescued(F) : s.agent[a].state \in Terminal
      /\ \A a \in Agents : s.parked[a] = IF a \in F THEN parked[a] ELSE NoTurn
      /\ \A a \in Agents : a \notin Rescued(F) => s.agent[a] = agent[a]
  BY AfterSettleIs DEF SettlesParked
<1>2. agent' = s.agent /\ parked' = s.parked
  BY DEF SettlesParked
<1> HIDE DEF s
<1>3. ASSUME NEW a \in Agents, agent'[a].state \in Executing
      PROVE  parked'[a] = parked[a]
  <2>1. a \notin Rescued(F) /\ ~Settled(a)
    BY <1>1, <1>2, <1>3, StatesApart DEF Settled
  <2>2. a \in F \/ parked[a] = NoTurn
    BY <2>1 DEF Rescued, Parked
  <2>3. QED
    BY <1>1, <1>2, <2>2
<1>4. QED
  BY <1>1, <1>2, <1>3 DEF StillAt, AgentsMove

LEMMA DrainLives ==
  ASSUME IInv, Lives, BeginDrain \/ Redrain \/ TakePermit \/ EndDrain
  PROVE  Lives'
<1>1. TypeOK
  BY DEF IInv
<1>2. UNCHANGED <<interrupter, liveLock>>
  BY DEF BeginDrain, Redrain, TakePermit, EndDrain, callers
<1>3. \/ drain' = drain /\ liveLock' = liveLock
      \/ \A a \in Agents : NoGate(a)
  BY <1>2, NoGates DEF BeginDrain, Redrain, TakePermit, EndDrain
<1>4. \A a \in Agents : StillAt(a)
  <2>1. CASE BeginDrain
    <3>1. UNCHANGED <<task, live>>
      BY <2>1 DEF BeginDrain
    <3>2. QED
      BY <1>1, <1>3, <2>1, <3>1, BeginDrainSettles, SettlesParkedStill
  <2>2. CASE Redrain \/ TakePermit \/ EndDrain
    <3>1. UNCHANGED <<agent, task, live, parked>>
      BY <2>2 DEF Redrain, TakePermit, EndDrain, scheduler
    <3>2. QED
      BY <1>3, <3>1, SameAgentsStill
  <2>3. QED
    BY <2>1, <2>2
<1>5. LockIsHeld'
  BY <1>2, HeldKept DEF Lives
<1>6. QED
  BY <1>1, <1>2, <1>4, <1>5, LivesStill

LEMMA WaitForIdleLives ==
  ASSUME IInv, Lives, NEW o \in Observers, WaitForIdle(o)
  PROVE  Lives'
<1>1. TypeOK
  BY DEF IInv
<1>2. UNCHANGED <<interrupter, liveLock, drain>>
  BY DEF WaitForIdle, ArmWaiter, ReadState, ReadLive, FallAsleep, IdleTimesOut, callers, draining
<1>3. \A a \in Agents : StillAt(a)
  <2>1. CASE ArmWaiter(o)
    <3>1. UNCHANGED <<task, live>>
      BY <2>1 DEF ArmWaiter
    <3>2. QED
      BY <1>1, <1>2, <2>1, <3>1, ArmWaiterSettles, SettlesParkedStill
  <2>2. CASE ReadState(o) \/ ReadLive(o) \/ FallAsleep(o) \/ IdleTimesOut(o)
    <3>1. UNCHANGED <<agent, task, live, parked>>
      BY <2>2 DEF ReadState, ReadLive, FallAsleep, IdleTimesOut, scheduler
    <3>2. QED
      BY <1>2, <3>1, SameAgentsStill
  <2>3. QED
    BY <2>1, <2>2 DEF WaitForIdle
<1>4. LockIsHeld'
  BY <1>2, HeldKept DEF Lives
<1>5. QED
  BY <1>1, <1>2, <1>3, <1>4, LivesStill

LEMMA EndWaitLives == ASSUME IInv, Lives, NEW a \in Agents, EndWait(a) PROVE Lives'
<1>1. UNCHANGED <<agent, task, live, parked, drain, liveLock, interrupter>>
  BY DEF EndWait, scheduler, draining, callers
<1>2. QED
  BY <1>1, SameAgentsStill, HeldKept, LivesStill DEF IInv, Lives

(* Interrupts take the lock that they hold between their passes. *)

LEMMA LocksApart == ASSUME NEW i \in Interrupters PROVE i # "free" /\ i # "drain"
  BY SupervisorAssumption

NoneEnters ==
    /\ UNCHANGED liveLock
    /\ \A j \in Interrupters : interrupter'[j].at = "pass" => interrupter[j].at = "pass"

LEMMA InterruptHolds ==
  ASSUME TypeOK, Lives, NEW i \in Interrupters, Interrupt(i)
  PROVE  LockIsHeld'
<1>1. interrupter \in [Interrupters -> InterruptStatus] /\ LockIsHeld
  BY TypeParts DEF CallType, Lives
<1>2. CASE NoneEnters
  BY <1>1, <1>2 DEF LockIsHeld, NoneEnters
<1>3. ASSUME NEW a \in Agents, BeginInterrupt(i, a)
      PROVE  NoneEnters
  BY <1>1, <1>3 DEF BeginInterrupt, NoneEnters
<1>4. ASSUME NEW a \in Agents, PassOver(i, a)
      PROVE  NoneEnters
  BY <1>1, <1>4, PassedIs DEF PassOver, NoneEnters
<1>5. ASSUME NEW a \in Agents, InterruptChild(i, a)
      PROVE  NoneEnters
  <2>1. UNCHANGED liveLock
    BY <1>5 DEF InterruptChild
  <2>2. QED
    BY <1>5, <2>1, InterruptChildIs DEF NoneEnters
<1>6. ASSUME NEW t \in Turns, TellInterrupted(i, t)
      PROVE  NoneEnters
  <2> DEFINE e == interrupter[i].ended \ {t}
  <2>1. e \in SUBSET Turns
    BY <1>1 DEF InterruptStatus
  <2>2. /\ UNCHANGED liveLock
        /\ \/ interrupter' = [interrupter EXCEPT ![i].ended = e]
           \/ interrupter' = [interrupter EXCEPT ![i] = NoInterrupt]
    BY <1>6 DEF TellInterrupted
  <2> HIDE DEF e
  <2>3. CASE interrupter' = [interrupter EXCEPT ![i].ended = e]
    <3>1. \A j \in Interrupters : interrupter'[j].at = interrupter[j].at
      BY <1>1, <2>1, <2>3, EndedIs
    <3>2. QED
      BY <2>2, <3>1 DEF NoneEnters
  <2>4. CASE interrupter' = [interrupter EXCEPT ![i] = NoInterrupt]
    BY <1>1, <2>2, <2>4, InterrupterIs, CallTypes DEF NoInterrupt, NoneEnters
  <2>5. QED
    BY <2>2, <2>3, <2>4
<1>7. ASSUME EndInterrupt(i)
      PROVE  NoneEnters
  BY <1>1, <1>7, InterrupterIs, CallTypes DEF EndInterrupt, NoInterrupt, NoneEnters
<1>8. CASE LockLive(i)
  BY <1>1, <1>8, AtIs, LocksApart DEF LockLive, LockIsHeld
<1>9. CASE UnlockLive(i)
  BY <1>1, <1>9, AtIs DEF UnlockLive, LockIsHeld
<1>10. ASSUME NEW a \in Agents, InterruptFails(i, a) PROVE LockIsHeld'
  BY <1>1, <1>10, InterrupterIs, CallTypes DEF InterruptFails, LockIsHeld, NoInterrupt
<1>11. QED
  BY <1>2, <1>3, <1>4, <1>5, <1>6, <1>7, <1>8, <1>9, <1>10 DEF Interrupt

LEMMA InterruptLives == ASSUME IInv, Lives, NEW i \in Interrupters, Interrupt(i) PROVE Lives'
<1>1. TypeOK /\ SchedulerType /\ LockIsHeld /\ "Interrupted" \in Terminal
  BY TypeParts DEF IInv, Lives, Terminal
<1>2. UNCHANGED <<task, live, parked, drain>>
  BY DEF Interrupt, BeginInterrupt, LockLive, PassOver, InterruptChild, InterruptFails,
     UnlockLive, TellInterrupted, EndInterrupt, draining
<1>3. CASE UNCHANGED <<agent, liveLock>>
  BY <1>1, <1>2, <1>3, InterruptHolds, SameAgentsStill, LivesStill
<1>4. CASE LockLive(i) \/ UnlockLive(i)
  <2>1. UNCHANGED agent /\ liveLock # "drain"
    BY <1>1, <1>4, LocksApart DEF LockLive, UnlockLive, LockIsHeld, scheduler
  <2>2. QED
    BY <1>1, <1>2, <2>1, NoGates, InterruptHolds, SameAgentsStill, LivesStill
<1>5. ASSUME NEW a \in Agents, InterruptChild(i, a) \/ InterruptFails(i, a) PROVE Lives'
  <2>1. liveLock # "drain"
    BY <1>1, <1>5, LocksApart DEF InterruptChild, InterruptFails, LockIsHeld
  <2>2. \/ Ends(a, "Interrupted") /\ ~Settled(a)
        \/ FailsToEnd(a, "Interrupted")
        \/ UNCHANGED agent
    BY <1>5 DEF InterruptChild, InterruptFails, Unsettled, scheduler
  <2>3. \A b \in Agents : /\ agent'[b].gen = agent[b].gen
                          /\ \/ agent'[b].state = agent[b].state
                             \/ agent'[b].state \in Terminal /\ ~Settled(b)
    BY <1>1, <2>2, EndsIs, FailsToEndIs
  <2>4. \A b \in Agents : StillAt(b)
    BY <1>2, <2>1, <2>3, NoGates DEF StillAt
  <2>5. QED
    BY <1>1, <1>2, <2>4, InterruptHolds, LivesStill
<1>6. QED
  BY <1>3, <1>4, <1>5 DEF Interrupt, BeginInterrupt, PassOver, TellInterrupted, EndInterrupt,
     scheduler

(* Steps that do more to one agent. *)

LEMMA DispatchLives == ASSUME IInv, Lives, NEW a \in Agents, Dispatch(a) PROVE Lives'
<1>1. TypeOK
  BY DEF IInv
<1>2. UNCHANGED <<task, live, drain, liveLock, interrupter>>
  BY DEF Dispatch, callers
<1>3. PICK F \in SUBSET Parked :
            /\ agent[a].state = "absent"
            /\ agent'[a].state = "Queued" /\ agent'[a].gen = agent[a].gen
            /\ \A b \in Agents : b # a => agent'[b] = AfterSettle(F).agent[b]
            /\ parked' = AfterSettle(F).parked
  BY <1>1, DispatchIs
<1> DEFINE s == AfterSettle(F)
<1>4. /\ AgentsMove(s.agent) /\ \A b \in Rescued(F) : s.agent[b].state \in Terminal
      /\ \A b \in Agents : s.parked[b] = IF b \in F THEN parked[b] ELSE NoTurn
      /\ \A b \in Agents : b \notin Rescued(F) => s.agent[b] = agent[b]
  BY <1>1, AfterSettleIs
<1>5. \A b \in Agents : b # a => agent'[b] = s.agent[b] /\ parked' = s.parked
  BY <1>3
<1> HIDE DEF s
<1>6. ASSUME NEW b \in Agents \ {a}, agent'[b].state \in Executing
      PROVE  parked'[b] = parked[b]
  <2>1. b \notin Rescued(F) /\ ~Settled(b)
    BY <1>4, <1>5, <1>6, StatesApart DEF Settled
  <2>2. b \in F \/ parked[b] = NoTurn
    BY <2>1 DEF Rescued, Parked
  <2>3. QED
    BY <1>4, <1>5, <2>2
<1>7. \A b \in Agents \ {a} : StillAt(b)
  BY <1>2, <1>4, <1>5, <1>6 DEF StillAt, AgentsMove
<1>8. live[a] = NoTurn /\ ~Settled(a)
  BY <1>3, StatesApart DEF Lives, LiveIsTask, Settled
<1>9. LiveIsTask(a)' /\ ExecutingHasTask(a)'
  <2>1. LiveIsTask(a)'
    BY <1>2, <1>3, <1>8 DEF Lives, LiveIsTask
  <2>2. ExecutingHasTask(a)'
    BY <1>3, StatesApart DEF ExecutingHasTask
  <2>3. QED
    BY <2>1, <2>2
<1>10. QED
  BY <1>1, <1>2, <1>7, <1>8, <1>9, HeldKept, LivesButOne DEF Lives

LEMMA PromoteLives == ASSUME IInv, Lives, Promote PROVE Lives'
<1>1. TypeOK /\ TaskType /\ LockIsHeld
  BY TypeParts DEF IInv, Lives
<1>2. PICK a \in Oldest : agent[a].handed = "no" /\ Started(a)
  BY DEF Promote
<1> DEFINE g == agent[a].gen
<1>3. /\ a \in Agents /\ g \in Generations
      /\ agent[a].state = "Queued" /\ agent'[a].state = "Starting" /\ agent'[a].gen = g
      /\ \A b \in Agents : b # a => agent'[b] = agent[b]
      /\ Becomes(a, g, "gated") /\ drain' = [at |-> "publish", agent |-> a]
  BY <1>1, <1>2, PromoteIs
<1>4. /\ liveLock = "free" /\ liveLock' = "drain" /\ drain.at = "permit"
      /\ UNCHANGED <<live, parked, interrupter>>
  BY DEF Promote, callers
<1>5. \A b \in Agents : NoGate(b)
  BY <1>4, NoGates
<1> HIDE DEF g
<1>6. \A b \in Agents, h \in Generations :
            task'[b][h] = IF b = a /\ h = g THEN "gated" ELSE task[b][h]
  BY <1>1, <1>3, BecomesIs DEF TaskStates
<1>7. \A b \in Agents \ {a} : StillAt(b)
  BY <1>3, <1>4, <1>5, <1>6 DEF StillAt
<1>8. LiveIsTask(a) /\ live[a] = NoTurn
  BY <1>3 DEF Lives, LiveIsTask
<1>9. LiveIsTask(a)'
  <2>1. \A h \in Generations : task[a][h] \notin Entered
    BY <1>3, <1>8, NoTurnIsNone DEF LiveIsTask
  <2>2. QED
    BY <1>3, <1>4, <1>5, <1>6, <1>8, <2>1 DEF LiveIsTask, NoGate, Entered
<1>10. ExecutingHasTask(a)'
  BY <1>3, <1>6 DEF ExecutingHasTask
<1>11. LockIsHeld'
  BY <1>1, <1>4, LocksApart DEF LockIsHeld
<1>12. ~Settled(a)
  BY <1>3, StatesApart DEF Settled
<1>13. QED
  BY <1>1, <1>3, <1>4, <1>7, <1>9, <1>10, <1>11, <1>12, LivesButOne

LEMMA PublishLives == ASSUME IInv, Lives, Publish PROVE Lives'
<1>1. TypeOK /\ TaskType /\ LockIsHeld
  BY TypeParts DEF IInv, Lives
<1>2. PICK a \in Agents, g \in Generations :
         /\ a = drain.agent /\ task[a][g] = "gated"
         /\ live' = [live EXCEPT ![a] = g] /\ Becomes(a, g, "running")
  BY <1>1, PublishIs DEF IInv
<1>3. UNCHANGED <<agent, parked, interrupter>> /\ liveLock' = "free"
  BY DEF Publish, callers, scheduler
<1>4. \A b \in Agents : ~NoGate(b) => b = a
  BY <1>1, <1>2 DEF Lives, LiveIsTask, NoGate
<1>5. \A b \in Agents, h \in Generations :
            task'[b][h] = IF b = a /\ h = g THEN "running" ELSE task[b][h]
  BY <1>1, <1>2, BecomesIs DEF TaskStates
<1>6. LiveIsTask(a) /\ g = agent[a].gen /\ live[a] = NoTurn /\ liveLock = "drain"
  BY <1>2 DEF Lives, LiveIsTask
<1>7. live'[a] = g /\ \A b \in Agents \ {a} : live'[b] = live[b]
  BY <1>1, <1>2 DEF TaskType
<1>8. \A b \in Agents \ {a} : StillAt(b)
  BY <1>3, <1>4, <1>5, <1>7 DEF StillAt
<1>9. agent[a].state \notin {"absent", "Queued"}
  BY <1>2, <1>6 DEF IInv, TurnsAreFresh
<1>10. LiveIsTask(a)'
  <2>1. \A h \in Generations : task[a][h] \notin Entered /\ (task[a][h] = "gated" => h = g)
    BY <1>6, NoTurnIsNone DEF LiveIsTask
  <2>2. QED
    BY <1>2, <1>3, <1>5, <1>6, <1>7, <1>9, <2>1 DEF LiveIsTask
<1>11. ExecutingHasTask(a)'
  BY <1>2, <1>3, <1>5, <1>6 DEF ExecutingHasTask
<1>12. LockIsHeld'
  BY <1>1, <1>3, <1>6, LocksApart DEF LockIsHeld
<1>13. ~NoGate(a)
  BY <1>2 DEF NoGate
<1>14. QED
  BY <1>1, <1>2, <1>3, <1>8, <1>10, <1>11, <1>12, <1>13, LivesButOne

(* The task of a turn moves on, and may move its agent. *)
LEMMA TaskLives ==
  ASSUME IInv, Lives, NEW a \in Agents, NEW g \in Generations, task[a][g] \in Entered,
         NEW at \in TaskStates \ {"gated"}, Becomes(a, g, at),
         \A b \in Agents : b # a => /\ agent'[b].gen = agent[b].gen
                                    /\ agent'[b].state = agent[b].state
                                    /\ live'[b] = live[b] /\ parked'[b] = parked[b],
         agent'[a].gen = agent[a].gen, agent'[a].state \notin {"absent", "Queued"},
         agent'[a].state \in Executing => at \in {"running", "failed"} \/ parked'[a] = g,
         IF at \in Entered THEN live'[a] = live[a] ELSE live'[a] = NoTurn,
         UNCHANGED <<drain, liveLock, interrupter>>
  PROVE  Lives'
<1>1. TypeOK /\ TaskType
  BY TypeParts DEF IInv
<1>2. \A b \in Agents, h \in Generations :
            task'[b][h] = IF b = a /\ h = g THEN at ELSE task[b][h]
  BY <1>1, BecomesIs
<1>3. live[a] = g /\ agent[a].gen = g
  BY <1>1, EnteredIs
<1>4. LiveIsTask(a)' /\ ExecutingHasTask(a)'
  BY <1>1, <1>2, <1>3, EnteredGoesOn
<1>5. \A b \in Agents \ {a} : StillAt(b)
  BY <1>2 DEF StillAt
<1>6. LockIsHeld'
  BY HeldKept DEF Lives
<1>7. QED
  BY <1>1, <1>3, <1>4, <1>5, <1>6, LivesButOne

LEMMA LoopLives ==
  ASSUME IInv, Lives, NEW a \in Agents, NEW g \in Generations,
         \/ \E to \in {"Running", "WaitingForTool"} : LoopMoves(a, g, to)
         \/ BeginWait(a, g) \/ LoopFails(a, g)
  PROVE  Lives'
<1>1. TypeOK /\ SchedulerType /\ TaskType
  BY TypeParts DEF IInv
<1>2. /\ task[a][g] = "running"
      /\ UNCHANGED <<live, parked, drain, liveLock, interrupter>>
  BY DEF LoopMoves, BeginWait, LoopFails, draining, callers
<1>3. agent[a].state \notin {"absent", "Queued"}
  BY <1>1, <1>2, EnteredIs DEF Entered
<1>4. CASE LoopFails(a, g)
  <2>1. UNCHANGED agent /\ Becomes(a, g, "failed")
    BY <1>4 DEF LoopFails, scheduler
  <2>2. QED
    BY <1>2, <1>3, <2>1, TaskLives DEF Entered, TaskStates
<1>5. ASSUME NEW to \in {"Running", "WaitingForTool", "WaitingForAgent"},
             agent' = [agent EXCEPT ![a].state = to], UNCHANGED task
      PROVE  Lives'
  <2>1. to \in States /\ to \notin {"absent", "Queued"}
    BY DEF States, Executing, Waiting
  <2>2. /\ agent'[a].state = to /\ agent'[a].gen = agent[a].gen
        /\ \A b \in Agents : b # a => agent'[b] = agent[b]
    BY <1>1, <1>5, <2>1, MovedIs
  <2>3. Becomes(a, g, "running")
    BY <1>1, <1>2, <1>5 DEF Becomes, TaskType, TaskFunctions
  <2>4. QED
    BY <1>2, <2>1, <2>2, <2>3, TaskLives DEF Entered, TaskStates
<1>6. QED
  BY <1>4, <1>5 DEF LoopMoves, BeginWait

LEMMA LoopEndsLives ==
  ASSUME IInv, Lives, NEW a \in Agents, NEW g \in Generations, NEW to \in Terminal,
         LoopEnds(a, g, to)
  PROVE  Lives'
<1>1. TypeOK /\ SchedulerType /\ TaskType
  BY TypeParts DEF IInv
<1>2. /\ task[a][g] = "running"
      /\ UNCHANGED <<live, parked, drain, liveLock, interrupter>>
  BY DEF LoopEnds, draining, callers
<1>3. agent[a].state \notin {"absent", "Queued"}
  BY <1>1, <1>2, EnteredIs DEF Entered
<1>4. CASE Ends(a, to) /\ Becomes(a, g, "settled")
  <2>1. /\ agent'[a].state \in Terminal /\ agent'[a].gen = agent[a].gen
        /\ \A b \in Agents : b # a => agent'[b] = agent[b]
    BY <1>1, <1>4, EndsIs
  <2>2. agent'[a].state \notin {"absent", "Queued"} /\ agent'[a].state \notin Executing
    BY <2>1, StatesApart
  <2>3. QED
    BY <1>2, <1>4, <2>1, <2>2, TaskLives DEF Entered, TaskStates
<1>5. CASE FailsToEnd(a, to) /\ Becomes(a, g, "failed")
  <2>1. \A b \in Agents : agent'[b].state = agent[b].state /\ agent'[b].gen = agent[b].gen
    BY <1>1, <1>5, FailsToEndIs
  <2>2. QED
    BY <1>2, <1>3, <1>5, <2>1, TaskLives DEF Entered, TaskStates
<1>6. QED
  BY <1>4, <1>5 DEF LoopEnds

LEMMA TerminalizeLives ==
  ASSUME IInv, Lives, NEW a \in Agents, NEW g \in Generations, Terminalize(a, g)
  PROVE  Lives'
<1>1. TypeOK /\ SchedulerType /\ TaskType
  BY TypeParts DEF IInv
<1>2. /\ task[a][g] = "failed"
      /\ UNCHANGED <<live, drain, liveLock, interrupter>>
  BY DEF Terminalize, draining, callers
<1>3. agent[a].state \notin {"absent", "Queued"} /\ agent[a].gen = g
  BY <1>1, <1>2, EnteredIs DEF Entered
<1>4. CASE Settled(a) /\ Becomes(a, g, "leaving") /\ UNCHANGED <<scheduler, parked>>
  <2>1. UNCHANGED <<agent, parked>> /\ agent[a].state \notin Executing
    BY <1>4, StatesApart DEF Settled, scheduler
  <2>2. QED
    BY <1>2, <1>3, <1>4, <2>1, TaskLives DEF Entered, TaskStates
<1>5. ASSUME NEW to \in {"Failed", "Interrupted"},
             Ends(a, to) /\ Becomes(a, g, "settled") /\ UNCHANGED parked
      PROVE  Lives'
  <2>1. to \in Terminal
    BY DEF Terminal
  <2>2. /\ agent'[a].state \in Terminal /\ agent'[a].gen = agent[a].gen
        /\ \A b \in Agents : b # a => agent'[b] = agent[b]
    BY <1>1, <1>5, <2>1, EndsIs
  <2>3. agent'[a].state \notin {"absent", "Queued"} /\ agent'[a].state \notin Executing
    BY <2>2, StatesApart
  <2>4. QED
    BY <1>2, <1>5, <2>2, <2>3, TaskLives DEF Entered, TaskStates
<1>6. ASSUME NEW to \in {"Failed", "Interrupted"}, FailsToEnd(a, to),
             parked' = [parked EXCEPT ![a] = g], Becomes(a, g, "leaving")
      PROVE  Lives'
  <2>1. to \in Terminal
    BY DEF Terminal
  <2>2. \A b \in Agents : agent'[b].state = agent[b].state /\ agent'[b].gen = agent[b].gen
    BY <1>1, <1>6, <2>1, FailsToEndIs
  <2>3. parked'[a] = g /\ \A b \in Agents : b # a => parked'[b] = parked[b]
    BY <1>1, <1>6 DEF TaskType
  <2>4. QED
    BY <1>2, <1>3, <1>6, <2>2, <2>3, TaskLives DEF Entered, TaskStates
<1>7. QED
  BY <1>4, <1>5, <1>6 DEF Terminalize

LEMMA TaskLeaves ==
  ASSUME IInv, Lives, NEW a \in Agents, NEW g \in Generations,
         NotifyTerminal(a, g) \/ Leave(a, g)
  PROVE  Lives'
<1>1. TypeOK /\ TaskType
  BY TypeParts DEF IInv
<1>2. /\ task[a][g] \in {"settled", "leaving"}
      /\ UNCHANGED <<agent, parked, drain, liveLock, interrupter>>
  BY DEF NotifyTerminal, Leave, draining, callers, scheduler
<1>3. agent[a].state \notin {"absent", "Queued"} /\ agent[a].gen = g
  BY <1>1, <1>2, EnteredIs DEF Entered
<1>4. agent[a].state \in Executing => parked[a] = g
  BY <1>2, <1>3 DEF Lives, ExecutingHasTask
<1>5. CASE NotifyTerminal(a, g)
  <2>1. Becomes(a, g, "leaving") /\ UNCHANGED live
    BY <1>5 DEF NotifyTerminal
  <2>2. QED
    BY <1>2, <1>3, <1>4, <2>1, TaskLives DEF Entered, TaskStates
<1>6. CASE Leave(a, g)
  <2>1. Becomes(a, g, "freeing") /\ live' = [live EXCEPT ![a] = NoTurn]
    BY <1>6 DEF Leave
  <2>2. live'[a] = NoTurn /\ \A b \in Agents : b # a => live'[b] = live[b]
    BY <1>1, <2>1 DEF TaskType
  <2>3. QED
    BY <1>2, <1>3, <1>4, <2>1, <2>2, TaskLives DEF Entered, TaskStates
<1>7. QED
  BY <1>5, <1>6

LEMMA FreeSlotLives ==
  ASSUME IInv, Lives, NEW a \in Agents, NEW g \in Generations, FreeSlot(a, g)
  PROVE  Lives'
<1>1. TypeOK /\ TaskType
  BY TypeParts DEF IInv
<1>2. /\ task[a][g] = "freeing" /\ Becomes(a, g, "none")
      /\ UNCHANGED <<agent, live, parked, drain, liveLock, interrupter>>
  BY DEF FreeSlot, callers, scheduler
<1>3. \A b \in Agents, h \in Generations :
            task'[b][h] = IF b = a /\ h = g THEN "none" ELSE task[b][h]
  BY <1>1, <1>2, BecomesIs DEF TaskStates
<1>4. \A b \in Agents : agent[b].gen \in Generations
  BY <1>1, GenIs
<1>5. \A b \in Agents : LiveIsTask(b)'
  BY <1>2, <1>3 DEF Lives, LiveIsTask, Entered
<1>6. \A b \in Agents : ExecutingHasTask(b)'
  BY <1>2, <1>3, <1>4 DEF Lives, ExecutingHasTask
<1>7. QED
  BY <1>2, <1>5, <1>6, HeldKept DEF Lives

LEMMA RunOneLives ==
  ASSUME IInv, Lives, NEW t \in Turns, RunOne(t[1], t[2])
  PROVE  Lives'
<1>1. t[1] \in Agents /\ t[2] \in Generations
  BY DEF Turns
<1>2. QED
  BY <1>1, LoopLives, LoopEndsLives, TerminalizeLives, TaskLeaves, FreeSlotLives DEF RunOne

(* This is where a follow-up must not be stale: the agent that it reopens has no *)
(* task but one that has left the map.                                         *)
LEMMA FollowUpLives ==
  ASSUME IInv, Lives, NEW f \in Followers, FollowUp(f), ~StaleFollowup
  PROVE  Lives'
<1>1. TypeOK /\ SchedulerType
  BY TypeParts DEF IInv
<1>2. UNCHANGED <<task, live, parked, drain, liveLock, interrupter>>
  BY DEF FollowUp, CheckNotLive, BeginFollowup, draining
<1>3. LockIsHeld'
  BY <1>2, HeldKept DEF Lives
<1>4. CASE UNCHANGED agent
  BY <1>1, <1>2, <1>3, <1>4, SameAgentsStill, LivesStill
<1>5. ASSUME NEW a \in Agents, BeginFollowup(f, a), agent' # agent PROVE Lives'
  <2>1. /\ agent[a].state \in {"Completed", "Interrupted"}
        /\ agent'[a].state \in {"Queued", agent[a].state}
        /\ \A b \in Agents : b # a => agent'[b] = agent[b]
    BY <1>1, <1>5, BeginFollowupIs DEF scheduler
  <2>2. live[a] = NoTurn /\ drain # [at |-> "publish", agent |-> a]
    BY <1>5 DEF StaleFollowup
  <2>3. \A g \in Generations : task[a][g] # "gated" /\ task[a][g] \notin Entered
    BY <2>2, NoTurnIsNone DEF Lives, LiveIsTask
  <2>4. LiveIsTask(a)'
    BY <1>2, <2>2, <2>3 DEF LiveIsTask
  <2>5. agent'[a].state \notin Executing
    BY <2>1, StatesApart DEF Terminal
  <2>6. ExecutingHasTask(a)'
    BY <2>5 DEF ExecutingHasTask
  <2>7. \A b \in Agents \ {a} : StillAt(b)
    BY <1>2, <2>1 DEF StillAt
  <2>8. QED
    BY <1>1, <1>3, <2>4, <2>6, <2>7, LivesButOne
<1>6. ASSUME NEW a \in Agents, CheckNotLive(f, a) PROVE UNCHANGED agent
  BY <1>6 DEF CheckNotLive, scheduler
<1>7. QED
  BY <1>4, <1>5, <1>6 DEF FollowUp

LEMMA LivesKept == IInv /\ Lives /\ [Next]_vars /\ [~StaleFollowup]_vars => Lives'
<1> SUFFICES ASSUME IInv, Lives, [Next]_vars, ~StaleFollowup \/ UNCHANGED vars PROVE Lives'
  OBVIOUS
<1>1. CASE UNCHANGED vars
  <2>1. UNCHANGED <<agent, task, live, parked, drain, liveLock, interrupter>>
    BY <1>1 DEF vars, scheduler, draining, callers
  <2>2. QED
    BY <2>1, SameAgentsStill, HeldKept, LivesStill DEF IInv, Lives
<1>2. ASSUME NEW a \in Agents, Dispatch(a) \/ EndWait(a) PROVE Lives'
  BY <1>2, DispatchLives, EndWaitLives
<1>3. CASE Redrain \/ Drain
  BY <1>3, DrainLives, PromoteLives, PublishLives DEF Drain
<1>4. ASSUME ~UNCHANGED vars, NEW f \in Followers, FollowUp(f) PROVE Lives'
  BY <1>4, FollowUpLives
<1>5. QED
  BY <1>1, <1>2, <1>3, <1>4, RunOneLives, InterruptLives, WaitForIdleLives DEF Next

LEMMA InitLives == Init => Lives
<1> SUFFICES ASSUME Init PROVE Lives
  OBVIOUS
<1>1. \A a \in Agents : LiveIsTask(a)
  BY DEF Init, LiveIsTask, Entered
<1>2. \A a \in Agents : ExecutingHasTask(a)
  BY StatesApart DEF Init, ExecutingHasTask
<1>3. LockIsHeld
  BY DEF Init, LockIsHeld, NoInterrupt
<1>4. QED
  BY <1>1, <1>2, <1>3 DEF Lives

(* Every child that has started can be found in the live map, and so cancelled,  *)
(* in every run but one in which a follow-up reopens an agent that is in the map. *)
THEOREM StartedStaysLive == Spec => []StartedIsLive \/ <><<StaleFollowup>>_vars
<1>1. IInv /\ Lives => StartedIsLive
  BY GenIs DEF IInv, Lives, LiveIsTask, ExecutingHasTask, StartedIsLive, Entered
<1>2. IInv /\ Lives /\ [Next]_vars /\ [~StaleFollowup]_vars => Lives'
  BY LivesKept
<1>3. QED
  BY <1>1, <1>2, Invariant, InitLives, PTL DEF Spec

-----------------------------------------------------------------------------
(* Goals is kept: what is settled stays so until a follow-up. *)

SettledStay ==
    \A a \in Agents :
        /\ agent'[a].gen >= agent[a].gen
        /\ Settled(a) => agent'[a].state \in Terminal \/ agent'[a].gen > agent[a].gen

(* All steps but follow-ups keep an agent in its turn. *)
EndsOnly ==
    \A a \in Agents :
        /\ agent'[a].gen = agent[a].gen
        /\ agent'[a].state = agent[a].state \/ agent'[a].state \in Terminal \/ ~Settled(a)

LEMMA EndsOnlyStay == ASSUME TypeOK, EndsOnly PROVE SettledStay
<1>1. \A a \in Agents : agent[a].gen \in Nat
  BY GenIs, NoTurnIsNone
<1>2. QED
  BY <1>1 DEF EndsOnly, SettledStay, Settled

LEMMA SameStay == ASSUME TypeOK, UNCHANGED agent PROVE SettledStay
  BY EndsOnlyStay DEF EndsOnly

LEMMA SettlesParkedStay == ASSUME TypeOK, NEW F, SettlesParked(F) PROVE SettledStay
<1>1. AgentsMove(AfterSettle(F).agent) /\ agent' = AfterSettle(F).agent
  BY AfterSettleIs DEF SettlesParked
<1>2. QED
  BY <1>1, EndsOnlyStay DEF AgentsMove, EndsOnly

LEMMA DispatchStay == ASSUME TypeOK, NEW a \in Agents, Dispatch(a) PROVE SettledStay
<1>1. PICK F \in SUBSET Parked :
            /\ agent[a].state = "absent" /\ agent'[a].gen = agent[a].gen
            /\ \A b \in Agents : b # a => agent'[b] = AfterSettle(F).agent[b]
  BY DispatchIs
<1>2. AgentsMove(AfterSettle(F).agent)
  BY AfterSettleIs
<1>3. QED
  BY <1>1, <1>2, EndsOnlyStay, StatesApart DEF AgentsMove, EndsOnly, Settled

LEMMA DrainStay == ASSUME TypeOK, Redrain \/ Drain PROVE SettledStay
<1>1. CASE BeginDrain
  BY <1>1, BeginDrainSettles, SettlesParkedStay
<1>2. CASE Promote
  <2>1. PICK a \in Oldest : Started(a)
    BY <1>2 DEF Promote
  <2>2. /\ a \in Agents /\ agent[a].state = "Queued" /\ agent'[a].gen = agent[a].gen
        /\ \A b \in Agents : b # a => agent'[b] = agent[b]
    BY <2>1, PromoteIs
  <2>3. QED
    BY <2>2, EndsOnlyStay, StatesApart DEF EndsOnly, Settled
<1>3. CASE Redrain \/ TakePermit \/ EndDrain \/ Publish
  <2>1. UNCHANGED agent
    BY <1>3 DEF Redrain, TakePermit, EndDrain, Publish, scheduler
  <2>2. QED
    BY <2>1, SameStay
<1>4. QED
  BY <1>1, <1>2, <1>3 DEF Drain

(* A settled agent has nowhere to move to. *)
LEMMA NoMoveFromTerminal == \A s \in Terminal : \A to : ~ValidTransition(s, to)
  BY DEF Terminal, ValidTransition, Waiting

LEMMA RunOneStay ==
  ASSUME TypeOK, NEW a \in Agents, NEW g \in Generations, RunOne(a, g)
  PROVE  SettledStay
<1>1. SchedulerType
  BY TypeParts
<1>2. ASSUME NEW to \in {"Running", "WaitingForTool", "WaitingForAgent"},
             agent' = [agent EXCEPT ![a].state = to], ValidTransition(agent[a].state, to)
      PROVE  SettledStay
  <2>1. to \in States /\ ~Settled(a)
    BY <1>2, NoMoveFromTerminal DEF States, Executing, Waiting, Settled
  <2>2. /\ agent'[a].gen = agent[a].gen
        /\ \A b \in Agents : b # a => agent'[b] = agent[b]
    BY <1>1, <1>2, <2>1, MovedIs
  <2>3. QED
    BY <2>1, <2>2, EndsOnlyStay DEF EndsOnly
<1>3. ASSUME NEW to \in Terminal, Ends(a, to) \/ FailsToEnd(a, to) PROVE SettledStay
  BY <1>1, <1>3, EndsIs, FailsToEndIs, EndsOnlyStay DEF EndsOnly
<1>4. CASE UNCHANGED scheduler
  BY <1>4, SameStay DEF scheduler
<1>5. CASE (\E to \in {"Running", "WaitingForTool"} : LoopMoves(a, g, to)) \/ BeginWait(a, g)
  BY <1>2, <1>5 DEF LoopMoves, BeginWait
<1>6. CASE \E to \in Terminal : LoopEnds(a, g, to)
  BY <1>3, <1>6 DEF LoopEnds
<1>7. CASE Terminalize(a, g)
  BY <1>3, <1>4, <1>7 DEF Terminalize, Terminal
<1>8. CASE LoopFails(a, g) \/ NotifyTerminal(a, g) \/ Leave(a, g) \/ FreeSlot(a, g)
  BY <1>4, <1>8 DEF LoopFails, NotifyTerminal, Leave, FreeSlot
<1>9. QED
  BY <1>5, <1>6, <1>7, <1>8 DEF RunOne

LEMMA InterruptStay == ASSUME TypeOK, NEW i \in Interrupters, Interrupt(i) PROVE SettledStay
<1>1. SchedulerType /\ "Interrupted" \in Terminal
  BY TypeParts DEF Terminal
<1>2. ASSUME NEW a \in Agents, Ends(a, "Interrupted") \/ FailsToEnd(a, "Interrupted")
      PROVE  SettledStay
  BY <1>1, <1>2, EndsIs, FailsToEndIs, EndsOnlyStay DEF EndsOnly
<1>3. CASE UNCHANGED scheduler
  BY <1>3, SameStay DEF scheduler
<1>4. \/ UNCHANGED scheduler
      \/ \E a \in Agents : Ends(a, "Interrupted") \/ FailsToEnd(a, "Interrupted")
  BY DEF Interrupt, BeginInterrupt, LockLive, PassOver, InterruptChild, InterruptFails,
     UnlockLive, TellInterrupted, EndInterrupt
<1>5. QED
  BY <1>2, <1>3, <1>4

LEMMA CallsStay ==
  ASSUME TypeOK, \/ \E f \in Followers : FollowUp(f)
                 \/ \E o \in Observers : WaitForIdle(o)
  PROVE  SettledStay
<1>1. ASSUME NEW f \in Followers, NEW a \in Agents, CheckNotLive(f, a) PROVE SettledStay
  BY <1>1, SameStay DEF CheckNotLive, scheduler
<1>2. ASSUME NEW f \in Followers, NEW a \in Agents, BeginFollowup(f, a) PROVE SettledStay
  <2>1. CASE UNCHANGED scheduler
    BY <2>1, SameStay DEF scheduler
  <2>2. CASE /\ agent'[a].gen = agent[a].gen + 1
             /\ \A b \in Agents : b # a => agent'[b] = agent[b]
    <3>1. \A b \in Agents : agent[b].gen \in Nat
      BY GenIs, NoTurnIsNone
    <3>2. QED
      BY <2>2, <3>1 DEF SettledStay, Settled
  <2>3. QED
    BY <1>2, <2>1, <2>2, BeginFollowupIs, TypeParts
<1>3. ASSUME NEW o \in Observers, WaitForIdle(o) PROVE SettledStay
  <2>1. CASE ArmWaiter(o)
    BY <2>1, ArmWaiterSettles, SettlesParkedStay
  <2>2. CASE ReadState(o) \/ ReadLive(o) \/ FallAsleep(o) \/ IdleTimesOut(o)
    BY <2>2, SameStay DEF ReadState, ReadLive, FallAsleep, IdleTimesOut, scheduler
  <2>3. QED
    BY <1>3, <2>1, <2>2 DEF WaitForIdle
<1>4. QED
  BY <1>1, <1>2, <1>3 DEF FollowUp

LEMMA NextStay == ASSUME TypeOK, [Next]_vars PROVE SettledStay
<1>1. CASE UNCHANGED vars
  BY <1>1, SameStay DEF vars, scheduler
<1>2. ASSUME NEW a \in Agents, Dispatch(a) \/ EndWait(a) PROVE SettledStay
  BY <1>2, DispatchStay, SameStay DEF EndWait, scheduler
<1>3. ASSUME NEW t \in Turns, RunOne(t[1], t[2]) PROVE SettledStay
  BY <1>3, RunOneStay DEF Turns
<1>4. QED
  BY <1>1, <1>2, <1>3, DrainStay, InterruptStay, CallsStay DEF Next

(* What a step of an interrupt does to its own call; it does nothing to others. *)
InterruptSteps(i) ==
    LET old == interrupter[i]
        new == interrupter'[i]
    IN  \/ /\ new.at = "asked"
           /\ \A t \in new.goal : t[2] = agent[t[1]].gen /\ t[1] \in new.todo
           /\ UNCHANGED agent
        \/ old.at = "asked" /\ new.at = "pass" /\ new.goal = old.goal /\ new.todo = old.todo
        \/ /\ old.at = "pass" /\ new.at = "pass" /\ new.goal = old.goal
           /\ \E a \in Agents : /\ new.todo = old.todo \ {a}
                                /\ PassOver(i, a) \/ InterruptChild(i, a)
        \/ old.at = "pass" /\ new.at = "tell" /\ old.todo = {}
        \/ new.at = "off"
        \/ old.at = "tell" /\ new.at = "tell"

LEMMA InterruptStepsAre ==
  ASSUME TypeOK, NEW i \in Interrupters, Interrupt(i)
  PROVE  /\ InterruptSteps(i)
         /\ \A j \in Interrupters : j # i => interrupter'[j] = interrupter[j]
<1>1. interrupter \in [Interrupters -> InterruptStatus]
  BY TypeParts DEF CallType
<1> DEFINE Others == \A j \in Interrupters : j # i => interrupter'[j] = interrupter[j]
<1>2. ASSUME NEW a \in Agents, BeginInterrupt(i, a) PROVE InterruptSteps(i) /\ Others
  <2> DEFINE D == DescendantsIncluding(a)
             s == [at |-> "asked", todo |-> D, ended |-> {},
                   goal |-> {<<b, agent[b].gen>> : b \in D}]
  <2>1. /\ interrupter' = [interrupter EXCEPT ![i] = s] /\ UNCHANGED agent
    BY <1>2 DEF BeginInterrupt, scheduler
  <2>2. /\ s.at = "asked" /\ s.todo = D
        /\ \A t \in s.goal : t[2] = agent[t[1]].gen /\ t[1] \in D
    OBVIOUS
  <2> HIDE DEF s
  <2>3. interrupter'[i] = s /\ Others
    BY <1>1, <2>1
  <2>4. QED
    BY <2>1, <2>2, <2>3 DEF InterruptSteps
<1>3. CASE LockLive(i)
  <2>1. interrupter[i].at = "asked" /\ interrupter' = [interrupter EXCEPT ![i].at = "pass"]
    BY <1>3 DEF LockLive
  <2>2. QED
    BY <1>1, <2>1, AtIs DEF InterruptSteps
<1>4. CASE UnlockLive(i)
  <2>1. /\ interrupter[i].at = "pass" /\ interrupter[i].todo = {}
        /\ interrupter' = [interrupter EXCEPT ![i].at = "tell"]
    BY <1>4 DEF UnlockLive
  <2>2. QED
    BY <1>1, <2>1, AtIs DEF InterruptSteps
<1>5. ASSUME NEW a \in Agents, PassOver(i, a) PROVE InterruptSteps(i) /\ Others
  <2>1. interrupter[i].at = "pass" /\ interrupter' = Passed(i, a)
    BY <1>5 DEF PassOver
  <2>2. /\ interrupter'[i].todo = interrupter[i].todo \ {a} /\ interrupter'[i].at = "pass"
        /\ interrupter'[i].goal = interrupter[i].goal /\ Others
    BY <1>1, <2>1, PassedIs
  <2>3. QED
    BY <1>5, <2>1, <2>2 DEF InterruptSteps
<1>6. ASSUME NEW a \in Agents, InterruptChild(i, a) PROVE InterruptSteps(i) /\ Others
  BY <1>6, InterruptChildIs DEF InterruptSteps
<1>7. ASSUME interrupter' = [interrupter EXCEPT ![i] = NoInterrupt]
      PROVE  InterruptSteps(i) /\ Others
  BY <1>1, <1>7, InterrupterIs, CallTypes DEF InterruptSteps, NoInterrupt
<1>8. CASE EndInterrupt(i) \/ \E a \in Agents : InterruptFails(i, a)
  BY <1>7, <1>8 DEF EndInterrupt, InterruptFails
<1>9. ASSUME NEW t \in Turns, TellInterrupted(i, t) PROVE InterruptSteps(i) /\ Others
  <2> DEFINE e == interrupter[i].ended \ {t}
  <2>1. e \in SUBSET Turns
    BY <1>1 DEF InterruptStatus
  <2>2. /\ interrupter[i].at = "tell"
        /\ \/ interrupter' = [interrupter EXCEPT ![i].ended = e]
           \/ interrupter' = [interrupter EXCEPT ![i] = NoInterrupt]
    BY <1>9 DEF TellInterrupted
  <2> HIDE DEF e
  <2>3. CASE interrupter' = [interrupter EXCEPT ![i].ended = e]
    <3>1. interrupter'[i].at = interrupter[i].at /\ Others
      BY <1>1, <2>1, <2>3, EndedIs
    <3>2. QED
      BY <2>2, <3>1 DEF InterruptSteps
  <2>4. QED
    BY <1>7, <2>2, <2>3
<1>10. QED
  BY <1>2, <1>3, <1>4, <1>5, <1>6, <1>8, <1>9 DEF Interrupt

(* A goal stays right while its call goes on. *)
LEMMA StoppedStays ==
  ASSUME TypeOK, TypeOK', SettledStay, cancelled \subseteq cancelled', NEW t \in Turns,
         t[2] <= agent[t[1]].gen
  PROVE  (t[2] <= agent[t[1]].gen)' /\ (Stopped(t) => Stopped(t)')
<1>1. /\ t[1] \in Agents /\ t[2] \in Nat /\ agent[t[1]].gen \in Nat
  BY GenIs, NoTurnIsNone DEF Turns
<1>2. agent'[t[1]].gen \in Nat
  BY <1>1, NoTurnIsNone DEF TypeOK, AgentStatus
<1>3. QED
  BY <1>1, <1>2 DEF SettledStay, Stopped, Settled

LEMMA GoalStays ==
  ASSUME TypeOK, TypeOK', SettledStay, cancelled \subseteq cancelled', NEW i \in Interrupters,
         GoalIsRight(i),
         interrupter'[i].at \in {"asked", "pass"} =>
            /\ interrupter[i].at \in {"asked", "pass"}
            /\ interrupter'[i].goal = interrupter[i].goal
            /\ \A t \in interrupter[i].goal :
                  t[1] \in interrupter[i].todo => t[1] \in interrupter'[i].todo \/ Stopped(t)'
  PROVE  GoalIsRight(i)'
<1> SUFFICES ASSUME interrupter'[i].at \in {"asked", "pass"}, NEW t \in interrupter[i].goal
             PROVE  /\ (t[2] <= agent[t[1]].gen)'
                    /\ t[1] \in interrupter'[i].todo \/ Stopped(t)'
  BY DEF GoalIsRight
<1>1. t \in Turns
  BY DEF TypeOK
<1>2. t[2] <= agent[t[1]].gen /\ (t[1] \in interrupter[i].todo \/ Stopped(t))
  BY DEF GoalIsRight
<1>3. QED
  BY <1>1, <1>2, StoppedStays

(* No other step cancels a turn or moves an interrupt. *)
LEMMA OnlyInterruptsInterrupt ==
  ASSUME [Next]_vars
  PROVE  \/ UNCHANGED <<interrupter, cancelled>>
         \/ \E i \in Interrupters : Interrupt(i)
<1>1. ASSUME NEW t \in Turns, RunOne(t[1], t[2]) PROVE UNCHANGED <<interrupter, cancelled>>
  BY <1>1 DEF RunOne, LoopMoves, LoopEnds, LoopFails, Terminalize, NotifyTerminal, Leave,
     FreeSlot, BeginWait, callers
<1>2. CASE Redrain \/ Drain
  BY <1>2 DEF Redrain, Drain, BeginDrain, TakePermit, EndDrain, Promote, Publish, callers
<1>3. ASSUME NEW f \in Followers, FollowUp(f) PROVE UNCHANGED <<interrupter, cancelled>>
  BY <1>3 DEF FollowUp, CheckNotLive, BeginFollowup
<1>4. ASSUME NEW o \in Observers, WaitForIdle(o) PROVE UNCHANGED <<interrupter, cancelled>>
  BY <1>4 DEF WaitForIdle, ArmWaiter, ReadState, ReadLive, FallAsleep, IdleTimesOut, callers
<1>5. ASSUME NEW a \in Agents, Dispatch(a) \/ EndWait(a)
      PROVE  UNCHANGED <<interrupter, cancelled>>
  BY <1>5 DEF Dispatch, EndWait, callers
<1>6. CASE UNCHANGED vars
  BY <1>6 DEF vars, callers
<1>7. QED
  BY <1>1, <1>2, <1>3, <1>4, <1>5, <1>6 DEF Next

LEMMA GoalsKept ==
  ASSUME IInv, IInv', Lives, Goals, [Next]_vars
  PROVE  Goals'
<1>1. TypeOK /\ TypeOK' /\ SettledStay
  BY NextStay DEF IInv
<1>2. ASSUME UNCHANGED interrupter, cancelled \subseteq cancelled' PROVE Goals'
  BY <1>1, <1>2, GoalStays DEF Goals
<1>3. ASSUME NEW i \in Interrupters, Interrupt(i) PROVE Goals'
  <2>1. /\ InterruptSteps(i)
        /\ \A j \in Interrupters : j # i => interrupter'[j] = interrupter[j]
    BY <1>1, <1>3, InterruptStepsAre
  <2>2. cancelled \subseteq cancelled'
    BY <1>3 DEF Interrupt, BeginInterrupt, LockLive, PassOver, InterruptChild, InterruptFails,
       UnlockLive, TellInterrupted, EndInterrupt
  <2>3. \A j \in Interrupters : j # i => GoalIsRight(j)'
    BY <1>1, <2>1, <2>2, GoalStays DEF Goals
  <2>4. GoalIsRight(i)
    BY DEF Goals
  <2>5. GoalIsRight(i)'
    <3>1. CASE /\ UNCHANGED agent
               /\ \A t \in interrupter'[i].goal :
                     t[2] = agent[t[1]].gen /\ t[1] \in interrupter'[i].todo
      <4>1. \A t \in interrupter'[i].goal : t \in Turns
        BY DEF IInv, TypeOK
      <4>2. \A t \in Turns : agent[t[1]].gen \in Nat
        BY <1>1, GenIs, NoTurnIsNone DEF Turns
      <4>3. QED
        BY <3>1, <4>1, <4>2 DEF GoalIsRight
    <3>2. CASE /\ interrupter[i].at = "asked" /\ interrupter'[i].goal = interrupter[i].goal
               /\ interrupter'[i].todo = interrupter[i].todo
      BY <1>1, <2>2, <2>4, <3>2, GoalStays
    <3>3. ASSUME NEW a \in Agents, PassOver(i, a) \/ InterruptChild(i, a),
                 interrupter'[i].goal = interrupter[i].goal,
                 interrupter'[i].todo = interrupter[i].todo \ {a},
                 interrupter[i].at = "pass"
          PROVE  GoalIsRight(i)'
      <4>1. ASSUME NEW t \in interrupter[i].goal, t[1] = a PROVE Stopped(t)'
        <5>1. t \in Turns /\ SchedulerType /\ "Interrupted" \in Terminal
          BY <1>1, TypeParts DEF TypeOK, Terminal
        <5>2. CASE InterruptChild(i, a)
          BY <4>1, <5>1, <5>2, EndsIs DEF InterruptChild, Stopped, Settled
        <5>3. CASE PassOver(i, a)
          <6>1. UNCHANGED agent
            BY <5>3 DEF PassOver, scheduler
          <6>2. CASE Settled(a)
            BY <4>1, <6>1, <6>2 DEF Stopped, Settled
          <6>3. CASE live[a] # NoTurn /\ cancelled' = cancelled \cup {<<a, live[a]>>}
            <7>1. live[a] = agent[a].gen
              BY <6>3 DEF Lives, LiveIsTask
            <7>2. t = <<t[1], t[2]>>
              BY <5>1 DEF Turns
            <7>3. agent[a].gen = t[2] => t \in cancelled'
              BY <4>1, <6>3, <7>1, <7>2
            <7>4. QED
              BY <4>1, <6>1, <7>3 DEF Stopped
          <6>4. QED
            BY <5>3, <6>2, <6>3 DEF PassOver
        <5>4. QED
          BY <3>3, <5>2, <5>3
      <4>2. QED
        BY <1>1, <2>2, <2>4, <3>3, <4>1, GoalStays
    <3>4. CASE interrupter'[i].at \in {"tell", "off"}
      BY <3>4 DEF GoalIsRight
    <3>5. QED
      BY <2>1, <3>1, <3>2, <3>3, <3>4 DEF InterruptSteps
  <2>6. QED
    BY <2>3, <2>5 DEF Goals
<1>4. QED
  BY <1>2, <1>3, OnlyInterruptsInterrupt

LEMMA InitGoals == Init => Goals
  BY DEF Init, Goals, GoalIsRight, NoInterrupt

LEMMA UnlocksWhenDone ==
  ASSUME TypeOK, Goals, [Next]_vars, NEW i \in Interrupters,
         interrupter[i].at = "pass", interrupter'[i].at = "tell"
  PROVE  \A t \in interrupter[i].goal : Stopped(t)
<1>1. \E j \in Interrupters : Interrupt(j)
  BY OnlyInterruptsInterrupt
<1>2. InterruptSteps(i)
  BY <1>1, InterruptStepsAre
<1>3. interrupter[i].todo = {}
  BY <1>2 DEF InterruptSteps
<1>4. QED
  BY <1>3 DEF Goals, GoalIsRight

LEMMA TurnsKept == TurnInv /\ [Next]_vars /\ [~StaleFollowup]_vars => TurnInv'
  BY NextKeeps, LivesKept, GoalsKept DEF TurnInv

(* One turn of an agent at a time, its task in the live map until it leaves, and *)
(* every interrupt with its goals in sight: so it is until a stale follow-up.   *)
THEOREM TurnInvariant == Spec => []TurnInv \/ <><<StaleFollowup>>_vars
<1>1. Init => TurnInv
  BY InitInv, InitLives, InitGoals DEF TurnInv
<1>2. TurnInv /\ [Next]_vars /\ [~StaleFollowup]_vars => TurnInv'
  BY TurnsKept
<1>3. QED
  BY <1>1, <1>2, PTL DEF Spec

(* An interrupt lets go of the map only when all that it set out to stop is      *)
(* settled, cancelled or in a later turn, whatever failed or raced with it, in   *)
(* every run but one with a stale follow-up.                                   *)
THEOREM InterruptStops == Spec => InterruptStopsAll \/ <><<StaleFollowup>>_vars
<1>1. ASSUME TurnInv, [Next]_vars
      PROVE  [\A i \in Interrupters :
                 interrupter[i].at = "pass" /\ interrupter'[i].at = "tell" =>
                     \A t \in interrupter[i].goal :
                         Settled(t[1]) \/ t \in cancelled \/ agent[t[1]].gen # t[2]]_vars
  BY <1>1, UnlocksWhenDone DEF TurnInv, IInv, Stopped
<1>2. QED
  BY <1>1, TurnInvariant, PTL DEF Spec, InterruptStopsAll

-----------------------------------------------------------------------------
(* Watched is kept, but for an interrupt that fails to tell what it has ended. *)

(* A step that leaves the run busy. *)
LEMMA BusyWatched == ASSUME ~RunIdle' PROVE Watched'
  BY DEF Watched

(* A step after which whoever is to wake the observers is there. *)
LEMMA WakerWatched == ASSUME WakerIsThere' PROVE Watched'
  BY DEF Watched

(* A step that wakes them. *)
LEMMA WokenWatched ==
  ASSUME \A o \in Observers : idle'[o].at \notin {"busy", "asleep"} \/ idle'[o].woken
  PROVE  Watched'
  BY DEF Watched

(* A step that leaves the run as idle as it was, and the waker where it was. *)
LEMMA SameWatched ==
  ASSUME Watched,
         \A o \in Observers : \/ idle'[o] = idle[o]
                              \/ idle'[o].at \notin {"busy", "asleep"}
                              \/ idle'[o].woken,
         RunIdle' => RunIdle, WakerIsThere => WakerIsThere'
  PROVE  Watched'
  BY DEF Watched

LEMMA RunIdleSame ==
  ASSUME \A a \in Agents : /\ live'[a] = live[a]
                           /\ \/ agent'[a].state = agent[a].state
                              \/ agent'[a].state \in Executing \cup {"Queued"}
  PROVE  RunIdle' => RunIdle
  BY StatesApart DEF RunIdle, Unsettled, Settled, Present

LEMMA BusyAgents ==
  ASSUME NEW a \in Agents, agent'[a].state \in Executing \cup {"Queued"} \/ live'[a] # NoTurn
  PROVE  ~RunIdle'
  BY StatesApart DEF RunIdle, Unsettled, Settled, Present

LEMMA WakerSame == ASSUME UNCHANGED <<task, interrupter>> PROVE WakerIsThere => WakerIsThere'
  BY DEF WakerIsThere

(* What settle_pending_terminalizations settles, it announces. *)
LEMMA SettlesParkedWatched ==
  ASSUME TypeOK, Watched, NEW F, SettlesParked(F), UNCHANGED <<live, task, interrupter>>,
         \A o \in Observers : \/ idle'[o] = AfterSettle(F).idle[o]
                              \/ idle'[o].at \notin {"busy", "asleep"}
  PROVE  Watched'
<1>1. CallType /\ F \in SUBSET Parked
  BY TypeParts DEF SettlesParked
<1>2. CASE Parked \subseteq F
  <2>1. AfterSettle(F).idle = idle
    BY <1>1, <1>2, AfterSettleIdle
  <2>2. Rescued(F) = {}
    BY <1>2 DEF Rescued
  <2>3. \A a \in Agents : agent'[a] = agent[a]
    BY <1>1, <2>2, AfterSettleIs DEF SettlesParked
  <2>4. QED
    BY <2>1, <2>3, RunIdleSame, WakerSame, SameWatched
<1>3. CASE ~(Parked \subseteq F)
  <2>1. \A o \in Observers : AfterSettle(F).idle[o].at # "off" => AfterSettle(F).idle[o].woken
    BY <1>1, <1>3, AfterSettleIdle
  <2>2. QED
    BY <2>1, WokenWatched
<1>4. QED
  BY <1>2, <1>3

LEMMA DrainWatched ==
  ASSUME IInv, Watched, Redrain \/ Drain
  PROVE  Watched'
<1>1. TypeOK
  BY DEF IInv
<1>2. CASE BeginDrain
  <2>1. UNCHANGED <<live, task, interrupter>>
    BY <1>2 DEF BeginDrain, callers
  <2>2. QED
    BY <1>1, <1>2, <2>1, BeginDrainSettles, SettlesParkedWatched
<1>3. CASE Redrain \/ TakePermit \/ EndDrain
  <2>1. UNCHANGED <<agent, live, task, interrupter, idle>>
    BY <1>3 DEF Redrain, TakePermit, EndDrain, callers, scheduler
  <2>2. QED
    BY <2>1, RunIdleSame, WakerSame, SameWatched
<1>4. CASE Promote
  <2>1. PICK a \in Oldest : Started(a)
    BY <1>4 DEF Promote
  <2>2. a \in Agents /\ agent'[a].state = "Starting"
    BY <1>1, <2>1, PromoteIs
  <2>3. QED
    BY <2>2, BusyAgents, BusyWatched DEF Executing
<1>5. CASE Publish
  <2>1. PICK a \in Agents, g \in Generations : live' = [live EXCEPT ![a] = g]
    BY <1>1, <1>5, PublishIs DEF IInv
  <2>2. live'[a] # NoTurn
    BY <1>1, <2>1, NoTurnIsNone DEF TypeOK
  <2>3. QED
    BY <2>2, BusyAgents, BusyWatched
<1>6. QED
  BY <1>2, <1>3, <1>4, <1>5 DEF Drain

LEMMA RunOneWatched ==
  ASSUME IInv, Lives, Watched, NEW a \in Agents, NEW g \in Generations, RunOne(a, g)
  PROVE  Watched'
<1>1. TypeOK /\ CallType /\ TaskType
  BY TypeParts DEF IInv
<1>2. ASSUME task[a][g] \in Entered, UNCHANGED live PROVE Watched'
  BY <1>1, <1>2, EnteredIs, NoTurnIsNone, BusyAgents, BusyWatched
<1>3. CASE Leave(a, g)
  <2>1. Becomes(a, g, "freeing")
    BY <1>3 DEF Leave
  <2>2. task'[a][g] = "freeing"
    BY <1>1, <2>1, BecomesIs DEF TaskStates
  <2>3. <<a, g>> \in Turns /\ <<a, g>>[1] = a /\ <<a, g>>[2] = g
    BY DEF Turns
  <2>4. WakerIsThere'
    BY <2>2, <2>3 DEF WakerIsThere
  <2>5. QED
    BY <2>4, WakerWatched
<1>4. CASE FreeSlot(a, g)
  <2>1. idle' = Woken
    BY <1>4 DEF FreeSlot
  <2>2. \A o \in Observers : idle'[o].at # "off" => idle'[o].woken
    BY <1>1, <2>1, WokenIs DEF CallType
  <2>3. QED
    BY <2>2, WokenWatched
<1>5. CASE \/ \E to \in {"Running", "WaitingForTool"} : LoopMoves(a, g, to)
           \/ \E to \in Terminal : LoopEnds(a, g, to)
           \/ LoopFails(a, g) \/ Terminalize(a, g) \/ NotifyTerminal(a, g) \/ BeginWait(a, g)
  BY <1>2, <1>5 DEF LoopMoves, LoopEnds, LoopFails, Terminalize, NotifyTerminal, BeginWait,
     Entered
<1>6. QED
  BY <1>3, <1>4, <1>5 DEF RunOne

LEMMA InterruptWatched ==
  ASSUME IInv, Watched, NEW i \in Interrupters, Interrupt(i), ~TellingFails
  PROVE  Watched'
<1>1. TypeOK /\ CallType /\ SchedulerType /\ "Interrupted" \in Terminal
  BY TypeParts DEF IInv, Terminal
<1>2. /\ InterruptSteps(i)
      /\ \A j \in Interrupters : j # i => interrupter'[j] = interrupter[j]
  BY <1>1, InterruptStepsAre
<1>3. ASSUME interrupter'[i].at \in {"pass", "tell"} PROVE Watched'
  BY <1>3, WakerWatched DEF WakerIsThere
<1>4. ASSUME idle' = Woken PROVE Watched'
  BY <1>1, <1>4, WokenIs, WokenWatched DEF CallType
<1>5. ASSUME NEW a \in Agents, BeginInterrupt(i, a) PROVE Watched'
  <2>1. UNCHANGED <<agent, live, task, idle>> /\ interrupter[i].at = "off"
    BY <1>5 DEF BeginInterrupt, scheduler
  <2>2. WakerIsThere => WakerIsThere'
    BY <1>2, <2>1 DEF WakerIsThere
  <2>3. QED
    BY <2>1, <2>2, RunIdleSame, SameWatched
<1>6. ASSUME NEW a \in Agents, InterruptFails(i, a) PROVE Watched'
  <2>1. Unsettled(a) /\ (FailsToEnd(a, "Interrupted") \/ UNCHANGED agent)
    BY <1>6 DEF InterruptFails, scheduler
  <2>2. agent'[a].state = agent[a].state
    BY <1>1, <2>1, FailsToEndIs
  <2>3. ~RunIdle'
    BY <2>1, <2>2 DEF RunIdle, Unsettled, Settled, Present
  <2>4. QED
    BY <2>3, BusyWatched
<1>7. ASSUME NEW t \in Turns, TellInterrupted(i, t) PROVE Watched'
  <2>1. ~Fault
    BY <1>7 DEF TellingFails
  <2>2. QED
    BY <1>4, <1>7, <2>1 DEF TellInterrupted
<1>8. CASE EndInterrupt(i)
  BY <1>4, <1>8 DEF EndInterrupt
<1>9. CASE LockLive(i) \/ UnlockLive(i)
  <2>1. interrupter'[i].at \in {"pass", "tell"}
    BY <1>1, <1>9, AtIs DEF LockLive, UnlockLive, CallType
  <2>2. QED
    BY <1>3, <2>1
<1>10. ASSUME NEW a \in Agents, PassOver(i, a) \/ InterruptChild(i, a) PROVE Watched'
  <2>1. interrupter'[i].at = "pass"
    <3>1. CASE PassOver(i, a)
      BY <1>1, <3>1, PassedIs DEF PassOver, CallType
    <3>2. CASE InterruptChild(i, a)
      BY <1>1, <3>2, InterruptChildIs
    <3>3. QED
      BY <1>10, <3>1, <3>2
  <2>2. QED
    BY <1>3, <2>1
<1>11. QED
  BY <1>5, <1>6, <1>7, <1>8, <1>9, <1>10 DEF Interrupt

LEMMA FollowUpWatched ==
  ASSUME IInv, Watched, NEW f \in Followers, FollowUp(f)
  PROVE  Watched'
<1>1. SchedulerType
  BY TypeParts DEF IInv
<1>2. UNCHANGED <<live, task, interrupter, idle>>
  BY DEF FollowUp, CheckNotLive, BeginFollowup
<1>3. CASE UNCHANGED scheduler
  BY <1>2, <1>3, RunIdleSame, WakerSame, SameWatched DEF scheduler
<1>4. ASSUME NEW a \in Agents, agent'[a].state \in {"Queued", agent[a].state},
             \A b \in Agents : b # a => agent'[b] = agent[b]
      PROVE  Watched'
  <2>1. \A b \in Agents : \/ agent'[b].state = agent[b].state
                          \/ agent'[b].state \in Executing \cup {"Queued"}
    BY <1>4
  <2>2. QED
    BY <1>2, <2>1, RunIdleSame, WakerSame, SameWatched
<1>5. ASSUME NEW a \in Agents, BeginFollowup(f, a) PROVE Watched'
  BY <1>1, <1>3, <1>4, <1>5, BeginFollowupIs
<1>6. ASSUME NEW a \in Agents, CheckNotLive(f, a) PROVE Watched'
  BY <1>3, <1>6 DEF CheckNotLive
<1>7. QED
  BY <1>5, <1>6 DEF FollowUp

LEMMA WaitForIdleWatched ==
  ASSUME IInv, Watched, NEW o \in Observers, WaitForIdle(o)
  PROVE  Watched'
<1>1. TypeOK /\ CallType
  BY TypeParts DEF IInv
<1>2. UNCHANGED <<live, task, interrupter>>
  BY DEF WaitForIdle, ArmWaiter, ReadState, ReadLive, FallAsleep, IdleTimesOut, callers
<1>3. CASE ArmWaiter(o)
  <2>1. PICK F \in SUBSET Parked :
            /\ SettlesParked(F)
            /\ idle' = [AfterSettle(F).idle EXCEPT ![o] =
                          [at |-> "armed", woken |-> ~(Parked \subseteq F)]]
    BY <1>3, ArmWaiterSettles
  <2>2. AfterSettle(F).idle \in [Observers -> IdleStatus]
    BY <1>1, AfterSettleIdle
  <2>3. /\ idle'[o].at = "armed"
        /\ \A p \in Observers : p # o => idle'[p] = AfterSettle(F).idle[p]
    BY <2>1, <2>2
  <2>4. \A p \in Observers : \/ idle'[p] = AfterSettle(F).idle[p]
                             \/ idle'[p].at \notin {"busy", "asleep"}
    BY <2>3
  <2>5. QED
    BY <1>1, <1>2, <2>1, <2>4, SettlesParkedWatched
<1>4. CASE ReadState(o) \/ ReadLive(o) \/ FallAsleep(o) \/ IdleTimesOut(o)
  <2>1. UNCHANGED agent
    BY <1>4 DEF ReadState, ReadLive, FallAsleep, IdleTimesOut, scheduler
  <2>2. RunIdle' <=> RunIdle
    BY <1>2, <2>1 DEF RunIdle, Unsettled, Settled, Present
  <2>3. WakerIsThere => WakerIsThere'
    BY <1>2, WakerSame
  <2>4. /\ \A p \in Observers : p # o => idle'[p] = idle[p]
        /\ \/ idle'[o] = NotWaiting
           \/ /\ idle'[o].woken = idle[o].woken
              /\ \/ idle'[o].at = "read"
                 \/ \E a \in Records : ~Settled(a)
                 \/ \E a \in Agents : live[a] # NoTurn
                 \/ idle'[o].at = "asleep" /\ idle[o].at = "busy"
    BY <1>1, <1>4, ObserverMoves
  <2>5. (\E a \in Records : ~Settled(a)) \/ (\E a \in Agents : live[a] # NoTurn) => ~RunIdle
    BY DEF RunIdle, Records, Unsettled
  <2>6. CASE ~RunIdle
    BY <2>2, <2>6, BusyWatched
  <2>7. CASE idle'[o] = NotWaiting \/ idle'[o].at = "read"
    <3>1. idle'[o].at \notin {"busy", "asleep"}
      BY <2>7 DEF NotWaiting
    <3>2. QED
      BY <2>2, <2>3, <2>4, <3>1, SameWatched
  <2>8. CASE /\ idle'[o].woken = idle[o].woken
             /\ idle'[o].at = "asleep" /\ idle[o].at = "busy"
    BY <2>2, <2>3, <2>4, <2>8 DEF Watched
  <2>9. QED
    BY <2>4, <2>5, <2>6, <2>7, <2>8
<1>5. QED
  BY <1>3, <1>4 DEF WaitForIdle

LEMMA WatchedKept ==
  ASSUME IInv, Lives, Watched, [Next]_vars, [~TellingFails]_vars
  PROVE  Watched'
<1>1. TypeOK
  BY DEF IInv
<1>2. CASE UNCHANGED vars
  <2>1. UNCHANGED <<agent, live, task, interrupter, idle>>
    BY <1>2 DEF vars, scheduler, callers
  <2>2. QED
    BY <2>1, RunIdleSame, WakerSame, SameWatched
<1>3. ASSUME NEW a \in Agents, EndWait(a) PROVE Watched'
  <2>1. UNCHANGED <<agent, live, task, interrupter, idle>>
    BY <1>3 DEF EndWait, scheduler, callers
  <2>2. QED
    BY <2>1, RunIdleSame, WakerSame, SameWatched
<1>4. ASSUME NEW a \in Agents, Dispatch(a) PROVE Watched'
  BY <1>1, <1>4, DispatchIs, BusyAgents, BusyWatched
<1>5. ASSUME NEW t \in Turns, RunOne(t[1], t[2]) PROVE Watched'
  BY <1>5, RunOneWatched DEF Turns
<1>6. ASSUME ~UNCHANGED vars, NEW i \in Interrupters, Interrupt(i) PROVE Watched'
  BY <1>6, InterruptWatched
<1>7. QED
  BY <1>2, <1>3, <1>4, <1>5, <1>6, DrainWatched, FollowUpWatched, WaitForIdleWatched DEF Next

(* wait_for_idle sleeps through nothing: whoever makes the run idle wakes it, in  *)
(* every run but one in which an interrupt fails to tell what it has ended, or   *)
(* with a stale follow-up.                                                     *)
THEOREM NoWakeupIsLost ==
  Spec => []NoLostIdleWakeup \/ <><<StaleFollowup \/ TellingFails>>_vars
<1>1. Init => Watched
  BY DEF Init, Watched, NotWaiting
<1>2. TurnInv /\ Watched /\ [Next]_vars /\ [~TellingFails]_vars => Watched'
  BY WatchedKept DEF TurnInv
<1>3. Watched => NoLostIdleWakeup
  BY DEF Watched, NoLostIdleWakeup, WakerIsThere
<1>4. QED
  BY <1>1, <1>2, <1>3, TurnInvariant, PTL DEF Spec
=============================================================================
