-------------------------- MODULE AgentMailboxProofs --------------------------
(***************************************************************************)
(* Theorems about AgentMailbox, for any set of results and waiters.  The    *)
(* argument follows one result through the task that posts it (Posted) and  *)
(* one waiter through its wait (Heard): a waiter whose reading is current    *)
(* has read a log in which its update is not acknowledged, because whatever  *)
(* was appended since has made the reading stale.                           *)
(***************************************************************************)
EXTENDS AgentMailbox, TLAPS

(* What the log and the task that ended r know of r. *)
Posted(r) ==
    /\ ~log[r].settled => post[r] = "none" /\ log[r].notices = 0
    /\ post[r] = "notify" => log[r].notices = 0
    /\ log[r].notices <= 1
    /\ log[r].acks <= 1
    /\ log[r].acks > 0 => Announced(r)

(* What waiter w knows. *)
Heard(w) ==
    /\ waiter[w].seen <= revision
    /\ waiter[w].read # "no" => waiter[w].at = "got" /\ waiter[w].got # {}
    /\ waiter[w].read = "current" => log[FirstOf(waiter[w].got)].acks = 0
    /\ \A r \in waiter[w].got : Announced(r)

(* A process that is not up neither posts nor waits. *)
Quiet ==
    phase # "up" => /\ \A r \in Results : post[r] = "none"
                    /\ \A w \in Waiters : waiter[w] = Off

(* What a restart has still to post is exactly what is missing: nothing ends a  *)
(* turn or announces one while the pass runs but the pass itself.               *)
ListedMissing ==
    phase = "recovering" => todo = {r \in Results : Missing(r)}

IInv ==
    /\ TypeOK
    /\ \A r \in Results : Posted(r)
    /\ \A w \in Waiters : Heard(w)
    /\ Quiet
    /\ ListedMissing
    /\ NoMissedWakeup

-----------------------------------------------------------------------------
(* Helpers. *)

LEMMA FirstOfType ==
  ASSUME NEW S, S # {}
  PROVE  FirstOf(S) \in S
  BY DEF FirstOf

LEMMA CountType ==
  ASSUME NEW n \in 0..2
  PROVE  Count(n) \in 0..2 /\ Count(n) > 0 /\ (n = 0 => Count(n) = 1)
  BY DEF Count

LEMMA OffType == Off \in WaiterStates
  BY MailboxAssumption DEF Off, WaiterStates

(* Appending outdates readings and changes nothing else. *)
LEMMA OutdatedType ==
  ASSUME NEW ws \in [Waiters -> WaiterStates]
  PROVE  /\ Outdated(ws) \in [Waiters -> WaiterStates]
         /\ \A w \in Waiters :
               /\ Outdated(ws)[w].at = ws[w].at
               /\ Outdated(ws)[w].seen = ws[w].seen
               /\ Outdated(ws)[w].got = ws[w].got
               /\ Outdated(ws)[w].read # "current"
               /\ Outdated(ws)[w].read # "no" => ws[w].read # "no"
  BY DEF Outdated, WaiterStates

LEMMA Bounds == 0 \in 0..MaxRetries /\ 0 \in 0..MaxFaults
  BY MailboxAssumption

LEMMA FaultType ==
  ASSUME faults \in 0..MaxFaults, Fault
  PROVE  faults' \in 0..MaxFaults
  BY MailboxAssumption DEF Fault

(* What rehydrate does to the log: turns end, nothing is announced.            *)
LEMMA RehydrateEffect ==
  ASSUME TypeOK, Rehydrate
  PROVE  /\ log' \in [Results -> Entries]
         /\ \A r \in Results : /\ log'[r].notices = log[r].notices
                              /\ log'[r].acks = log[r].acks
                              /\ log[r].settled => log'[r].settled
<1>1. log \in [Results -> Entries]
  BY DEF TypeOK
<1>2. PICK ended \in SUBSET {r \in Results : ~log[r].settled} :
         log' = [r \in Results |-> IF r \in ended THEN [log[r] EXCEPT !.settled = TRUE]
                                  ELSE log[r]]
  BY DEF Rehydrate
<1>3. \A r \in Results : [log[r] EXCEPT !.settled = TRUE] \in Entries
  BY <1>1 DEF Entries
<1>4. log' \in [Results -> Entries]
  BY <1>1, <1>2, <1>3
<1>5. ASSUME NEW r \in Results
      PROVE  log'[r].notices = log[r].notices /\ log'[r].acks = log[r].acks
             /\ (log[r].settled => log'[r].settled)
  BY <1>1, <1>2 DEF Entries
<1>6. QED
  BY <1>4, <1>5

-----------------------------------------------------------------------------
(* The type invariant: log entries, posting tasks and waiters stay what they   *)
(* are declared to be, whatever fails or stops.                                *)
LEMMA TypeInit == Init => TypeOK
  BY MailboxAssumption, OffType DEF Init, TypeOK, Entries

LEMMA TypeStep == TypeOK /\ [Next]_vars => TypeOK'
<1> SUFFICES ASSUME TypeOK, [Next]_vars PROVE TypeOK'
  OBVIOUS
<1> USE DEF TypeOK
<1>1. ASSUME NEW r \in Results, ChildSettles(r) PROVE TypeOK'
  BY <1>1, OutdatedType DEF ChildSettles, Entries
<1>2. ASSUME NEW r \in Results, Notify(r) PROVE TypeOK'
  <2>1. log' \in [Results -> Entries]
    <3>1. log' = log \/ log' = [log EXCEPT ![r].notices = Count(@)]
      BY <1>2 DEF Notify
    <3>2. [log[r] EXCEPT !.notices = Count(@)] \in Entries
      BY CountType DEF Entries
    <3>3. QED
      BY <3>1, <3>2
  <2>2. waiter' \in [Waiters -> WaiterStates]
    BY <1>2, OutdatedType DEF Notify
  <2>3. faults' \in 0..MaxFaults
    BY <1>2, FaultType DEF Notify
  <2>4. QED
    BY <1>2, <2>1, <2>2, <2>3 DEF Notify
<1>3. ASSUME NEW r \in Results, Wake(r) PROVE TypeOK'
  BY <1>3 DEF Wake
<1>4. ASSUME NEW r \in Results, RecoverNotification(r) PROVE TypeOK'
  <2>1. log' \in [Results -> Entries]
    BY <1>4, CountType DEF RecoverNotification, Entries
  <2>2. faults' \in 0..MaxFaults
    BY <1>4, FaultType DEF RecoverNotification
  <2>3. QED
    BY <1>4, <2>1, <2>2 DEF RecoverNotification
<1>5. ASSUME NEW w \in Waiters, Wait(w) PROVE TypeOK'
  BY <1>5, OffType DEF Wait, Subscribe, Check, Changed, TimedOut, WaiterStates, PendingFor
<1>6. ASSUME NEW w \in Waiters, ReadLog(w) PROVE TypeOK'
  BY <1>6, Bounds DEF ReadLog, AlreadyConsumed, WaiterStates
<1>7. ASSUME NEW w \in Waiters, AppendIfLast(w) PROVE TypeOK'
  <2> DEFINE r == FirstOf(waiter[w].got)
             v == [waiter[w] EXCEPT !.got = @ \ {r}, !.tries = 0, !.read = "no"]
             ws == [waiter EXCEPT ![w].got = @ \ {r}, ![w].tries = 0, ![w].read = "no"]
  <2>1. v \in WaiterStates
    BY Bounds DEF WaiterStates
  <2>2. ws = [waiter EXCEPT ![w] = v]
    OBVIOUS
  <2>3. log' \in [Results -> Entries] /\ waiter' = Outdated(ws) /\ revision' = revision + 1
        /\ UNCHANGED <<post, phase, todo, faults>>
    BY <1>7, CountType DEF AppendIfLast, Acknowledge, Entries
  <2> HIDE DEF v, ws
  <2>4. Outdated(ws) \in [Waiters -> WaiterStates]
    BY <2>1, <2>2, OutdatedType
  <2>5. QED
    BY <2>3, <2>4
<1>8. ASSUME NEW w \in Waiters, Retry(w) PROVE TypeOK'
  <2>1. waiter[w].tries + 1 < MaxRetries => waiter[w].tries + 1 \in 0..MaxRetries
    BY MailboxAssumption DEF WaiterStates
  <2>2. waiter' \in [Waiters -> WaiterStates]
    BY ZenonT(40), <1>8, <2>1, OffType DEF Retry, WaiterStates
  <2>3. QED
    BY <1>8, <2>2 DEF Retry
<1>9. ASSUME NEW w \in Waiters, Leave(w) PROVE TypeOK'
  BY <1>9, OffType DEF Leave
<1>10. CASE OthersAppend
  BY <1>10, OutdatedType DEF OthersAppend
<1>11. CASE Stop
  BY <1>11, OffType, FaultType DEF Stop
<1>12. CASE Rehydrate
  <2>1. log' \in [Results -> Entries]
    BY <1>12, RehydrateEffect
  <2>2. QED
    BY <1>12, <2>1 DEF Rehydrate
<1>13. CASE Recovered \/ UNCHANGED vars
  BY <1>13 DEF Recovered, vars
<1>14. QED
  BY <1>1, <1>2, <1>3, <1>4, <1>5, <1>6, <1>7, <1>8, <1>9, <1>10, <1>11, <1>12, <1>13
     DEF Next, Consume

-----------------------------------------------------------------------------
(* Every action keeps the invariant, taken conjunct by conjunct. *)

(* What AppendIfLast does, once the reading is known to be a reading of an      *)
(* update in hand.                                                             *)
LEMMA AppendIfLastEffect ==
  ASSUME IInv, NEW w \in Waiters, AppendIfLast(w),
         NEW r, r = FirstOf(waiter[w].got)
  PROVE  /\ r \in Results /\ r \in waiter[w].got /\ log[r].acks = 0
         /\ log' = [log EXCEPT ![r].acks = 1]
         /\ \A v \in Waiters :
               /\ waiter'[v].at = waiter[v].at /\ waiter'[v].seen = waiter[v].seen
               /\ waiter'[v].got \in SUBSET waiter[v].got
               /\ waiter'[v].read # "current"
               /\ waiter'[v].read # "no" => waiter'[v].got = waiter[v].got /\ waiter[v].read # "no"
         /\ revision' = revision + 1
         /\ UNCHANGED <<post, phase, todo, faults>>
<1> DEFINE x == [waiter[w] EXCEPT !.got = @ \ {r}, !.tries = 0, !.read = "no"]
           ws == [waiter EXCEPT ![w].got = @ \ {r}, ![w].tries = 0, ![w].read = "no"]
<1>1. waiter[w] \in WaiterStates /\ waiter \in [Waiters -> WaiterStates]
  BY DEF IInv, TypeOK
<1>2. waiter[w].read = "current" /\ waiter[w].got # {} /\ log[r].acks = 0
  BY DEF AppendIfLast, IInv, Heard
<1>3. r \in waiter[w].got /\ r \in Results
  BY <1>1, <1>2, FirstOfType DEF WaiterStates
<1>4. x \in WaiterStates /\ ws = [waiter EXCEPT ![w] = x]
  BY <1>1, Bounds DEF WaiterStates
<1>5. /\ x.at = waiter[w].at /\ x.seen = waiter[w].seen /\ x.read = "no"
      /\ x.got \in SUBSET waiter[w].got
  BY <1>1 DEF WaiterStates
<1>6. log' = [log EXCEPT ![r].acks = Count(@)] /\ waiter' = Outdated(ws)
      /\ revision' = revision + 1 /\ UNCHANGED <<post, phase, todo, faults>>
  BY DEF AppendIfLast, Acknowledge
<1>7. log' = [log EXCEPT ![r].acks = 1]
  BY <1>2, <1>6 DEF Count
<1> HIDE DEF x, ws
<1>8. ws \in [Waiters -> WaiterStates] /\ \A v \in Waiters : ws[v] = IF v = w THEN x ELSE waiter[v]
  BY <1>1, <1>4
<1>9. \A v \in Waiters :
         /\ waiter'[v].at = ws[v].at /\ waiter'[v].seen = ws[v].seen
         /\ waiter'[v].got = ws[v].got /\ waiter'[v].read # "current"
         /\ waiter'[v].read # "no" => ws[v].read # "no"
  BY <1>6, <1>8, OutdatedType
<1>10. ASSUME NEW v \in Waiters
       PROVE  /\ waiter'[v].at = waiter[v].at /\ waiter'[v].seen = waiter[v].seen
              /\ waiter'[v].got \in SUBSET waiter[v].got
              /\ waiter'[v].read # "current"
              /\ waiter'[v].read # "no" => waiter'[v].got = waiter[v].got /\ waiter[v].read # "no"
  <2>1. CASE v = w
    BY <1>5, <1>8, <1>9, <2>1
  <2>2. CASE v # w
    BY <1>8, <1>9, <2>2
  <2>3. QED
    BY <2>1, <2>2
<1>11. QED
  BY <1>2, <1>3, <1>6, <1>7, <1>10

(* x and y are the same wait, whatever became of x's reading. *)
Unread(x, y) ==
    /\ y.at = x.at /\ y.seen = x.seen /\ y.got = x.got
    /\ y.read = "no" \/ y.read = x.read

(* Retry and Leave start over or end the wait. *)
LEMMA GiveUpEffect ==
  ASSUME TypeOK, NEW v \in Waiters, NEW w \in Waiters, Retry(v) \/ Leave(v)
  PROVE  waiter'[w] = Off \/ Unread(waiter[w], waiter'[w])
<1>1. waiter \in [Waiters -> WaiterStates]
  BY DEF TypeOK
<1>2. CASE v # w \/ Leave(v)
  BY <1>1, <1>2 DEF Retry, Leave, Unread
<1>3. CASE v = w /\ Retry(v)
  <2> DEFINE x == [waiter[w] EXCEPT !.tries = waiter[w].tries + 1, !.read = "no"]
  <2>1. waiter'[w] = Off \/ waiter'[w] = x
    BY <1>1, <1>3 DEF Retry
  <2>2. Unread(waiter[w], x)
    BY <1>1 DEF WaiterStates, Unread
  <2>3. QED
    BY <2>1, <2>2
<1>4. QED
  BY <1>2, <1>3

(* The log and the tasks that post to it. *)
LEMMA PostedStep ==
  IInv /\ [Next]_vars => \A r \in Results : Posted(r)'
<1> SUFFICES ASSUME IInv, [Next]_vars, NEW r \in Results PROVE Posted(r)'
  OBVIOUS
<1>1. log[r] \in Entries /\ log \in [Results -> Entries] /\ post \in [Results -> {"none", "notify", "wake"}]
  BY DEF IInv, TypeOK
<1>2. Posted(r)
  BY DEF IInv
<1> USE <1>1, <1>2 DEF Posted, Announced, Entries
<1>3. ASSUME NEW q \in Results, ChildSettles(q) PROVE Posted(r)'
  BY <1>3 DEF ChildSettles
<1>4. ASSUME NEW q \in Results, Notify(q) PROVE Posted(r)'
  BY <1>4 DEF Notify, Count
<1>5. ASSUME NEW q \in Results, Wake(q) PROVE Posted(r)'
  BY <1>5 DEF Wake
<1>6. ASSUME NEW q \in Results, RecoverNotification(q) PROVE Posted(r)'
  <2>1. log[q].settled /\ log[q].notices = 0
    BY <1>6 DEF RecoverNotification, IInv, ListedMissing, Missing
  <2>2. post[r] = "none" /\ post' = post
    BY <1>6 DEF RecoverNotification, IInv, Quiet
  <2>3. log' = log \/ log' = [log EXCEPT ![q].notices = 1]
    BY <1>6, <2>1 DEF RecoverNotification, Count
  <2>4. QED
    BY <2>1, <2>2, <2>3
<1>7. ASSUME NEW w \in Waiters, Wait(w) PROVE Posted(r)'
  BY <1>7 DEF Wait, Subscribe, Check, Changed, TimedOut
<1>8. ASSUME NEW w \in Waiters, ReadLog(w) \/ Retry(w) \/ Leave(w) PROVE Posted(r)'
  BY <1>8 DEF ReadLog, Retry, Leave
<1>9. ASSUME NEW w \in Waiters, AppendIfLast(w) PROVE Posted(r)'
  <2> DEFINE q == FirstOf(waiter[w].got)
  <2>1. Announced(q)
    BY <1>9, AppendIfLastEffect DEF IInv, Heard
  <2>2. log' = [log EXCEPT ![q].acks = 1] /\ post' = post
    BY <1>9, AppendIfLastEffect
  <2>3. QED
    BY <2>1, <2>2
<1>10. CASE OthersAppend \/ Recovered \/ UNCHANGED vars
  BY <1>10 DEF OthersAppend, Recovered, vars
<1>11. CASE Stop
  BY <1>11 DEF Stop
<1>12. CASE Rehydrate
  BY <1>12, RehydrateEffect DEF Rehydrate, IInv
<1>13. QED
  BY <1>3, <1>4, <1>5, <1>6, <1>7, <1>8, <1>9, <1>10, <1>11, <1>12 DEF Next, Consume

(* The waiters. *)
LEMMA HeardStep ==
  IInv /\ [Next]_vars => \A w \in Waiters : Heard(w)'
<1> SUFFICES ASSUME IInv, [Next]_vars, NEW w \in Waiters PROVE Heard(w)'
  OBVIOUS
<1>1. /\ log \in [Results -> Entries] /\ waiter \in [Waiters -> WaiterStates]
      /\ waiter[w] \in WaiterStates /\ revision \in Nat
  BY DEF IInv, TypeOK
<1>2. Heard(w)
  BY DEF IInv
<1> USE <1>1, <1>2
<1>3. ASSUME NEW q \in Results, ChildSettles(q) PROVE Heard(w)'
  BY <1>3, OutdatedType DEF ChildSettles, Heard, Announced, WaiterStates, Entries
<1>4. ASSUME NEW q \in Results, Notify(q) PROVE Heard(w)'
  <2>1. Count(log[q].notices) > 0
    BY CountType DEF Entries
  <2>2. \A r \in Results : Announced(r) => Announced(r)'
    BY <1>4, <2>1 DEF Notify, Announced, Entries
  <2>3. CASE waiter' = Outdated(waiter)
    BY <1>4, <2>2, <2>3, OutdatedType DEF Notify, Heard, WaiterStates
  <2>4. CASE UNCHANGED <<log, waiter>>
    BY <1>4, <2>4 DEF Notify, Heard, Announced
  <2>5. QED
    BY <1>4, <2>3, <2>4 DEF Notify
<1>5. ASSUME NEW q \in Results, Wake(q) PROVE Heard(w)'
  BY <1>5 DEF Wake, Heard, Announced, WaiterStates
<1>6. ASSUME NEW q \in Results, RecoverNotification(q) PROVE Heard(w)'
  BY <1>6 DEF RecoverNotification, Heard, IInv, Quiet, Off
<1>7. ASSUME NEW v \in Waiters, Wait(v) PROVE Heard(w)'
  <2>1. CASE Subscribe(v) \/ Changed(v)
    BY <2>1 DEF Subscribe, Changed, Heard, Announced, WaiterStates
  <2>2. CASE Check(v)
    BY <2>2 DEF Check, Heard, Announced, WaiterStates, PendingFor, Pending
  <2>3. CASE TimedOut(v)
    BY <2>3 DEF TimedOut, Heard, Announced, Off
  <2>4. QED
    BY <1>7, <2>1, <2>2, <2>3 DEF Wait
<1>8. ASSUME NEW v \in Waiters, ReadLog(v) PROVE Heard(w)'
  BY <1>8 DEF ReadLog, AlreadyConsumed, Heard, Announced, WaiterStates
<1>9. ASSUME NEW v \in Waiters, Retry(v) \/ Leave(v) PROVE Heard(w)'
  <2>1. waiter'[w] = Off \/ Unread(waiter[w], waiter'[w])
    BY <1>9, GiveUpEffect DEF IInv
  <2>2. log' = log /\ revision' = revision
    BY <1>9 DEF Retry, Leave
  <2>3. CASE waiter'[w] = Off
    BY <2>2, <2>3 DEF Heard, Off
  <2>4. CASE Unread(waiter[w], waiter'[w])
    BY <2>2, <2>4 DEF Heard, Announced, Unread
  <2>5. QED
    BY <2>1, <2>3, <2>4
<1>10. ASSUME NEW v \in Waiters, AppendIfLast(v) PROVE Heard(w)'
  <2>1. \A r \in Results : Announced(r) => Announced(r)'
    <3> DEFINE q == FirstOf(waiter[v].got)
    <3>1. log' = [log EXCEPT ![q].acks = 1]
      BY <1>10, AppendIfLastEffect
    <3>2. \A r \in Results : log'[r].notices = log[r].notices
      BY <3>1 DEF Entries
    <3>3. QED
      BY <3>2 DEF Announced
  <2>2. /\ waiter'[w].at = waiter[w].at /\ waiter'[w].seen = waiter[w].seen
        /\ waiter'[w].got \in SUBSET waiter[w].got
        /\ waiter'[w].read # "current"
        /\ waiter'[w].read # "no" => waiter'[w].got = waiter[w].got /\ waiter[w].read # "no"
        /\ revision' = revision + 1
    BY <1>10, AppendIfLastEffect
  <2>3. waiter[w].seen \in Nat /\ waiter[w].got \in SUBSET Results
    BY DEF WaiterStates
  <2>4. QED
    BY <2>1, <2>2, <2>3 DEF Heard
<1>11. CASE OthersAppend
  BY <1>11, OutdatedType DEF OthersAppend, Heard, Announced, WaiterStates
<1>12. CASE Stop
  BY <1>12 DEF Stop, Heard, Off
<1>13. CASE Rehydrate
  <2>1. waiter'[w] = Off /\ revision' = revision
    BY <1>13 DEF Rehydrate, IInv, Quiet
  <2>2. QED
    BY <2>1 DEF Heard, Off
<1>14. CASE Recovered \/ UNCHANGED vars
  BY <1>14 DEF Recovered, vars, Heard, Announced
<1>15. QED
  BY <1>3, <1>4, <1>5, <1>6, <1>7, <1>8, <1>9, <1>10, <1>11, <1>12, <1>13, <1>14
     DEF Next, Consume

(* A process that is not up does nothing of this. *)
LEMMA QuietStep == IInv /\ [Next]_vars => Quiet'
<1> SUFFICES ASSUME IInv, [Next]_vars PROVE Quiet'
  OBVIOUS
<1> USE DEF IInv, Quiet
<1>1. ASSUME NEW r \in Results, ChildSettles(r) \/ Notify(r) \/ Wake(r) PROVE Quiet'
  BY <1>1 DEF ChildSettles, Notify, Wake
<1>2. ASSUME NEW r \in Results, RecoverNotification(r) PROVE Quiet'
  BY <1>2 DEF RecoverNotification
<1>3. ASSUME NEW w \in Waiters, Wait(w) \/ Consume(w) PROVE Quiet'
  BY <1>3 DEF Wait, Consume, Subscribe, Check, Changed, TimedOut, ReadLog, AppendIfLast,
     Acknowledge, Retry, Leave
<1>4. CASE OthersAppend \/ Recovered
  BY <1>4 DEF OthersAppend, Recovered
<1>5. CASE Stop
  BY <1>5 DEF Stop
<1>6. CASE Rehydrate \/ UNCHANGED vars
  BY <1>6 DEF Rehydrate, vars
<1>7. QED
  BY <1>1, <1>2, <1>3, <1>4, <1>5, <1>6 DEF Next

(* What the pass has still to post. *)
LEMMA ListedMissingStep == IInv /\ [Next]_vars => ListedMissing'
<1> SUFFICES ASSUME IInv, [Next]_vars, phase' = "recovering"
             PROVE  todo' = {r \in Results : Missing(r)'}
  BY DEF ListedMissing
<1>1. log \in [Results -> Entries] /\ todo \subseteq Results
  BY DEF IInv, TypeOK
<1>2. phase = "recovering" => todo = {r \in Results : Missing(r)}
  BY DEF IInv, ListedMissing
<1>3. ASSUME NEW r \in Results, RecoverNotification(r)
      PROVE  todo' = {q \in Results : Missing(q)'}
  <2>1. phase = "recovering" /\ log' = [log EXCEPT ![r].notices = Count(@)]
        /\ todo' = todo \ {r}
    BY <1>3 DEF RecoverNotification
  <2>2. Count(log[r].notices) > 0
    BY <1>1, CountType DEF Entries
  <2>3. ~Missing(r)' /\ \A q \in Results : q # r => (Missing(q)' <=> Missing(q))
    BY <1>1, <2>1, <2>2 DEF Missing, Announced, Entries
  <2>4. QED
    BY <1>2, <2>1, <2>3
<1>4. CASE Rehydrate
  BY <1>4 DEF Rehydrate
<1>5. CASE UNCHANGED vars
  BY <1>2, <1>5 DEF vars, Missing, Announced
<1>6. CASE Recovered \/ Stop
  BY <1>6 DEF Recovered, Stop
<1>7. ASSUME phase = "up", UNCHANGED phase PROVE FALSE
  BY <1>7
<1>8. ASSUME NEW r \in Results, ChildSettles(r) \/ Notify(r) \/ Wake(r) PROVE FALSE
  BY <1>7, <1>8 DEF ChildSettles, Notify, Wake
<1>9. ASSUME NEW w \in Waiters, Wait(w) \/ Consume(w) PROVE FALSE
  BY <1>7, <1>9 DEF Wait, Consume, Subscribe, Check, Changed, TimedOut, ReadLog, AppendIfLast,
     Acknowledge, Retry, Leave
<1>10. CASE OthersAppend
  BY <1>7, <1>10 DEF OthersAppend
<1>11. QED
  BY <1>3, <1>4, <1>5, <1>6, <1>8, <1>9, <1>10 DEF Next

(* The sleepers: an update that becomes pending has its wakeup still to come,   *)
(* and a wakeup moves the revision past what any waiter has seen.               *)
LEMMA NoMissedWakeupStep == IInv /\ [Next]_vars => NoMissedWakeup'
<1> SUFFICES ASSUME IInv, [Next]_vars, NEW w \in Waiters,
                    waiter'[w].at = "asleep", waiter'[w].seen = revision',
                    NEW r \in PendingFor(w)'
             PROVE  post'[r] = "wake"
  BY DEF NoMissedWakeup
<1>1. /\ log \in [Results -> Entries] /\ waiter \in [Waiters -> WaiterStates]
      /\ waiter[w] \in WaiterStates /\ revision \in Nat /\ waiter[w].seen \in Nat
      /\ post \in [Results -> {"none", "notify", "wake"}]
  BY DEF IInv, TypeOK, WaiterStates
<1>2. r \in Results /\ r \in Interest[w] /\ Posted(r) /\ log'[r].notices > 0 /\ log'[r].acks = 0
  BY MailboxAssumption DEF PendingFor, IInv, Pending, Announced
<1>3. waiter[w].seen <= revision
  BY DEF IInv, Heard
<1>4. ASSUME waiter[w].at = "asleep", waiter[w].seen = revision,
             log[r].notices > 0, log[r].acks = 0
      PROVE  post[r] = "wake"
  BY <1>2, <1>4 DEF IInv, NoMissedWakeup, PendingFor, Pending, Announced
<1>5. ASSUME NEW q \in Results, ChildSettles(q) PROVE post'[r] = "wake"
  <2>1. /\ waiter'[w].at = waiter[w].at /\ waiter'[w].seen = waiter[w].seen
    BY <1>1, <1>5, OutdatedType DEF ChildSettles
  <2>2. log'[r].notices = log[r].notices /\ log'[r].acks = log[r].acks
    BY <1>1, <1>2, <1>5 DEF ChildSettles, Entries
  <2>3. r # q
    BY <1>1, <1>2, <1>5, <2>2 DEF ChildSettles, Posted, Entries
  <2>4. QED
    BY <1>1, <1>2, <1>4, <1>5, <2>1, <2>2, <2>3 DEF ChildSettles
<1>6. ASSUME NEW q \in Results, Notify(q) PROVE post'[r] = "wake"
  <2>1. waiter'[w].at = waiter[w].at /\ waiter'[w].seen = waiter[w].seen
    BY <1>1, <1>6, OutdatedType DEF Notify
  <2>2. r # q => log'[r] = log[r]
    BY <1>1, <1>2, <1>6 DEF Notify
  <2>3. CASE r = q
    BY <1>1, <1>2, <1>6, <2>3 DEF Notify, Posted, Entries
  <2>4. CASE r # q
    BY <1>1, <1>2, <1>4, <1>6, <2>1, <2>2, <2>4 DEF Notify
  <2>5. QED
    BY <2>3, <2>4
<1>7. ASSUME NEW q \in Results, Wake(q) PROVE post'[r] = "wake"
  BY <1>1, <1>3, <1>7 DEF Wake
<1>8. ASSUME NEW q \in Results, RecoverNotification(q) PROVE post'[r] = "wake"
  BY <1>8 DEF RecoverNotification, IInv, Quiet, Off
<1>9. ASSUME NEW v \in Waiters, Wait(v) PROVE post'[r] = "wake"
  <2>1. log' = log /\ post' = post /\ revision' = revision
    BY <1>9 DEF Wait, Subscribe, Check, Changed, TimedOut
  <2>2. CASE waiter[w].at = "asleep" /\ waiter[w].seen = revision
    BY <1>2, <1>4, <2>1, <2>2
  <2>3. CASE Subscribe(v) \/ Changed(v) \/ TimedOut(v)
    BY <1>1, <1>2, <1>4, <2>1, <2>3 DEF Subscribe, Changed, TimedOut, Off, WaiterStates
  <2>4. CASE Check(v)
    <3>1. v = w \/ waiter'[w] = waiter[w]
      BY <1>1, <2>4 DEF Check
    <3>2. CASE v = w
      <4>1. PendingFor(w) = {}
        BY <1>1, <2>4, <3>2 DEF Check, WaiterStates
      <4>2. QED
        BY <1>2, <2>1, <4>1 DEF PendingFor, Pending, Announced
    <3>3. QED
      BY <1>2, <1>4, <2>1, <3>1, <3>2
  <2>5. QED
    BY <1>9, <2>3, <2>4 DEF Wait
<1>10. ASSUME NEW v \in Waiters, ReadLog(v) \/ Retry(v) \/ Leave(v) PROVE post'[r] = "wake"
  <2>1. waiter'[w].at = "off" \/ (waiter'[w].at = waiter[w].at /\ waiter'[w].seen = waiter[w].seen)
    <3>1. CASE ReadLog(v)
      BY <1>1, <3>1 DEF ReadLog, AlreadyConsumed, WaiterStates
    <3>2. CASE Retry(v) \/ Leave(v)
      BY <3>2, GiveUpEffect DEF IInv, TypeOK, Unread, Off
    <3>3. QED
      BY <1>10, <3>1, <3>2
  <2>2. QED
    BY <1>2, <1>4, <1>10, <2>1 DEF ReadLog, Retry, Leave
<1>11. ASSUME NEW v \in Waiters, AppendIfLast(v) PROVE post'[r] = "wake"
  <2>1. waiter'[w].seen = waiter[w].seen /\ revision' = revision + 1
    BY <1>11, AppendIfLastEffect
  <2>2. waiter[w].seen # revision + 1
    BY <1>1, <1>3
  <2>3. QED
    BY <2>1, <2>2
<1>12. CASE OthersAppend
  BY <1>1, <1>2, <1>4, <1>12, OutdatedType DEF OthersAppend
<1>13. CASE Stop
  BY <1>13 DEF Stop, Off
<1>14. CASE Rehydrate
  BY <1>14 DEF Rehydrate, IInv, Quiet, Off
<1>15. CASE Recovered \/ UNCHANGED vars
  BY <1>2, <1>4, <1>15 DEF Recovered, vars
<1>16. QED
  BY <1>5, <1>6, <1>7, <1>8, <1>9, <1>10, <1>11, <1>12, <1>13, <1>14, <1>15 DEF Next, Consume

-----------------------------------------------------------------------------
LEMMA InvInit == Init => IInv
<1> SUFFICES ASSUME Init PROVE IInv
  OBVIOUS
<1>1. \A r \in Results : Posted(r)
  <2> SUFFICES ASSUME NEW r \in Results PROVE Posted(r)
    OBVIOUS
  <2>1. log[r] = [settled |-> FALSE, notices |-> 0, acks |-> 0] /\ post[r] = "none"
    BY DEF Init
  <2>2. QED
    BY <2>1 DEF Posted
<1>2. \A w \in Waiters : Heard(w)
  BY DEF Init, Heard, Off
<1>3. Quiet /\ ListedMissing /\ NoMissedWakeup
  BY DEF Init, Quiet, ListedMissing, NoMissedWakeup, Off
<1>4. QED
  BY <1>1, <1>2, <1>3, TypeInit DEF IInv

LEMMA InvStep == IInv /\ [Next]_vars => IInv'
<1>1. IInv /\ [Next]_vars => TypeOK'
  BY TypeStep DEF IInv
<1>2. QED
  BY <1>1, PostedStep, HeardStep, QuietStep, ListedMissingStep, NoMissedWakeupStep DEF IInv

LEMMA Invariant == Spec => []IInv
  BY InvInit, InvStep, PTL DEF Spec

(* The mailbox keeps its types: events are counted within their range, and no  *)
(* waiter is ever in a state that wait and consume do not have.                *)
THEOREM TypeCorrect == Spec => []TypeOK
  BY Invariant, PTL DEF IInv

(* The watch channel loses no wakeup, however the append of a notification and *)
(* its wakeup interleave with subscribing, reading the log and going to sleep.  *)
THEOREM WakeupsNotMissed == Spec => []NoMissedWakeup
  BY Invariant, PTL DEF IInv

(* Every result is announced at most once and acknowledged at most once, with   *)
(* any number of waiters racing in consume and any number of restarts.          *)
THEOREM HappensOnce == Spec => []UpdatesHappenOnce
<1>1. IInv => UpdatesHappenOnce
  <2> SUFFICES ASSUME IInv, NEW r \in Results
               PROVE  /\ log[r].notices <= 1 /\ (Announced(r) => log[r].settled)
                      /\ log[r].acks <= 1 /\ (log[r].acks > 0 => Announced(r))
    BY DEF UpdatesHappenOnce
  <2>1. Posted(r) /\ log[r] \in Entries
    BY DEF IInv, TypeOK
  <2>2. QED
    BY <2>1 DEF Posted, Announced, Entries
<1>2. QED
  BY <1>1, Invariant, PTL

(* When recover_mailbox_notifications is through its single pass, every ended   *)
(* turn has been announced exactly once, those of a process that stopped between *)
(* the end of a turn and its notification included.  The pass itself looks no    *)
(* further than its list: that nothing is missing follows from ListedMissing.   *)
THEOREM RecoveryAnnouncesAll == Spec => RecoveryNotifiesAll
<1>1. IInv /\ [Next]_vars =>
        [phase = "recovering" /\ phase' = "up" =>
           \A r \in Results : log[r].settled => log[r].notices = 1]_vars
  <2> SUFFICES ASSUME IInv, Next, phase = "recovering", phase' = "up",
                      NEW r \in Results, log[r].settled
               PROVE  log[r].notices = 1
    OBVIOUS
  <2>1. Recovered
    BY DEF Next, ChildSettles, Notify, Wake, RecoverNotification, Wait, Consume, Subscribe,
       Check, Changed, TimedOut, ReadLog, AppendIfLast, Retry, Leave, OthersAppend, Stop,
       Rehydrate
  <2>2. Posted(r) /\ log[r] \in Entries /\ Announced(r)
    BY <2>1 DEF IInv, TypeOK, ListedMissing, Recovered, Missing
  <2>3. QED
    BY <2>2 DEF Posted, Announced, Entries
<1>2. QED
  BY <1>1, Invariant, PTL DEF Spec, RecoveryNotifiesAll
=============================================================================
