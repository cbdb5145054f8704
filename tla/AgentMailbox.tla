----------------------------- MODULE AgentMailbox -----------------------------
(***************************************************************************)
(* The mailbox of one parent: AgentMailbox and AgentMailboxProjection of     *)
(* ovim-core/src/agent_runtime/mailbox.rs, and the two places of             *)
(* supervisor.rs that post to it: notify_terminal when a child's turn ends,  *)
(* and recover_mailbox_notifications after a restart.                        *)
(*                                                                          *)
(* A notification is an event of the run log and stays pending until an      *)
(* acknowledgement event follows it.  The tokio watch channel next to it is   *)
(* only a wakeup: whoever waits subscribes, reads the log, and sleeps until   *)
(* the channel's revision moves.  The append and the wakeup are two steps.    *)
(***************************************************************************)
EXTENDS Naturals

CONSTANTS
    Results,     \* ended turns of the parent's children, one handoff each
    Waiters,     \* tasks that wait on the mailbox, each a clone of it
    Interest,    \* what a waiter waits for: all (wait), or one child's (wait_for_agent)
    MaxRetries,  \* MAX_CONSUME_RETRIES
    MaxFaults    \* bound on failed appends and process stops

ASSUME MailboxAssumption ==
    /\ Interest \in [Waiters -> SUBSET Results]
    /\ MaxRetries \in Nat /\ MaxRetries >= 1
    /\ MaxFaults \in Nat

VARIABLES
    log,       \* log[r]: the durable events about r
    post,      \* post[r]: how far the task that ended r is with notifying
    revision,  \* the version of the watch channel
    waiter,    \* what each waiter does
    phase,     \* "up", "recovering" or "down"
    todo,      \* the results a running restart has found missing and not posted yet
    faults

vars == <<log, post, revision, waiter, phase, todo, faults>>

-----------------------------------------------------------------------------
(* notices and acks count events, up to the second one. *)
Entries == [settled : BOOLEAN, notices : 0..2, acks : 0..2]

(* seen is the version its Receiver has seen; got the updates it returned and *)
(* is acknowledging; ack the one it is in the compare-and-append loop for.    *)
WaiterStates ==
    [at : {"off", "check", "asleep", "got"}, seen : Nat, got : SUBSET Results,
     tries : 0..MaxRetries, read : {"no", "current", "stale"}]

Off == [at |-> "off", seen |-> 0, got |-> {}, tries |-> 0, read |-> "no"]

Announced(r) == log[r].notices > 0
Pending(r) == Announced(r) /\ log[r].acks = 0
PendingFor(w) == {r \in Interest[w] : Pending(r)}

FirstOf(S) == CHOOSE r \in S : TRUE
Count(n) == IF n < 2 THEN n + 1 ELSE n

Fault == faults < MaxFaults /\ faults' = faults + 1

(* An event was appended: a consumer that has read the log lost the race.      *)
Outdated(ws) ==
    [w \in Waiters |->
        IF ws[w].read = "current" THEN [ws[w] EXCEPT !.read = "stale"] ELSE ws[w]]

Init ==
    /\ log = [r \in Results |-> [settled |-> FALSE, notices |-> 0, acks |-> 0]]
    /\ post = [r \in Results |-> "none"]
    /\ revision = 0
    /\ waiter = [w \in Waiters |-> Off]
    /\ phase = "up"
    /\ todo = {}
    /\ faults = 0

-----------------------------------------------------------------------------
(* Posting. *)

(* A child's turn ends: its terminal event is in the log.                      *)
ChildSettles(r) ==
    /\ phase = "up"
    /\ ~log[r].settled
    /\ log' = [log EXCEPT ![r].settled = TRUE]
    /\ post' = [post EXCEPT ![r] = "notify"]
    /\ waiter' = Outdated(waiter)
    /\ UNCHANGED <<revision, phase, todo, faults>>

(* notify_terminal: AgentMailbox::notify appends ...  A failed append is an     *)
(* error that its callers log or return, and nothing in the process retries.    *)
Notify(r) ==
    /\ phase = "up"
    /\ post[r] = "notify"
    /\ \/ /\ log' = [log EXCEPT ![r].notices = Count(@)]
          /\ post' = [post EXCEPT ![r] = "wake"]
          /\ waiter' = Outdated(waiter)
          /\ UNCHANGED faults
       \/ /\ Fault
          /\ post' = [post EXCEPT ![r] = "none"]
          /\ UNCHANGED <<log, waiter>>
    /\ UNCHANGED <<revision, phase, todo>>

(* A mistake for WaitersAreServed to catch: one waiter is woken, not all.       *)
WakeOne(r) ==
    /\ phase = "up"
    /\ post[r] = "wake"
    /\ post' = [post EXCEPT ![r] = "none"]
    /\ revision' = revision + 1
    /\ \E lucky \in Waiters :
          waiter' = [w \in Waiters |->
                        IF w = lucky THEN waiter[w] ELSE [waiter[w] EXCEPT !.seen = revision + 1]]
    /\ UNCHANGED <<log, phase, todo, faults>>

(* ... and then wakes (send_replace). *)
Wake(r) ==
    /\ phase = "up"
    /\ post[r] = "wake"
    /\ post' = [post EXCEPT ![r] = "none"]
    /\ revision' = revision + 1
    /\ UNCHANGED <<log, waiter, phase, todo, faults>>

-----------------------------------------------------------------------------
(* Waiting: wait and wait_for_agent. *)

(* A mistake for NoMissedWakeup to catch: the log is read only when woken.      *)
SubscribeUnread(w) ==
    /\ phase = "up"
    /\ waiter[w].at = "off"
    /\ waiter' = [waiter EXCEPT ![w].at = "asleep", ![w].seen = revision]
    /\ UNCHANGED <<log, post, revision, phase, todo, faults>>

Subscribe(w) ==
    /\ phase = "up"
    /\ waiter[w].at = "off"
    /\ waiter' = [waiter EXCEPT ![w].at = "check", ![w].seen = revision]
    /\ UNCHANGED <<log, post, revision, phase, todo, faults>>

(* Read the log: return what is pending, or sleep.                             *)
Check(w) ==
    /\ phase = "up"
    /\ waiter[w].at = "check"
    /\ waiter' = [waiter EXCEPT ![w].at = IF PendingFor(w) = {} THEN "asleep" ELSE "got",
                                ![w].got = PendingFor(w)]
    /\ UNCHANGED <<log, post, revision, phase, todo, faults>>

(* receiver.changed() returns once the revision is not the one seen last.       *)
Changed(w) ==
    /\ phase = "up"
    /\ waiter[w].at = "asleep"
    /\ waiter[w].seen # revision
    /\ waiter' = [waiter EXCEPT ![w].at = "check", ![w].seen = revision]
    /\ UNCHANGED <<log, post, revision, phase, todo, faults>>

TimedOut(w) ==
    /\ phase = "up"
    /\ waiter[w].at = "asleep"
    /\ waiter' = [waiter EXCEPT ![w] = Off]
    /\ UNCHANGED <<log, post, revision, phase, todo, faults>>

-----------------------------------------------------------------------------
(* Acknowledging: consume, for every update a wait returned. *)

(* The updates are acknowledged, or not going to be: the wait's result did not  *)
(* win, the caller only observes, or consume returned an error.                *)
Leave(w) ==
    /\ phase = "up"
    /\ waiter[w].at = "got"
    /\ waiter' = [waiter EXCEPT ![w] = Off]
    /\ UNCHANGED <<log, post, revision, phase, todo, faults>>

(* Another consumer was first: AlreadyConsumed.                                *)
AlreadyConsumed(w, r) ==
    /\ log[r].acks > 0
    /\ waiter' = [waiter EXCEPT ![w].got = @ \ {r}, ![w].tries = 0]

ReadLog(w) ==
    /\ phase = "up"
    /\ waiter[w].at = "got"
    /\ waiter[w].got # {}
    /\ waiter[w].read = "no"
    /\ LET r == FirstOf(waiter[w].got)
       IN \/ AlreadyConsumed(w, r)
          \/ log[r].acks = 0 /\ waiter' = [waiter EXCEPT ![w].read = "current"]
    /\ UNCHANGED <<log, post, revision, phase, todo, faults>>

(* The acknowledgement and its wakeup, which only makes others look again.      *)
Acknowledge(w) ==
    LET r == FirstOf(waiter[w].got)
    IN /\ log' = [log EXCEPT ![r].acks = Count(@)]
       /\ waiter' = Outdated([waiter EXCEPT ![w].got = @ \ {r}, ![w].tries = 0,
                                            ![w].read = "no"])
       /\ revision' = revision + 1
       /\ UNCHANGED <<post, phase, todo, faults>>

(* A mistake for UpdatesHappenOnce to catch: append, not append_if_last.             *)
AppendAnyway(w) == phase = "up" /\ waiter[w].read # "no" /\ Acknowledge(w)

AppendIfLast(w) == phase = "up" /\ waiter[w].read = "current" /\ Acknowledge(w)

(* SequenceConflict: read again, or give up with ConcurrentUpdateLimit.         *)
Retry(w) ==
    /\ phase = "up"
    /\ waiter[w].read = "stale"
    /\ waiter' = [waiter EXCEPT
           ![w] = IF waiter[w].tries + 1 < MaxRetries
                  THEN [waiter[w] EXCEPT !.tries = waiter[w].tries + 1, !.read = "no"]
                  ELSE Off]
    /\ UNCHANGED <<log, post, revision, phase, todo, faults>>

(* Other events of the run are appended meanwhile.                             *)
OthersAppend ==
    /\ phase = "up"
    /\ \E w \in Waiters : waiter[w].read = "current"
    /\ waiter' = Outdated(waiter)
    /\ UNCHANGED <<log, post, revision, phase, todo, faults>>

-----------------------------------------------------------------------------
(* Stops and restarts. *)

Stop ==
    /\ phase # "down"
    /\ Fault
    /\ phase' = "down"
    /\ todo' = {}
    /\ post' = [r \in Results |-> "none"]
    /\ revision' = 0
    /\ waiter' = [w \in Waiters |-> Off]
    /\ UNCHANGED log

(* A mistake for RecoveryNotifiesAll to catch: a turn counts as announced when  *)
(* another turn is.                                                            *)
MissingAnywhere(r) == log[r].settled /\ \A q \in Results : ~Announced(q)

(* A terminal event whose own notification is not in the log, whichever          *)
(* generation of its child it ended.                                            *)
Missing(r) == log[r].settled /\ ~Announced(r)

(* AgentDispatchScheduler::rehydrate has ended turns of its own, which the old   *)
(* process left running; recover_mailbox_notifications then reads the log once.  *)
Rehydrate ==
    /\ phase = "down"
    /\ \E ended \in SUBSET {r \in Results : ~log[r].settled} :
          log' = [r \in Results |-> IF r \in ended THEN [log[r] EXCEPT !.settled = TRUE]
                                   ELSE log[r]]
    /\ phase' = "recovering"
    /\ todo' = {r \in Results : Missing(r)'}
    /\ UNCHANGED <<post, revision, waiter, faults>>

(* It goes once through what it read, and returns the first error.  (The other  *)
(* cases it skips do not occur: rehydrate has restored every agent of the log,   *)
(* and a terminal event names its handoff, SettledWithEvidence of               *)
(* AgentScheduler.)                                                             *)
RecoverNotification(r) ==
    /\ phase = "recovering"
    /\ r \in todo
    /\ \/ /\ log' = [log EXCEPT ![r].notices = Count(@)]
          /\ todo' = todo \ {r}
          /\ UNCHANGED <<phase, faults>>
       \/ phase' = "down" /\ todo' = {} /\ Fault /\ UNCHANGED log
    /\ UNCHANGED <<post, revision, waiter>>

Recovered ==
    /\ phase = "recovering"
    /\ todo = {}
    /\ phase' = "up"
    /\ UNCHANGED <<log, post, revision, waiter, todo, faults>>

-----------------------------------------------------------------------------
Wait(w) ==
    Subscribe(w) \/ Check(w) \/ Changed(w) \/ TimedOut(w)

Consume(w) ==
    ReadLog(w) \/ AppendIfLast(w) \/ Retry(w) \/ Leave(w)

Next ==
    \/ \E r \in Results : ChildSettles(r) \/ Notify(r) \/ Wake(r) \/ RecoverNotification(r)
    \/ \E w \in Waiters : Wait(w) \/ Consume(w)
    \/ OthersAppend
    \/ Stop
    \/ Rehydrate
    \/ Recovered

Spec == Init /\ [][Next]_vars

(* Whoever has appended goes on to wake; whoever is woken looks.  Nobody must   *)
(* give up.                                                                    *)
Fairness ==
    /\ \A r \in Results : WF_vars(Wake(r))
    /\ \A w \in Waiters : WF_vars(Check(w)) /\ WF_vars(Changed(w))

FairSpec == Spec /\ Fairness

-----------------------------------------------------------------------------
(* Properties. *)

TypeOK ==
    /\ log \in [Results -> Entries]
    /\ post \in [Results -> {"none", "notify", "wake"}]
    /\ revision \in Nat
    /\ waiter \in [Waiters -> WaiterStates]
    /\ phase \in {"up", "recovering", "down"}
    /\ todo \subseteq Results
    /\ faults \in 0..MaxFaults

(* No wakeup is lost: whoever sleeps without a wakeup on its way to it has      *)
(* nothing to wait for but updates whose task has still to wake it.             *)
NoMissedWakeup ==
    \A w \in Waiters :
        waiter[w].at = "asleep" /\ waiter[w].seen = revision =>
            \A r \in PendingFor(w) : post[r] = "wake"

(* An ended turn is announced at most once, by the process that ended it or by  *)
(* a later one, and its update is acknowledged once, whichever waiters received *)
(* it, and only after it was announced.                                        *)
UpdatesHappenOnce ==
    \A r \in Results :
        /\ log[r].notices <= 1 /\ (Announced(r) => log[r].settled)
        /\ log[r].acks <= 1 /\ (log[r].acks > 0 => Announced(r))

(* One pass is enough: when a restart hands the supervisor over, the parent's    *)
(* mailbox holds every result of its children once, those included that a        *)
(* stopped process or an earlier restart failed to announce.                     *)
RecoveryNotifiesAll ==
    [][phase = "recovering" /\ phase' = "up" =>
          \A r \in Results : log[r].settled => log[r].notices = 1]_vars

(* An update reaches a waiter that waits for it, unless it gives up or another  *)
(* consumer was first.                                                         *)
WaitersAreServed ==
    \A w \in Waiters, r \in Results :
        (waiter[w].at = "asleep" /\ r \in PendingFor(w))
            ~> (waiter[w].at # "asleep" \/ log[r].acks > 0)
=============================================================================
