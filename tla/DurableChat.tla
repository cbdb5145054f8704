----------------------------- MODULE DurableChat -----------------------------
(***************************************************************************)
(* Editors that open the durable AI chat of one file: prepare_durable_ai_   *)
(* chat and recover_run_with_no_live_owner of ovim-core/src/editor/         *)
(* ai_durable_chat.rs, over the conversation catalog of run_log/catalog.rs, *)
(* the run log store, RecoveryPlan and apply_recovery of run_log/           *)
(* recovery.rs and the turns of AgentRuntime (agent_runtime/service.rs).    *)
(*                                                                          *)
(* Each process is one run of ovim.  Every catalog transaction and every    *)
(* append is one step; anything may happen between two of them, the end of  *)
(* the process included.  Processes share the catalog row of the chat, the  *)
(* logs of its runs and the registered owners of each run.                  *)
(***************************************************************************)
EXTENDS RunHistory

CONSTANTS
    Procs,      \* processes of ovim
    Resumers,   \* those started with --resume
    Workers,    \* those whose user sends messages
    ToolUsers,  \* those whose turns call a tool
    Delegates,  \* those whose turns delegate to a child agent
    MaxAtOnce,  \* bound on the processes that are running at one time
    NumRuns,    \* run identifiers to choose from
    MaxTurns    \* bound on the turns of one process

ASSUME ProcsAssumption ==
    /\ Resumers \subseteq Procs
    /\ Workers \subseteq Procs
    /\ ToolUsers \subseteq Workers
    /\ Delegates \subseteq Workers
    /\ MaxAtOnce \in Nat
    /\ NumRuns \in Nat
    /\ MaxTurns \in Nat

VARIABLES
    catalog,  \* the conversation binding: its run, 0 before there is one, and branch
    log,      \* log[r]: the events of run r
    owners,   \* owners[r]: processes registered as writers of run r
    proc      \* proc[p]: where process p is and what it remembers

vars == <<catalog, log, owners, proc>>

-----------------------------------------------------------------------------
(* State. *)

Runs == 1..NumRuns
NoRun == 0

Opening == {"reading", "rebinding", "restoring", "asking", "planning",
            "sealing", "rechecking", "declining", "forking", "selecting",
            "publishing", "registering"}

Open == {"ready", "closing"}

Ended == {"refused", "dead"}

ProcRecord ==
    [at : {"idle"} \cup Opening \cup Open \cup Ended,
     run : {NoRun} \cup Runs,
     branch : Nat,      \* selected_branch_id of the binding
     tip : Nat,         \* last_event of that branch, as the runtime remembers it
     fresh : BOOLEAN,   \* uninitialized_branch_id is set
     seen : Nat,        \* events read, and handed to restore_conversation
     checked : Nat,     \* length of the log when the owners were read
     done : Nat,        \* closing events appended
     turn : Nat,        \* active_turn
     op : Nat]          \* the operation that is not terminal

Unopened ==
    [at |-> "idle", run |-> NoRun, branch |-> Main, tip |-> 0, fresh |-> FALSE,
     seen |-> 0, checked |-> 0, done |-> 0, turn |-> 0, op |-> 0]

Init ==
    /\ catalog = [run |-> NoRun, branch |-> Main]
    /\ log = [r \in Runs |-> <<>>]
    /\ owners = [r \in Runs |-> {}]
    /\ proc = [p \in Procs |-> Unopened]

Alive(p) == proc[p].at # "dead"

(* A RunId nobody used: RunId::new, while there are any (a bound of the model). *)
Unused ==
    {r \in Runs : log[r] = <<>> /\ catalog.run # r /\ owners[r] = {}
                     /\ \A p \in Procs : proc[p].run # r}

NewRun == Min(Unused)

(* What process p becomes at its next step. *)
Moves(p, to) == proc' = [proc EXCEPT ![p] = to]

Goes(p, place) == Moves(p, [proc[p] EXCEPT !.at = place])

-----------------------------------------------------------------------------
(* Opening the chat: the catalog. *)

(* restore_conversation of a new run: no other process can have written to it, *)
(* and the runtime keeps it uninitialised until the first turn.                *)
Uninitialised(r) == [Unopened EXCEPT !.at = "registering", !.run = r, !.fresh = TRUE]

(* A mistake for TypeOK to catch: the binding does not name the branch. *)
ReboundUnnamed(r) == catalog' = [run |-> r, branch |-> NoBranch]

(* CatalogStore::start_conversation *)
Rebound(r) == catalog' = [run |-> r, branch |-> Main]

(* start_fresh_conversation: bound only if there is no conversation. *)
FreshlyBound(r) == IF catalog.run = NoRun THEN Rebound(r) ELSE UNCHANGED catalog

(* p starts, and its user opens the chat. *)
Starts(p) ==
    /\ proc[p].at = "idle"
    /\ Cardinality({q \in Procs : proc[q].at \notin {"idle", "refused", "dead"}}) < MaxAtOnce

(* Without --resume. *)
StartFresh(p) ==
    /\ p \notin Resumers
    /\ Starts(p)
    /\ Unused # {}
    /\ FreshlyBound(NewRun)
    /\ Moves(p, Uninitialised(NewRun))
    /\ UNCHANGED <<log, owners>>

(* open_conversation *)
OpenBound(p) ==
    LET r == IF catalog.run = NoRun THEN NewRun ELSE catalog.run
    IN  /\ p \in Resumers
        /\ Starts(p)
        /\ catalog.run = NoRun => Unused # {}
        /\ FreshlyBound(r)
        /\ Moves(p, [Unopened EXCEPT !.at = "reading", !.run = r,
                                     !.branch = catalog'.branch])
        /\ UNCHANGED <<log, owners>>

(* Events are read to see whether there are any, and to restore them.  A run   *)
(* that has events keeps them, so both readings of it are one step.            *)
Read(p) ==
    LET length == Len(log[proc[p].run])
    IN  /\ proc[p].at = "reading"
        /\ Moves(p, [proc[p] EXCEPT !.at = IF length = 0 THEN "rebinding" ELSE "restoring",
                                    !.seen = length])
        /\ UNCHANGED <<catalog, log, owners>>

(* An empty run is abandoned for a new one, and so is an invalid history. *)
Rebind(p) ==
    /\ proc[p].at = "rebinding"
    /\ Unused # {}
    /\ Rebound(NewRun)
    /\ Moves(p, Uninitialised(NewRun))
    /\ UNCHANGED <<log, owners>>

(* The answer of restore_conversation; events appended since they were read    *)
(* make a mismatch.                                                            *)
Restored(p) ==
    LET l == log[proc[p].run]
    IN  IF Len(l) # proc[p].seen THEN "mismatch" ELSE Verdict(l, proc[p].branch)

(* prepare_durable_ai_chat: what each answer leads to. *)
AfterRestore(verdict) ==
    CASE verdict = "ok" -> "forking"
      [] verdict = "unrecovered" -> "asking"
      [] verdict = "invalid" -> "rebinding"
      [] verdict = "mismatch" -> "refused"

Remembering(p, place) ==
    [proc[p] EXCEPT !.at = place, !.seen = 0, !.checked = 0, !.done = 0,
                    !.tip = Tip(log[proc[p].run], proc[p].seen, proc[p].branch)]

Restore(p) ==
    /\ proc[p].at = "restoring"
    /\ Moves(p, Remembering(p, AfterRestore(Restored(p))))
    /\ UNCHANGED <<catalog, log, owners>>

-----------------------------------------------------------------------------
(* Opening the chat: recovery. *)

(* A mistake for SealsOnlyTheDead to catch: one dead owner is enough. *)
MayHaveWriterUnlessOneDied(r) == \A o \in owners[r] : Alive(o)

(* Nobody registered, or someone is alive: the run is left alone. *)
MayHaveWriter(r) == owners[r] = {} \/ \E o \in owners[r] : Alive(o)

AskOwners(p) ==
    LET r == proc[p].run
    IN  /\ proc[p].at = "asking"
        /\ Moves(p, [proc[p] EXCEPT
                         !.at = IF MayHaveWriter(r) THEN "declining" ELSE "planning",
                         !.checked = Len(log[r])])
        /\ UNCHANGED <<catalog, log, owners>>

(* RecoveryPlanner::plan *)
Plan(p) ==
    /\ proc[p].at = "planning"
    /\ Moves(p, [proc[p] EXCEPT !.at = "sealing", !.seen = Len(log[proc[p].run])])
    /\ UNCHANGED <<catalog, log, owners>>

PlanOf(p) == Seals(SubSeq(log[proc[p].run], 1, proc[p].seen))

(* A mistake for HistoryStaysReadable to catch: closing events are appended     *)
(* unguarded, as all others are.                                               *)
PlanIsStaleNever(p) == FALSE

PlanIsStale(p) == Len(log[proc[p].run]) # proc[p].seen + proc[p].done

(* guarded_append: one closing event, at the sequence the plan expects. *)
SealNext(p) ==
    LET r == proc[p].run
        planned == SubSeq(log[r], 1, proc[p].seen + proc[p].done)
    IN  /\ proc[p].at = "sealing"
        /\ proc[p].done < Len(PlanOf(p))
        /\ ~PlanIsStale(p)
        /\ log' = [log EXCEPT ![r] =
               Append(@, SealEvent(planned, PlanOf(p)[proc[p].done + 1], p, proc[p].checked))]
        /\ Moves(p, [proc[p] EXCEPT !.done = @ + 1])
        /\ UNCHANGED <<catalog, owners>>

(* PlanStale: another process appended. *)
LoseRace(p) ==
    /\ proc[p].at = "sealing"
    /\ proc[p].done = 0 \/ proc[p].done < Len(PlanOf(p))
    /\ PlanIsStale(p)
    /\ Goes(p, "declining")
    /\ UNCHANGED <<catalog, log, owners>>

(* All is written, and the history is read again. *)
EndSealing(p) ==
    /\ proc[p].at = "sealing"
    /\ proc[p].done = Len(PlanOf(p))
    /\ proc[p].done = 0 => ~PlanIsStale(p)
    /\ Moves(p, [proc[p] EXCEPT !.at = "rechecking", !.seen = Len(log[proc[p].run])])
    /\ UNCHANGED <<catalog, log, owners>>

Recheck(p) ==
    /\ proc[p].at = "rechecking"
    /\ Moves(p, Remembering(p, IF Restored(p) = "ok" THEN "forking" ELSE "declining"))
    /\ UNCHANGED <<catalog, log, owners>>

(* An independent run; the old one stays where it is. *)
Decline(p) ==
    /\ proc[p].at = "declining"
    /\ Unused # {}
    /\ FreshlyBound(NewRun)
    /\ Moves(p, Uninitialised(NewRun))
    /\ UNCHANGED <<log, owners>>

-----------------------------------------------------------------------------
(* Opening the chat: a branch of one's own. *)

(* append_for: nothing guards it; the cause is the tip the runtime remembers. *)
Appended(p, kind, branch, of, how) ==
    log' = [log EXCEPT ![proc[p].run] = Append(@,
        [kind |-> kind, branch |-> branch, cause |-> proc[p].tip, of |-> of,
         how |-> how, by |-> p, checked |-> -1])]

NextEvent(p) == Len(log[proc[p].run]) + 1

(* A mistake for BranchHasOneWriter to catch: the conversation goes on on the   *)
(* branch that was selected.                                                   *)
ForkNot(p) ==
    /\ proc[p].at = "forking"
    /\ Goes(p, "selecting")
    /\ UNCHANGED <<catalog, log, owners>>

(* fork_branch_at the tip of the selected branch. *)
Fork(p) ==
    /\ proc[p].at = "forking"
    /\ Appended(p, "forked", NextEvent(p), proc[p].branch, "none")
    /\ Moves(p, [proc[p] EXCEPT !.at = "selecting", !.branch = NextEvent(p),
                                !.tip = NextEvent(p)])
    /\ UNCHANGED <<catalog, owners>>

Select(p) ==
    /\ proc[p].at = "selecting"
    /\ Appended(p, "selected", proc[p].branch, 0, "none")
    /\ Moves(p, [proc[p] EXCEPT !.at = "publishing", !.tip = NextEvent(p)])
    /\ UNCHANGED <<catalog, owners>>

(* update_selected_branch: only while the conversation is still this run. *)
Publish(p) ==
    /\ proc[p].at = "publishing"
    /\ catalog' = [catalog EXCEPT
           !.branch = IF catalog.run = proc[p].run THEN proc[p].branch ELSE @]
    /\ Goes(p, "registering")
    /\ UNCHANGED <<log, owners>>

RegisterOwner(p) ==
    /\ proc[p].at = "registering"
    /\ owners' = [owners EXCEPT ![proc[p].run] = @ \cup {p}]
    /\ Goes(p, "ready")
    /\ UNCHANGED <<catalog, log>>

-----------------------------------------------------------------------------
(* Turns, written by the process that opened the chat. *)

Writes(p, to) == Moves(p, to) /\ UNCHANGED <<catalog, owners>>

(* A run some other process reads, or may come to read.  Turns on any other    *)
(* run touch nothing that is shared: they are left out (a bound of the model). *)
Shared(p) == catalog.run = proc[p].run \/ \E q \in Procs \ {p} : proc[q].run = proc[p].run

(* initialize_bound_conversation, at the first turn: the run and the root      *)
(* agent are created, then the branch is declared.                             *)
CreateRun(p) ==
    /\ proc[p].at = "ready" /\ proc[p].fresh /\ proc[p].tip = 0
    /\ p \in Workers /\ Shared(p)
    /\ Appended(p, "created", Main, 0, "none")
    /\ Writes(p, [proc[p] EXCEPT !.tip = NextEvent(p)])

DeclareBranch(p) ==
    /\ proc[p].at = "ready" /\ proc[p].fresh /\ proc[p].tip # 0
    /\ Appended(p, "branch", Main, 0, "none")
    /\ Writes(p, [proc[p] EXCEPT !.tip = NextEvent(p), !.fresh = FALSE])

TurnsOf(p) == {n \in DOMAIN log[proc[p].run] :
                  log[proc[p].run][n].kind = "turn" /\ log[proc[p].run][n].by = p}

BeginTurn(p) ==
    /\ proc[p].at = "ready" /\ ~proc[p].fresh /\ proc[p].turn = 0
    /\ p \in Workers
    /\ Cardinality(TurnsOf(p)) < MaxTurns
    /\ Appended(p, "turn", proc[p].branch, 0, "none")
    /\ Writes(p, [proc[p] EXCEPT !.tip = NextEvent(p), !.turn = NextEvent(p)])

(* record_tool_intent; one tool in a turn. *)
IntendTool(p) ==
    /\ proc[p].at = "ready" /\ proc[p].turn # 0
    /\ p \in ToolUsers
    /\ About(log[proc[p].run], Len(log[proc[p].run]), "intent", proc[p].turn) = {}
    /\ Appended(p, "intent", proc[p].branch, proc[p].turn, "none")
    /\ Writes(p, [proc[p] EXCEPT !.tip = NextEvent(p), !.op = NextEvent(p)])

(* ToolRecord.state, as the process remembers it. *)
HasStarted(p) ==
    \E n \in DOMAIN log[proc[p].run] :
        LET e == log[proc[p].run][n]
        IN  e.kind = "started" /\ e.of = proc[p].op /\ e.by = p

StartTool(p) ==
    /\ proc[p].at = "ready" /\ proc[p].op # 0
    /\ ~HasStarted(p)
    /\ Appended(p, "started", proc[p].branch, proc[p].op, "none")
    /\ Writes(p, [proc[p] EXCEPT !.tip = NextEvent(p)])

CompleteTool(p) ==
    /\ proc[p].at = "ready" /\ proc[p].op # 0
    /\ HasStarted(p)
    /\ Appended(p, "result", proc[p].branch, proc[p].op, "completed")
    /\ Writes(p, [proc[p] EXCEPT !.tip = NextEvent(p), !.op = 0])

(* finish_turn: an operation the turn leaves open is closed before it. *)
InterruptTool(p) ==
    /\ proc[p].at = "ready" /\ proc[p].op # 0
    /\ Appended(p, "result", proc[p].branch, proc[p].op, "interrupted")
    /\ Writes(p, [proc[p] EXCEPT !.at = "closing", !.tip = NextEvent(p), !.op = 0])

CloseTurn(p) ==
    /\ proc[p].at \in Open /\ proc[p].turn # 0 /\ proc[p].op = 0
    /\ Appended(p, "closed", proc[p].branch, proc[p].turn,
                IF proc[p].at = "closing" THEN "interrupted" ELSE "completed")
    /\ Writes(p, [proc[p] EXCEPT !.at = "ready", !.tip = NextEvent(p), !.turn = 0])

(* The delegation tool: the dispatch scheduler of the children appends to the  *)
(* run of the conversation, in the child's name and outside its branches.      *)
Delegate(p) ==
    /\ proc[p].at = "ready" /\ proc[p].turn # 0
    /\ p \in Delegates
    /\ \A n \in DOMAIN log[proc[p].run] : ~Foreign(log[proc[p].run], n)
    /\ Appended(p, "child", NoBranch, 0, "none")
    /\ UNCHANGED <<catalog, owners, proc>>

-----------------------------------------------------------------------------
(* The end of a process, by a crash or by its user: nothing is undone. *)
Exit(p) ==
    /\ proc[p].at \notin Ended
    /\ Moves(p, [Unopened EXCEPT !.at = "dead"])
    /\ UNCHANGED <<catalog, log, owners>>

OpenSteps(p) ==
    \/ StartFresh(p) \/ OpenBound(p) \/ Read(p) \/ Rebind(p) \/ Restore(p)
    \/ AskOwners(p) \/ Plan(p) \/ SealNext(p) \/ LoseRace(p) \/ EndSealing(p)
    \/ Recheck(p) \/ Decline(p)
    \/ Fork(p) \/ Select(p) \/ Publish(p) \/ RegisterOwner(p)

TurnSteps(p) ==
    \/ CreateRun(p) \/ DeclareBranch(p) \/ BeginTurn(p)
    \/ IntendTool(p) \/ StartTool(p) \/ CompleteTool(p)
    \/ InterruptTool(p) \/ CloseTurn(p) \/ Delegate(p)

Next == \E p \in Procs : OpenSteps(p) \/ TurnSteps(p) \/ Exit(p)

Spec == Init /\ [][Next]_vars

-----------------------------------------------------------------------------
(* Properties. *)

TypeOK ==
    /\ catalog \in [run : {NoRun} \cup Runs, branch : Nat]
    /\ \A r \in Runs : \A n \in DOMAIN log[r] : log[r][n] \in Events(Procs)
    /\ owners \in [Runs -> SUBSET Procs]
    /\ proc \in [Procs -> ProcRecord]

IsSeal(e) == e.checked >= 0

(* The turn a closing event of a recovery ends, or ends an operation of. *)
TurnSealed(l, n) == IF l[n].kind = "result" THEN l[l[n].of].of ELSE l[n].of

SealsWork(l, n) == IsSeal(l[n]) /\ l[n].kind \in {"result", "closed"}

(* A recovery closed a turn that began after it had looked at the owners.      *)
SealedUnseen(l) ==
    \E n \in DOMAIN l : SealsWork(l, n) /\ TurnSealed(l, n) > l[n].checked

(* Whatever processes open, recover and write one run together, and wherever   *)
(* each of them stops, its history stays one that restore_conversation reads.  *)
(* The exception is the race of SealedUnseen: an owner that registers after    *)
(* the owners were read may lose its turn, and then writes past it.            *)
HistoryStaysReadable ==
    \A r \in Runs :
        SealedUnseen(log[r])
            \/ \A n \in DOMAIN log[r] : Foreign(log[r], n) \/ Fits(log[r], n)

(* Work that a recoverer could see when it looked at the owners is closed by   *)
(* it only if the process that wrote it is dead.                               *)
SealsOnlyTheDead ==
    \A r \in Runs : \A n \in DOMAIN log[r] :
        SealsWork(log[r], n) /\ TurnSealed(log[r], n) <= log[r][n].checked
            => ~Alive(log[r][TurnSealed(log[r], n)].by)

(* No recovery writes that a tool was interrupted before its effect when the    *)
(* log already says that the effect had begun, be it while the recovery was    *)
(* planned or between two of its events.                                       *)
EffectsAreNotDenied ==
    \A r \in Runs : \A n \in DOMAIN log[r] :
        LET e == log[r][n]
        IN  SealsWork(log[r], n) /\ e.kind = "result" /\ e.how = "interrupted"
                => ~Crossed(log[r], n, e.of)

(* A conversation may be resumed while other editors still write to it: each   *)
(* continues on a branch no other process writes to, recoveries excepted.      *)
BranchHasOneWriter ==
    \A r \in Runs : \A m, n \in DOMAIN log[r] :
        LET e == log[r][m] f == log[r][n]
        IN  e.branch = f.branch /\ ~IsSeal(e) /\ ~IsSeal(f) => e.by = f.by

(* Wherever the writers of a run stop, a recoverer between two of its closing  *)
(* events included, the closing events a recovery would append there make a    *)
(* history that restore_conversation takes, on the branch last selected.       *)
CrashIsRecoverable ==
    \A r \in Runs :
        LET l == log[r]
        IN  Verdict(l, SelectedBranch(l)) = "unrecovered"
                => Verdict(Sealed(l), SelectedBranch(l)) = "ok"

(* Once every editor is gone, a conversation with a turn can be resumed, or    *)
(* recovered, by the next ovim --resume.                                       *)
StaysRestorable ==
    (catalog.run # NoRun /\ \A p \in Procs : ~Alive(p))
        => LET l == log[catalog.run]
           IN  (\E n \in DOMAIN l : l[n].kind = "turn")
                   => Verdict(l, catalog.branch) \in {"ok", "unrecovered"}
=============================================================================
