------------------------------ MODULE RunHistory ------------------------------
(***************************************************************************)
(* What a conversation's run log says: AgentRuntime::restore_conversation   *)
(* of ovim-core/src/agent_runtime/service.rs and RecoveryPlan::from_events  *)
(* of ovim-core/src/run_log/recovery.rs, as readings of a sequence of       *)
(* events.                                                                  *)
(*                                                                          *)
(* Identifiers are positions in the log: a turn is the position of the      *)
(* event that started it, an operation that of its intent, a forked branch  *)
(* that of its fork; the branch named at the creation of the run is 0.      *)
(***************************************************************************)
EXTENDS Integers, Sequences, FiniteSets, SequencesExt, FiniteSetsExt

Main == 0       \* initial_branch_id
NoBranch == -1  \* an envelope without branch_id

Kinds == {"created", "branch", "forked", "selected", "turn", "intent", "started",
          "result", "closed", "retired", "recovered", "child"}

Events(Writers) ==
    [kind : Kinds,       \* created stands for it and the root agent's lifecycle
     branch : Int,       \* branch_id
     cause : Nat,        \* caused_by, 0 for none
     of : Nat,           \* the turn, operation or parent branch it is about
     how : {"none", "completed", "interrupted", "unknown"},
     by : Writers,       \* the process that appended it
     checked : Int]      \* what a recoverer had read when it looked at the
                         \* owners; -1 in an event of the conversation itself

-----------------------------------------------------------------------------
(* Branches, turns and operations, as the first n events leave them. *)

Declares(e) == e.kind \in {"branch", "forked"}

Declared(l, n, b) == \E m \in 1..n : Declares(l[m]) /\ l[m].branch = b

AnyDeclared(l, n) == \E m \in 1..n : Declares(l[m])

(* BranchState.last_event, and branch_tips of a recovery plan. *)
Tip(l, n, b) == Max({0} \cup {m \in 1..n : l[m].branch = b})

About(l, n, kind, id) == {m \in 1..n : l[m].kind = kind /\ l[m].of = id}

TurnsOpen(l, n) ==
    {t \in 1..n : l[t].kind = "turn" /\ About(l, n, "closed", t) = {}}

OpsOpen(l, n) ==
    {o \in 1..n : l[o].kind = "intent" /\ About(l, n, "result", o) = {}}

Crossed(l, n, o) == About(l, n, "started", o) # {}

(* BranchLifecycle Selected, or the first branch created. *)
SelectedBranch(l) ==
    LET choices == {m \in DOMAIN l : l[m].kind \in {"branch", "selected"}}
    IN  IF choices = {} THEN Main ELSE l[Max(choices)].branch

-----------------------------------------------------------------------------
(* Which events restore_conversation takes. *)

(* An event of a declared branch extends that branch's own tip.  A fork is     *)
(* caused by the event of the parent it leaves from.                           *)
ExtendsTip(l, n) ==
    LET e == l[n]
    IN  e.kind # "forked" /\ Declared(l, n - 1, e.branch)
            => e.cause = Tip(l, n - 1, e.branch)

OnKnownBranch(l, n) ==
    \/ Declares(l[n])
    \/ Declared(l, n - 1, l[n].branch)
    \/ ~AnyDeclared(l, n - 1) /\ l[n].branch = Main

InOrder(l, n) ==
    LET e == l[n]
        is(kind) == e.kind = kind
    IN  /\ is("branch") => ~Declared(l, n - 1, e.branch)
        /\ is("forked") => /\ Declared(l, n - 1, e.of)
                           /\ ~Declared(l, n - 1, e.branch)
        /\ is("selected") => Declared(l, n - 1, e.branch)
        /\ is("intent") => e.of \in TurnsOpen(l, n - 1)
        /\ is("started") => /\ e.of \in OpsOpen(l, n - 1)
                            /\ ~Crossed(l, n - 1, e.of)
        /\ is("result") => e.of \in OpsOpen(l, n - 1)
        /\ is("closed") => /\ e.of \in TurnsOpen(l, n - 1)
                           /\ \A o \in OpsOpen(l, n - 1) : l[o].of # e.of

Fits(l, n) == ExtendsTip(l, n) /\ OnKnownBranch(l, n) /\ InOrder(l, n)

(* The root agent is 0, a child the position of the event that queued it. *)
AgentOf(l, n) == IF l[n].kind = "child" THEN n
                 ELSE IF l[n].kind = "retired" THEN l[n].of ELSE 0

(* agent_id, or the lifecycle's, is not the conversation's root_agent_id. *)
Foreign(l, n) == AgentOf(l, n) # 0

(* The result of restore_conversation for a non-empty history and a binding    *)
(* that selects branch b: the first event it refuses decides, then unfinished  *)
(* work, then the branches.                                                    *)
Verdict(l, b) ==
    LET refused == {n \in DOMAIN l : Foreign(l, n) \/ ~Fits(l, n)}
    IN  IF refused # {}
        THEN IF Foreign(l, Min(refused)) THEN "mismatch" ELSE "invalid"
        ELSE IF TurnsOpen(l, Len(l)) \cup OpsOpen(l, Len(l)) # {} THEN "unrecovered"
        ELSE IF ~AnyDeclared(l, Len(l)) THEN "invalid"
        ELSE IF SelectedBranch(l) # b THEN "mismatch"
        ELSE "ok"

-----------------------------------------------------------------------------
(* Recovery: the closing events a crashed history needs, in order. *)

Seal(kind, branch, of, how) ==
    [kind |-> kind, branch |-> branch, of |-> of, how |-> how]

(* A mistake for EffectsAreNotDenied to catch: the started events are not       *)
(* folded into the phase.                                                      *)
ToolOutcomeOfIntent(l, o) == "interrupted"

(* PendingToolPhase: an intent alone had no effect; past the effect-start      *)
(* boundary the outcome is not known.                                          *)
ToolOutcome(l, o) == IF Crossed(l, Len(l), o) THEN "unknown" ELSE "interrupted"

(* observed_sequence: copy_tool_identity moves it to the started event. *)
ObservedAt(l, o) == Max({o} \cup About(l, Len(l), "started", o))

(* The members of S, youngest last. *)
ByAge(S, age) ==
    CHOOSE s \in [1..Cardinality(S) -> S] :
        \A i, j \in 1..Cardinality(S) : i < j => age[s[i]] < age[s[j]]

ToolSeals(l) ==
    LET open == OpsOpen(l, Len(l))
        byAge == ByAge(open, [o \in open |-> ObservedAt(l, o)])
    IN  [i \in DOMAIN byAge |->
            Seal("result", l[byAge[i]].branch, byAge[i], ToolOutcome(l, byAge[i]))]

TurnSeals(l) ==
    LET open == TurnsOpen(l, Len(l))
        byAge == ByAge(open, [t \in open |-> t])
    IN  [i \in DOMAIN byAge |-> Seal("closed", l[byAge[i]].branch, byAge[i], "interrupted")]

(* An agent is active from its creation until a recovery retired it. *)
AgentSeals(l) ==
    LET active == {n \in DOMAIN l : /\ l[n].kind \in {"created", "child"}
                                    /\ About(l, Len(l), "retired", AgentOf(l, n)) = {}}
        byAge == ByAge(active, [n \in active |-> n])
    IN  [i \in DOMAIN byAge |->
            Seal("retired", l[byAge[i]].branch, AgentOf(l, byAge[i]), "interrupted")]

(* run_needs_recovery *)
RunSeals(l) ==
    LET markers == {n \in DOMAIN l : l[n].kind \in {"created", "recovered"}}
        work == ToolSeals(l) \o TurnSeals(l) \o AgentSeals(l) # <<>>
    IN  IF markers # {} /\ \/ l[Max(markers)].kind = "created"
                           \/ work /\ Len(l) > Max(markers)
        THEN <<Seal("recovered", Main, 0, "none")>>
        ELSE <<>>

(* A mistake for CrashIsRecoverable to catch: turns are closed before their     *)
(* operations.                                                                 *)
SealsTurnsFirst(l) == TurnSeals(l) \o ToolSeals(l) \o AgentSeals(l) \o RunSeals(l)

Seals(l) == ToolSeals(l) \o TurnSeals(l) \o AgentSeals(l) \o RunSeals(l)

(* append_recovery_event: a closing event extends its branch's tip, as the      *)
(* recoverer p knows it from the plan and its own events.                      *)
SealEvent(l, seal, p, checked) ==
    [kind |-> seal.kind, branch |-> seal.branch, of |-> seal.of, how |-> seal.how,
     cause |-> Tip(l, Len(l), seal.branch), by |-> p, checked |-> checked]

(* The history with every closing event it needs, as one recoverer that nobody *)
(* disturbs leaves it: the cause of each looks back on the history and on the  *)
(* closing events before it.                                                   *)
Sealed(l) ==
    LET planned == l \o Seals(l)
    IN  [n \in DOMAIN planned |->
            IF n <= Len(l) THEN l[n]
            ELSE SealEvent(SubSeq(planned, 1, n - 1), planned[n], l[1].by, Len(l))]
=============================================================================
