---------------------------- MODULE AgentLoopProofs ----------------------------
(***************************************************************************)
(* Theorems about AgentLoop, for any number of children, any budgets and     *)
(* either table of transitions.  The argument is about one loop record and   *)
(* the operations of its child, as data (Good): every step of the loop, of   *)
(* the user or of the broker rewrites at most one operation or appends one,  *)
(* so the lemmas take the steps by that effect and not one by one.           *)
(***************************************************************************)
EXTENDS AgentLoop, SequenceTheorems, TLAPS

(* Where the loop is busy with its last operation. *)
Serving == {"observing", "intended", "asking", "waiting", "approved", "executing", "recording"}

(* Loops that may have left something open. *)
Abandoned == {"failed", "gone"}

(* An operation is ruled once, by whoever resolved it. *)
Decided(op) ==
    /\ op.rulings = IF op.ask \in {"allowed", "denied"} THEN 1 ELSE 0
    /\ op.ask = "allowed" => op.source = "user"
    /\ op.tool = "gated" /\ op.started => op.ask = "allowed"

(* What the loop at a place knows of the operation it serves. *)
Stage(at, op) ==
    /\ at = "observing" => op.tool = "observed"
    /\ at = "intended" => op.tool # "observed" /\ op.ask = "none" /\ ~op.started
    /\ at = "asking" => op.tool = "gated" /\ op.ask = "none" /\ ~op.started
    /\ at = "waiting" => op.tool = "gated" /\ op.ask # "none" /\ ~op.started
    /\ at = "approved" => op.tool \in {"plain", "gated"} /\ (op.tool = "gated" => op.ask = "allowed")

(* Every operation that the loop could still leave open is known to it. *)
Known(l, s) ==
    \A o \in 1..Len(s) :
        ~s[o].closed => \/ l.at \in Abandoned
                        \/ o \in l.observed
                        \/ l.at \in Serving /\ o = Len(s)

Good(l, s) ==
    /\ l \in LoopRecord
    /\ s \in Seq(Operation)
    /\ Len(s) <= l.events /\ l.events <= MaxProviderEvents
    /\ l.observed \subseteq 1..Len(s)
    /\ l.at \in Serving => Len(s) > 0 /\ Stage(l.at, s[Len(s)])
    /\ l.at \in {"repairing", "ended"} => l.observed = {}
    /\ \A o \in 1..Len(s) : Decided(s[o])
    /\ Known(l, s)

IInv ==
    /\ loop \in [Children -> LoopRecord] /\ DOMAIN ops = Children
    /\ \A c \in Children : Good(loop[c], ops[c])
    /\ root \in [events : 0..RootEvents, calls : 0..RootToolCalls]
    /\ cancelled \subseteq Children /\ expired \subseteq Children
    /\ faults \in 0..MaxFaults
    /\ phase \in {"up", "down", "reopened"}
    /\ phase # "up" => \A c \in Children : loop[c].at \in Done
    /\ PendingIsAwaited

-----------------------------------------------------------------------------
(* Helpers. *)

LEMMA Fields ==
  ASSUME NEW l \in LoopRecord
  PROVE  /\ l.at \in Places /\ l.state \in States /\ l.events \in Nat /\ l.calls \in Nat
         /\ l.observed \in SUBSET (1..MaxProviderEvents) /\ l.repaired \in BOOLEAN
         /\ l.ending \in {"none"} \cup Endings
  BY DEF LoopRecord

(* A loop record whose fields are changed within their types is one. *)
LEMMA Record ==
  ASSUME NEW l \in LoopRecord, NEW at \in Places, NEW state \in States, NEW events \in Nat,
         NEW calls \in Nat, NEW observed \in SUBSET (1..MaxProviderEvents)
  PROVE  LET x == [l EXCEPT !.at = at, !.state = state, !.events = events, !.calls = calls,
                            !.observed = observed]
         IN  /\ x \in LoopRecord
             /\ x.at = at /\ x.state = state /\ x.events = events /\ x.calls = calls
             /\ x.observed = observed /\ x.repaired = l.repaired /\ x.ending = l.ending
  BY DEF LoopRecord

(* A step that leaves the operations alone. *)
LEMMA KeepsOps ==
  ASSUME NEW l, NEW s, Good(l, s), NEW x \in LoopRecord,
         l.events <= x.events, x.events <= MaxProviderEvents, x.observed = l.observed,
         x.at \in Serving => l.at \in Serving /\ Stage(x.at, s[Len(s)]),
         l.at \in Serving => x.at \in Serving \cup Abandoned,
         l.at \in Abandoned => x.at \in Abandoned,
         x.at \in {"repairing", "ended"} => x.observed = {}
  PROVE  Good(x, s)
<1>1. l.events \in Nat /\ x.events \in Nat /\ Len(s) \in Nat
  BY Fields DEF Good
<1>2. Known(x, s)
  BY DEF Good, Known
<1>3. Len(s) <= x.events
  BY <1>1 DEF Good
<1>4. QED
  BY <1>2, <1>3 DEF Good

(* A step that rewrites operation o. *)
LEMMA RewritesOne ==
  ASSUME NEW l, NEW s, Good(l, s), NEW x \in LoopRecord,
         l.events <= x.events, x.events <= MaxProviderEvents,
         NEW o \in 1..Len(s), NEW op \in Operation, Decided(op),
         x.observed \subseteq l.observed \cup {o}, l.observed \subseteq x.observed \cup {o},
         \/ op.closed
         \/ x.at \in Abandoned
         \/ o \in x.observed
         \/ x.at \in Serving /\ o = Len(s),
         x.at \in Serving =>
            l.at \in Serving /\ Stage(x.at, IF o = Len(s) THEN op ELSE s[Len(s)]),
         l.at \in Serving => x.at \in Serving \cup Abandoned \/ o = Len(s),
         l.at \in Abandoned => x.at \in Abandoned,
         x.at \in {"repairing", "ended"} => x.observed = {}
  PROVE  Good(x, [s EXCEPT ![o] = op])
<1> DEFINE t == [s EXCEPT ![o] = op]
<1>1. l.events \in Nat /\ x.events \in Nat /\ Len(s) \in Nat /\ s \in Seq(Operation)
  BY Fields DEF Good
<1>2. t \in Seq(Operation) /\ Len(t) = Len(s)
      /\ \A i \in 1..Len(s) : t[i] = IF i = o THEN op ELSE s[i]
  BY <1>1, ExceptSeq
<1> HIDE DEF t
<1>3. Known(x, t)
  BY <1>2 DEF Good, Known
<1>4. Len(t) <= x.events
  BY <1>1, <1>2 DEF Good
<1>5. x.at \in Serving => Len(t) > 0 /\ Stage(x.at, t[Len(t)])
  <2> SUFFICES ASSUME x.at \in Serving PROVE Len(t) > 0 /\ Stage(x.at, t[Len(t)])
    OBVIOUS
  <2>1. Len(s) > 0 /\ Len(s) \in 1..Len(s)
    BY <1>1 DEF Good
  <2>2. QED
    BY <1>2, <2>1
<1>6. \A i \in 1..Len(t) : Decided(t[i])
  BY <1>2 DEF Good
<1>7. x.observed \subseteq 1..Len(t)
  BY <1>2 DEF Good
<1>8. QED
  BY <1>2, <1>3, <1>4, <1>5, <1>6, <1>7 DEF Good, t

(* A step that appends the intent of a tool. *)
LEMMA AppendsOne ==
  ASSUME NEW l, NEW s, Good(l, s), l.at = "polling", NEW x \in LoopRecord,
         x.events = l.events + 1, x.events <= MaxProviderEvents, x.observed = l.observed,
         NEW tool \in Tools, x.at = IF tool = "observed" THEN "observing" ELSE "intended"
  PROVE  Good(x, Append(s, Intent(tool)))
<1> DEFINE t == Append(s, Intent(tool))
<1>1. l.events \in Nat /\ Len(s) \in Nat /\ s \in Seq(Operation) /\ Len(s) <= l.events
  BY Fields DEF Good
<1>2. Intent(tool) \in Operation /\ Decided(Intent(tool)) /\ Stage(x.at, Intent(tool))
  BY DEF Intent, Operation, Decided, Stage, Sources
<1>3. t \in Seq(Operation) /\ Len(t) = Len(s) + 1 /\ t[Len(s) + 1] = Intent(tool)
      /\ \A i \in 1..Len(s) : t[i] = s[i]
  BY <1>1, <1>2, AppendProperties
<1>4. 1..Len(t) = 1..Len(s) \cup {Len(t)}
  BY <1>1, <1>3
<1>5. x.at \in Serving /\ l.at \notin Serving \cup Abandoned
  BY DEF Serving, Abandoned
<1> HIDE DEF t
<1>6. Known(x, t)
  BY <1>3, <1>4, <1>5 DEF Good, Known
<1>7. \A i \in 1..Len(t) : Decided(t[i])
  BY <1>2, <1>3, <1>4 DEF Good
<1>8. x.observed \subseteq 1..Len(t)
  BY <1>4 DEF Good
<1>9. Len(t) <= x.events /\ Len(t) > 0
  BY <1>1, <1>3
<1>10. x.at \notin {"repairing", "ended"}
  OBVIOUS
<1>11. QED
  BY <1>2, <1>3, <1>6, <1>7, <1>8, <1>9, <1>10 DEF Good, t

-----------------------------------------------------------------------------
(* The steps of one loop. *)

(* What the invariant says of one child. *)
LEMMA Child ==
  ASSUME IInv, NEW c \in Children
  PROVE  /\ Good(loop[c], ops[c]) /\ loop[c] \in LoopRecord /\ ops[c] \in Seq(Operation)
         /\ loop[c].events \in Nat /\ loop[c].events <= MaxProviderEvents
         /\ loop[c].calls \in Nat
         /\ Len(ops[c]) \in Nat /\ DOMAIN ops[c] = 1..Len(ops[c])
         /\ \A to : Moves(c, to) => loop'[c] = to
         /\ UNCHANGED ops => ops'[c] = ops[c]
<1>1. Good(loop[c], ops[c]) /\ c \in DOMAIN loop /\ c \in DOMAIN ops
  BY DEF IInv
<1>2. loop[c] \in LoopRecord /\ ops[c] \in Seq(Operation) /\ loop[c].events <= MaxProviderEvents
  BY <1>1 DEF Good
<1>3. loop[c].events \in Nat /\ loop[c].calls \in Nat
  BY <1>2, Fields
<1>4. Len(ops[c]) \in Nat /\ DOMAIN ops[c] = 1..Len(ops[c])
  BY <1>2
<1>5. \A to : Moves(c, to) => loop'[c] = to
  BY <1>1 DEF Moves
<1>6. QED
  BY <1>1, <1>2, <1>3, <1>4, <1>5

LEMMA ChangedOps ==
  ASSUME IInv, NEW c \in Children, NEW o, NEW op, Changes(c, o, op)
  PROVE  ops'[c] = [ops[c] EXCEPT ![o] = op]
  BY DEF IInv, Changes

(* Moving to a place that serves no operation. *)
LEMMA GoesOn ==
  ASSUME IInv, NEW c \in Children, UNCHANGED ops, loop'[c] \in LoopRecord,
         loop'[c].observed = loop[c].observed,
         \/ loop'[c].events = loop[c].events
         \/ loop'[c].events = loop[c].events + 1 /\ loop[c].events < MaxProviderEvents,
         \/ loop'[c].at = "failed"
         \/ loop'[c].at \notin Serving /\ loop[c].at \notin Serving \cup Abandoned,
         loop'[c].at \in {"repairing", "ended"} => loop[c].observed = {}
  PROVE  Good(loop'[c], ops'[c])
<1>1. /\ Good(loop[c], ops[c]) /\ loop[c].events \in Nat /\ loop[c].events <= MaxProviderEvents
      /\ MaxProviderEvents \in Nat
  BY Child, LoopAssumption
<1>2. loop[c].events <= loop'[c].events /\ loop'[c].events <= MaxProviderEvents
  BY <1>1
<1>3. "failed" \in Abandoned /\ "failed" \notin Serving
  BY DEF Abandoned, Serving
<1>4. QED
  BY <1>1, <1>2, <1>3, KeepsOps

LEMMA ProviderGood ==
  ASSUME IInv, NEW c \in Children, Provider(c)
  PROVE  Good(loop'[c], ops'[c])
<1> DEFINE l == loop[c]
<1>1. /\ Good(l, ops[c]) /\ l \in LoopRecord /\ l.events \in Nat /\ l.calls \in Nat
      /\ MaxProviderEvents \in Nat
      /\ \A to : Moves(c, to) => loop'[c] = to
  BY Child, LoopAssumption
<1>2. ASSUME Receives(c)
      PROVE  l.at = "polling" /\ l.events < MaxProviderEvents /\ l.events + 1 <= MaxProviderEvents
  BY <1>1, <1>2 DEF Receives, EventsLeft
<1>3. /\ Counted(c) \in LoopRecord /\ Counted(c).events = l.events + 1
      /\ Counted(c).observed = l.observed /\ Counted(c).at = l.at
      /\ Counted(c).calls + 1 \in Nat
  <2>1. /\ Counted(c) \in LoopRecord /\ Counted(c).events = l.events + 1
        /\ Counted(c).observed = l.observed /\ Counted(c).at = l.at
        /\ Counted(c).calls = l.calls
    BY <1>1 DEF Counted, LoopRecord
  <2>2. QED
    BY <1>1, <2>1
<1>4. CASE Start(c)
  <2>1. /\ loop'[c] \in LoopRecord /\ loop'[c].observed = l.observed /\ loop'[c].events = l.events
        /\ loop'[c].at \in {"polling", "failed"} /\ l.at = "starting" /\ UNCHANGED ops
    BY ZenonT(40), <1>1, <1>4 DEF Start, Fails, Goes, LoopRecord, Places, Done, States, Executing
  <2>2. QED
    BY <2>1, GoesOn DEF Serving, Abandoned
<1>5. CASE Repair(c)
  <2>1. /\ loop'[c] \in LoopRecord /\ loop'[c].observed = l.observed /\ loop'[c].events = l.events
        /\ loop'[c].at \in {"polling", "ended"} /\ l.at = "repairing" /\ UNCHANGED ops
    BY ZenonT(40), <1>1, <1>5 DEF Repair, LoopRecord, Places, Done, Endings, HandoffStatuses
  <2>2. l.observed = {}
    BY <1>1, <2>1 DEF Good
  <2>3. QED
    BY <2>1, <2>2, GoesOn DEF Serving, Abandoned
<1>6. CASE Submit(c)
  <2>1. /\ loop'[c] \in LoopRecord /\ loop'[c].observed = l.observed /\ loop'[c].events = l.events
        /\ loop'[c].at \in {"polling", "failed"} /\ l.at = "submitting" /\ UNCHANGED ops
    BY <1>1, <1>6 DEF Submit, Fails, Goes, LoopRecord, Places, Done
  <2>2. QED
    BY <2>1, GoesOn DEF Serving, Abandoned
<1>7. CASE ToolAnswers(c)
  <2>1. /\ loop'[c] \in LoopRecord /\ loop'[c].observed = l.observed /\ loop'[c].events = l.events
        /\ loop'[c].at = "recording" /\ l.at = "executing" /\ UNCHANGED ops
    BY <1>1, <1>7 DEF ToolAnswers, Goes, LoopRecord, Places
  <2>2. QED
    BY <1>1, <2>1, KeepsOps DEF Serving, Abandoned, Stage, Good
<1>8. CASE OutOfEvents(c)
  <2>1. /\ loop'[c] \in LoopRecord /\ loop'[c].observed = l.observed /\ loop'[c].events = l.events
        /\ loop'[c].at = "closing" /\ l.at = "polling" /\ UNCHANGED ops
    BY ZenonT(40), <1>1, <1>8 DEF OutOfEvents, Closing, LoopRecord, Places, Endings, HandoffStatuses
  <2>2. QED
    BY <2>1, GoesOn DEF Serving, Abandoned
<1>9. CASE Chatter(c)
  <2>1. loop'[c] = Counted(c) /\ UNCHANGED ops
    BY <1>1, <1>9 DEF Chatter
  <2>2. QED
    BY <1>2, <1>3, <1>9, <2>1, GoesOn DEF Chatter, Serving, Abandoned
<1>10. CASE ToolRequest(c)
  <2>1. CASE CallsLeft(c)
    <3>1. PICK tool \in Requestable :
             /\ ops' = [ops EXCEPT ![c] = Append(@, Intent(tool))]
             /\ Moves(c, [Counted(c) EXCEPT !.at = "intended", !.calls = Counted(c).calls + 1])
      BY <1>10, <2>1 DEF ToolRequest
    <3>2. /\ loop'[c] \in LoopRecord /\ loop'[c].observed = l.observed
          /\ loop'[c].events = l.events + 1 /\ loop'[c].at = "intended"
      <4>1. loop'[c] = [Counted(c) EXCEPT !.at = "intended", !.calls = Counted(c).calls + 1]
        BY <1>1, <3>1
      <4>2. QED
        BY <1>3, <4>1 DEF LoopRecord, Places
    <3>3. ops'[c] = Append(ops[c], Intent(tool)) /\ tool \in Tools /\ tool # "observed"
      BY <3>1 DEF IInv, Requestable
    <3>4. QED
      BY <1>1, <1>2, <1>10, <3>2, <3>3, AppendsOne DEF ToolRequest
  <2>2. CASE ~CallsLeft(c)
    <3>1. loop'[c] = [Counted(c) EXCEPT !.at = "submitting"] /\ UNCHANGED ops
      BY <1>1, <1>10, <2>2 DEF ToolRequest
    <3>2. /\ loop'[c] \in LoopRecord /\ loop'[c].observed = l.observed
          /\ loop'[c].events = l.events + 1 /\ loop'[c].at = "submitting"
      BY <1>3, <3>1 DEF LoopRecord, Places
    <3>3. QED
      BY <1>2, <1>10, <3>1, <3>2, GoesOn DEF ToolRequest, Serving, Abandoned
  <2>3. QED
    BY <2>1, <2>2
<1>11. CASE ToolObservedStarted(c)
  <2>1. /\ ops'[c] = Append(ops[c], Intent("observed"))
        /\ loop'[c] = [Counted(c) EXCEPT !.at = "observing", !.calls = Counted(c).calls + 1]
    BY <1>1, <1>11 DEF ToolObservedStarted, IInv
  <2>2. /\ loop'[c] \in LoopRecord /\ loop'[c].observed = l.observed
        /\ loop'[c].events = l.events + 1 /\ loop'[c].at = "observing"
    BY ZenonT(40), <1>3, <2>1 DEF LoopRecord, Places
  <2>3. l.at = "polling" /\ l.events + 1 <= MaxProviderEvents /\ "observed" \in Tools
    BY <1>2, <1>11 DEF ToolObservedStarted, Tools
  <2>4. loop'[c].at = IF "observed" = "observed" THEN "observing" ELSE "intended"
    BY <2>2
  <2>5. Good(l, ops[c]) /\ loop'[c].events <= MaxProviderEvents
    BY <1>1, <2>2, <2>3
  <2>6. Good(loop'[c], Append(ops[c], Intent("observed")))
    BY <2>2, <2>3, <2>4, <2>5, AppendsOne
  <2>7. QED
    BY <2>1, <2>6
<1>12. CASE ToolObservedFailed(c)
  <2>1. l.at = "polling" /\ l.events < MaxProviderEvents
    BY <1>2, <1>12 DEF ToolObservedFailed
  <2>2. CASE Moves(c, [Counted(c) EXCEPT !.at = "failed"]) /\ UNCHANGED ops
    <3>1. /\ loop'[c] \in LoopRecord /\ loop'[c].observed = l.observed
          /\ loop'[c].events = l.events + 1 /\ loop'[c].at = "failed"
      BY <1>1, <1>3, <2>2 DEF LoopRecord, Places, Done
    <3>2. QED
      BY <2>1, <2>2, <3>1, GoesOn
  <2>3. ASSUME NEW o \in l.observed,
               Changes(c, o, [ops[c][o] EXCEPT !.closed = TRUE]),
               \/ Moves(c, [Counted(c) EXCEPT !.observed = Counted(c).observed \ {o}, !.state = "Running"])
               \/ Moves(c, [Counted(c) EXCEPT !.observed = Counted(c).observed \ {o}, !.at = "failed"])
        PROVE  Good(loop'[c], ops'[c])
    <3> DEFINE op == [ops[c][o] EXCEPT !.closed = TRUE]
    <3>1. /\ loop'[c] \in LoopRecord /\ loop'[c].observed = l.observed \ {o}
          /\ loop'[c].events = l.events + 1 /\ loop'[c].at \in {"polling", "failed"}
      <4>1. \/ loop'[c] = [Counted(c) EXCEPT !.observed = Counted(c).observed \ {o}, !.state = "Running"]
            \/ loop'[c] = [Counted(c) EXCEPT !.observed = Counted(c).observed \ {o}, !.at = "failed"]
        BY <1>1, <2>3
      <4>2. Counted(c).observed \ {o} \in SUBSET (1..MaxProviderEvents)
        BY <1>3, Fields
      <4>3. QED
        BY <1>3, <2>1, <4>1, <4>2 DEF LoopRecord, Places, Done, States, Executing
    <3>2. o \in 1..Len(ops[c]) /\ ops[c][o] \in Operation /\ Decided(ops[c][o])
      BY <1>1, ElementOfSeq DEF Good
    <3>3. op \in Operation /\ Decided(op) /\ op.closed
      BY <3>2 DEF Operation, Decided
    <3>changes. Changes(c, o, op)
      BY <2>3
    <3> HIDE DEF op
    <3>4. ops'[c] = [ops[c] EXCEPT ![o] = op]
      BY <3>changes, ChangedOps
    <3>5. l.events <= loop'[c].events /\ loop'[c].events <= MaxProviderEvents
      BY <1>1, <2>1, <3>1
    <3>6. /\ l.at \notin Serving \cup Abandoned
          /\ loop'[c].at \notin Serving /\ loop'[c].at \notin {"repairing", "ended"}
      BY <2>1, <3>1 DEF Serving, Abandoned
    <3>7. loop'[c].observed \subseteq l.observed \cup {o} /\ l.observed \subseteq loop'[c].observed \cup {o}
      BY <3>1
    <3>8. QED
      BY SMTT(30), <1>1, <3>1, <3>2, <3>3, <3>4, <3>5, <3>6, <3>7, RewritesOne
  <2>4. QED
    BY ZenonT(40), <1>12, <2>2, <2>3 DEF ToolObservedFailed
<1>13. CASE LastWord(c)
  <2>1. PICK ending \in Endings : Moves(c, Closing(c, ending, Counted(c)))
    BY <1>13 DEF LastWord
  <2>2. /\ loop'[c] \in LoopRecord /\ loop'[c].observed = l.observed
        /\ loop'[c].events = l.events + 1 /\ loop'[c].at = "closing"
    BY <1>1, <1>3, <2>1 DEF Closing, LoopRecord, Places
  <2>3. QED
    BY <1>2, <1>13, <2>2, GoesOn DEF LastWord, Serving, Abandoned
<1>14. QED
  BY <1>4, <1>5, <1>6, <1>7, <1>8, <1>9, <1>10, <1>11, <1>12, <1>13 DEF Provider

(* The operation being served, and what a rewrite of it has to show. *)
LEMMA Serves ==
  ASSUME IInv, NEW c \in Children, loop[c].at \in Serving
  PROVE  /\ Current(c) = Len(ops[c]) /\ Current(c) \in 1..Len(ops[c])
         /\ ops[c][Current(c)] \in Operation /\ Decided(ops[c][Current(c)])
         /\ Stage(loop[c].at, ops[c][Current(c)])
<1>1. Good(loop[c], ops[c]) /\ Len(ops[c]) \in Nat
  BY Child
<1>2. Current(c) = Len(ops[c]) /\ Current(c) \in 1..Len(ops[c])
  BY <1>1 DEF Good, Current
<1>3. QED
  BY <1>1, <1>2, ElementOfSeq DEF Good

LEMMA ServesOn ==
  ASSUME IInv, NEW c \in Children, loop[c].at \in Serving, loop'[c] \in LoopRecord,
         loop'[c].events = loop[c].events,
         NEW op \in Operation, Decided(op), Changes(c, Current(c), op),
         \/ loop'[c].observed = loop[c].observed
         \/ loop'[c].observed = loop[c].observed \cup {Current(c)},
         \/ loop'[c].at = "failed"
         \/ loop'[c].at \in Serving /\ Stage(loop'[c].at, op)
         \/ loop'[c].at = "submitting" /\ op.closed
         \/ loop'[c].at = "polling" /\ Current(c) \in loop'[c].observed
  PROVE  Good(loop'[c], ops'[c])
<1> DEFINE l == loop[c]
           x == loop'[c]
           o == Current(c)
<1>1. /\ Good(l, ops[c]) /\ l.events <= x.events /\ x.events <= MaxProviderEvents
  BY Child
<1>2. o = Len(ops[c]) /\ o \in 1..Len(ops[c])
  BY Serves
<1>3. /\ x.at \notin {"repairing", "ended"} /\ l.at \notin Abandoned /\ "failed" \in Abandoned
      /\ "failed" \notin Serving /\ "submitting" \notin Serving /\ "polling" \notin Serving
  BY DEF Serving, Abandoned
<1>4. x.observed \subseteq l.observed \cup {o} /\ l.observed \subseteq x.observed \cup {o}
  OBVIOUS
<1> HIDE DEF l, x, o
<1>5. ops'[c] = [ops[c] EXCEPT ![o] = op]
  BY ChangedOps DEF o
<1>6. Good(x, [ops[c] EXCEPT ![o] = op])
  BY <1>1, <1>2, <1>3, <1>4, RewritesOne DEF l, x, o
<1>7. QED
  BY <1>5, <1>6 DEF x

(* A ruling of the broker decides a request and lets a decision stand. *)
LEMMA RulingType ==
  ASSUME NEW op \in Operation, Decided(op),
         NEW source \in Sources
  PROVE  LET ruled == SystemRuling(op, source)
         IN  /\ ruled \in Operation /\ Decided(ruled)
             /\ ruled.tool = op.tool /\ ruled.closed = op.closed /\ ruled.started = op.started
             /\ ruled.ask # "requested"
             /\ ruled.ask = "allowed" <=> op.ask = "allowed"
             /\ ruled.ask = "none" <=> op.ask = "none"
<1>1. CASE op.ask # "requested"
  BY <1>1 DEF SystemRuling
<1>2. CASE op.ask = "requested"
  <2>1. op.rulings = 0 /\ 0 + 1 = 1 /\ 1 \in 0..2 /\ ~(op.tool = "gated" /\ op.started)
    BY <1>2 DEF Decided
  <2>2. SystemRuling(op, source) =
           [op EXCEPT !.ask = "denied", !.source = source, !.rulings = 1]
    BY <1>2, <2>1 DEF SystemRuling, Ruled, Operation
  <2> DEFINE ruled == [op EXCEPT !.ask = "denied", !.source = source, !.rulings = 1]
  <2>3. /\ ruled.tool = op.tool /\ ruled.closed = op.closed /\ ruled.started = op.started
        /\ ruled.ask = "denied" /\ ruled.rulings = 1
    BY DEF Operation
  <2>4. ruled \in Operation
    BY <2>1 DEF Operation
  <2> HIDE DEF ruled
  <2>5. Decided(ruled)
    BY <2>1, <2>3 DEF Decided
  <2>6. QED
    BY <1>2, <2>2, <2>3, <2>4, <2>5 DEF ruled
<1>3. QED
  BY <1>1, <1>2

LEMMA WorksGood ==
  ASSUME IInv, NEW c \in Children, Works(c)
  PROVE  Good(loop'[c], ops'[c])
<1> DEFINE l == loop[c]
           o == Current(c)
           op == ops[c][o]
<1>1. /\ Good(l, ops[c]) /\ l \in LoopRecord /\ l.events \in Nat
      /\ \A to : Moves(c, to) => loop'[c] = to
  BY Child
<1>2. ASSUME l.at \in Serving
      PROVE  /\ o = Len(ops[c]) /\ o \in 1..Len(ops[c]) /\ op \in Operation /\ Decided(op)
             /\ Stage(l.at, op)
  BY <1>2, Serves
<1>3. ASSUME Fails(c)
      PROVE  /\ loop'[c] \in LoopRecord /\ loop'[c].observed = l.observed
             /\ loop'[c].events = l.events /\ loop'[c].at = "failed"
  BY <1>1, <1>3 DEF Fails, Goes, LoopRecord, Places, Done
<1>4. ASSUME Fails(c), UNCHANGED ops PROVE Good(loop'[c], ops'[c])
  BY <1>3, <1>4, GoesOn
<1>5. CASE CloseOne(c)
  <2>1. PICK i \in l.observed :
           /\ Changes(c, i, [ops[c][i] EXCEPT !.closed = TRUE])
           /\ Moves(c, [l EXCEPT !.observed = l.observed \ {i}])
    BY <1>5 DEF CloseOne
  <2> DEFINE x == [ops[c][i] EXCEPT !.closed = TRUE]
  <2>2. loop'[c] = [l EXCEPT !.observed = l.observed \ {i}]
    BY <1>1, <2>1
  <2>3. l.observed \ {i} \in SUBSET (1..MaxProviderEvents) /\ l.at = "closing"
    BY <1>1, <1>5, Fields DEF CloseOne
  <2>4. /\ loop'[c] \in LoopRecord /\ loop'[c].observed = l.observed \ {i}
        /\ loop'[c].events = l.events /\ loop'[c].at = "closing"
    BY <1>1, <2>2, <2>3 DEF LoopRecord
  <2>5. i \in 1..Len(ops[c]) /\ ops[c][i] \in Operation /\ Decided(ops[c][i])
    BY <1>1, ElementOfSeq DEF Good
  <2>6. x \in Operation /\ Decided(x) /\ x.closed
    BY <2>5 DEF Operation, Decided
  <2>changes. Changes(c, i, x)
    BY <2>1
  <2> HIDE DEF x
  <2>7. ops'[c] = [ops[c] EXCEPT ![i] = x]
    BY <2>changes, ChangedOps
  <2>8. l.events <= loop'[c].events /\ loop'[c].events <= MaxProviderEvents
    BY <1>1, <2>4 DEF Good
  <2>9. /\ l.at \notin Serving \cup Abandoned
        /\ loop'[c].at \notin Serving /\ loop'[c].at \notin {"repairing", "ended"}
    BY <2>3, <2>4 DEF Serving, Abandoned
  <2>10. loop'[c].observed \subseteq l.observed \cup {i} /\ l.observed \subseteq loop'[c].observed \cup {i}
    BY <2>4
  <2>11. QED
    BY <1>1, <2>4, <2>5, <2>6, <2>7, <2>8, <2>9, <2>10, RewritesOne
<1>6. CASE End(c)
  <2>1. /\ loop'[c] \in LoopRecord /\ loop'[c].observed = l.observed /\ loop'[c].events = l.events
        /\ loop'[c].at \in {"repairing", "ended"} /\ l.at = "closing" /\ l.observed = {} /\ UNCHANGED ops
    BY <1>1, <1>6 DEF End, Goes, LoopRecord, Places, Done
  <2>2. QED
    BY <2>1, GoesOn DEF Serving, Abandoned
<1>7. CASE Interrupt(c)
  <2>1. /\ loop'[c] \in LoopRecord /\ loop'[c].observed = l.observed /\ loop'[c].events = l.events
        /\ loop'[c].at = "closing" /\ l.at = "polling" /\ UNCHANGED ops
    BY ZenonT(40), <1>1, <1>7 DEF Interrupt, Closing, LoopRecord, Places, Endings, HandoffStatuses
  <2>2. QED
    BY <2>1, GoesOn DEF Serving, Abandoned
<1>8. CASE Observe(c)
  <2>1. l.at = "observing" /\ l.at \in Serving
    BY <1>8 DEF Observe, Serving
  <2>2. CASE Accepts(l.state, "WaitingForTool")
    <3> DEFINE x == [op EXCEPT !.started = TRUE]
    <3>1. loop'[c] = [l EXCEPT !.at = "polling", !.state = "WaitingForTool",
                              !.observed = l.observed \cup {o}] /\ Changes(c, o, x)
      BY <1>1, <1>8, <2>2 DEF Observe
    <3>2. l.observed \cup {o} \in SUBSET (1..MaxProviderEvents)
      <4>1. Len(ops[c]) \in Nat /\ Len(ops[c]) <= MaxProviderEvents
        BY <1>1, Child, LoopAssumption DEF Good
      <4>2. o \in 1..MaxProviderEvents
        BY <1>2, <2>1, <4>1, LoopAssumption
      <4>3. QED
        BY <1>1, <4>2, Fields
    <3>3. /\ loop'[c] \in LoopRecord /\ loop'[c].observed = l.observed \cup {o}
          /\ loop'[c].events = l.events /\ loop'[c].at = "polling"
      BY <1>1, <3>1, <3>2 DEF LoopRecord, Places, States, Executing, Waiting
    <3>4. x \in Operation /\ Decided(x)
      BY <1>2, <2>1 DEF Operation, Decided, Stage
    <3> HIDE DEF x
    <3>5. QED
      BY <2>1, <3>1, <3>3, <3>4, ServesOn
  <2>3. QED
    BY <1>4, <1>8, <2>2 DEF Observe
<1>9. CASE EnterTool(c)
  <2>1. l.at = "intended" /\ l.at \in Serving /\ UNCHANGED ops
    BY <1>9 DEF EnterTool, Serving
  <2>2. op \in Operation /\ op.tool # "observed" /\ op.ask = "none" /\ ~op.started
    BY <1>2, <2>1 DEF Stage
  <2>3. CASE Accepts(l.state, "WaitingForTool")
    <3> DEFINE place == CASE op.tool = "refused" -> "recording"
                         [] op.tool = "plain" -> "approved"
                         [] op.tool = "gated" -> "asking"
    <3>1. loop'[c] = [l EXCEPT !.state = "WaitingForTool", !.at = place]
      BY <1>1, <1>9, <2>3 DEF EnterTool
    <3>2. /\ place \in {"recording", "approved", "asking"}
          /\ place = "asking" => op.tool = "gated"
          /\ place = "approved" => op.tool = "plain"
      BY <2>2 DEF Operation, Tools
    <3> HIDE DEF place
    <3>3. /\ loop'[c] \in LoopRecord /\ loop'[c].observed = l.observed
          /\ loop'[c].events = l.events /\ loop'[c].at = place
      BY <1>1, <3>1, <3>2 DEF LoopRecord, Places, States, Executing, Waiting
    <3>4. place \in Serving /\ Stage(place, op)
      BY <2>2, <3>2 DEF Serving, Stage
    <3>5. place \notin {"repairing", "ended"} /\ l.at \notin Abandoned
      BY <2>1, <3>2 DEF Abandoned
    <3>6. l.events <= loop'[c].events /\ loop'[c].events <= MaxProviderEvents
      BY <1>1, <3>3 DEF Good
    <3>7. QED
      BY <1>1, <1>2, <2>1, <3>3, <3>4, <3>5, <3>6, KeepsOps
  <2>4. QED
    BY <1>4, <1>9, <2>1, <2>3 DEF EnterTool
<1>10. CASE Ask(c)
  <2> DEFINE requested == [op EXCEPT !.ask = "requested"]
  <2>1. l.at = "asking" /\ l.at \in Serving
    BY <1>10 DEF Ask, Serving
  <2>2. op \in Operation /\ op.tool = "gated" /\ op.ask = "none" /\ ~op.started /\ Decided(op)
    BY <1>2, <2>1 DEF Stage
  <2>3. /\ requested \in Operation /\ Decided(requested) /\ requested.ask = "requested"
        /\ requested.tool = "gated" /\ ~requested.started
    BY <2>2 DEF Operation, Decided
  <2>4. \/ Fails(c) /\ UNCHANGED ops
        \/ /\ Changes(c, o, requested)
           /\ Moves(c, [loop[c] EXCEPT !.at = "waiting", !.state = "WaitingForUser"])
        \/ /\ \E source \in Sources : Changes(c, o, SystemRuling(requested, source))
           /\ Moves(c, [loop[c] EXCEPT !.at = "recording", !.state = "WaitingForUser"])
    BY <1>10 DEF Ask, Sources
  <2> HIDE DEF requested
  <2>5. CASE Changes(c, o, requested)
             /\ Moves(c, [loop[c] EXCEPT !.at = "waiting", !.state = "WaitingForUser"])
    <3>1. /\ loop'[c] \in LoopRecord /\ loop'[c].observed = l.observed
          /\ loop'[c].events = l.events /\ loop'[c].at = "waiting"
      BY <1>1, <2>5 DEF LoopRecord, Places, States, Executing, Waiting
    <3>2. Stage("waiting", requested) /\ "waiting" \in Serving
      BY <2>3 DEF Stage, Serving
    <3>3. QED
      BY <2>1, <2>3, <2>5, <3>1, <3>2, ServesOn
  <2>6. ASSUME NEW source \in Sources, Changes(c, o, SystemRuling(requested, source)),
               Moves(c, [loop[c] EXCEPT !.at = "recording", !.state = "WaitingForUser"])
        PROVE  Good(loop'[c], ops'[c])
    <3>1. /\ loop'[c] \in LoopRecord /\ loop'[c].observed = l.observed
          /\ loop'[c].events = l.events /\ loop'[c].at = "recording"
      BY <1>1, <2>6 DEF LoopRecord, Places, States, Executing, Waiting
    <3>2. SystemRuling(requested, source) \in Operation /\ Decided(SystemRuling(requested, source))
      BY <2>3, RulingType
    <3>3. \A x : Stage("recording", x)
      BY DEF Stage
    <3>4. "recording" \in Serving
      BY DEF Serving
    <3>5. QED
      BY <2>1, <2>6, <3>1, <3>2, <3>3, <3>4, ServesOn
  <2>7. QED
    BY <1>4, <2>4, <2>5, <2>6
<1>11. CASE StartTool(c)
  <2> DEFINE x == [op EXCEPT !.started = TRUE]
  <2>1. l.at = "approved" /\ l.at \in Serving
    BY <1>11 DEF StartTool, Serving
  <2>2. CASE Changes(c, o, x) /\ Moves(c, [loop[c] EXCEPT !.at = "executing", !.state = "WaitingForTool"])
    <3>1. /\ loop'[c] \in LoopRecord /\ loop'[c].observed = l.observed
          /\ loop'[c].events = l.events /\ loop'[c].at = "executing"
      BY <1>1, <2>2 DEF LoopRecord, Places, States, Executing, Waiting
    <3>2. x \in Operation /\ Decided(x)
      BY <1>2, <2>1 DEF Operation, Decided, Stage
    <3>3. Stage("executing", x) /\ "executing" \in Serving
      BY DEF Stage, Serving
    <3> HIDE DEF x
    <3>4. QED
      BY <2>1, <2>2, <3>1, <3>2, <3>3, ServesOn
  <2>3. QED
    BY <1>4, <1>11, <2>2 DEF StartTool
<1>12. CASE RecordResult(c)
  <2> DEFINE x == [op EXCEPT !.closed = TRUE]
  <2>1. l.at = "recording" /\ l.at \in Serving /\ Changes(c, o, x)
    BY <1>12 DEF RecordResult, Serving
  <2>2. /\ loop'[c] \in LoopRecord /\ loop'[c].observed = l.observed
        /\ loop'[c].events = l.events /\ loop'[c].at \in {"submitting", "failed"}
    <3>1. \/ loop'[c] = [l EXCEPT !.at = "submitting", !.state = "Running"] \/ Fails(c)
      BY <1>1, <1>12 DEF RecordResult
    <3>2. CASE loop'[c] = [l EXCEPT !.at = "submitting", !.state = "Running"]
      BY <1>1, <3>2 DEF LoopRecord, Places, States, Executing
    <3>3. QED
      BY <1>3, <3>1, <3>2
  <2>3. x \in Operation /\ Decided(x) /\ x.closed
    BY <1>2, <2>1 DEF Operation, Decided
  <2> HIDE DEF x
  <2>4. QED
    BY <2>1, <2>2, <2>3, ServesOn
<1>13. CASE GiveUpWait(c)
  <2>1. l.at = "waiting" /\ l.at \in Serving /\ Fails(c) /\ Changes(c, o, SystemRuling(op, "cancellation"))
    BY <1>13 DEF GiveUpWait, Serving
  <2>2. op \in Operation /\ Decided(op) /\ ~op.started
    BY <1>2, <2>1 DEF Stage
  <2>3. SystemRuling(op, "cancellation") \in Operation /\ Decided(SystemRuling(op, "cancellation"))
    BY <2>2, RulingType DEF Sources
  <2>4. QED
    BY <1>3, <2>1, <2>3, ServesOn
<1>14. QED
  BY <1>5, <1>6, <1>7, <1>8, <1>9, <1>10, <1>11, <1>12, <1>13, ProviderGood DEF Works, Provider

(* The other steps that move a loop or rule on one of its requests. *)
LEMMA WaitGood ==
  ASSUME IInv, NEW c \in Children, Hear(c) \/ WaitTimesOut(c) \/ RecordFails(c) \/ RulingFails(c)
  PROVE  Good(loop'[c], ops'[c])
<1> DEFINE l == loop[c]
           o == Current(c)
           op == ops[c][o]
<1>1. /\ Good(l, ops[c]) /\ l \in LoopRecord /\ l.events \in Nat
      /\ \A to : Moves(c, to) => loop'[c] = to
  BY Child
<1>2. ASSUME l.at = "waiting"
      PROVE  /\ o = Len(ops[c]) /\ o \in 1..Len(ops[c]) /\ op \in Operation /\ Decided(op)
             /\ op.tool = "gated" /\ op.ask # "none" /\ ~op.started /\ l.at \in Serving
  BY <1>2, Serves DEF Serving, Stage
<1>3. ASSUME Fails(c)
      PROVE  /\ loop'[c] \in LoopRecord /\ loop'[c].observed = l.observed
             /\ loop'[c].events = l.events /\ loop'[c].at = "failed"
  BY <1>1, <1>3 DEF Fails, Goes, LoopRecord, Places, Done
<1>4. ASSUME NEW place \in {"approved", "recording"}, Goes(c, place)
      PROVE  /\ loop'[c] \in LoopRecord /\ loop'[c].observed = l.observed
             /\ loop'[c].events = l.events /\ loop'[c].at = place
  BY <1>1, <1>4 DEF Goes, LoopRecord, Places
<1>5. \A x : x.tool = "gated" => Stage(AfterDecision(x), x)
  BY DEF AfterDecision, Stage
<1>6. \A x : AfterDecision(x) \in {"approved", "recording"}
  BY DEF AfterDecision
<1>7. {"approved", "recording"} \subseteq Serving
  BY DEF Serving
<1>8. CASE Hear(c)
  <2>1. l.at = "waiting" /\ Goes(c, AfterDecision(op)) /\ UNCHANGED ops
    BY <1>8 DEF Hear
  <2>2. /\ loop'[c] \in LoopRecord /\ loop'[c].observed = l.observed
        /\ loop'[c].events = l.events /\ loop'[c].at = AfterDecision(op)
    BY <1>4, <1>6, <2>1
  <2>3. loop'[c].at \in Serving /\ Stage(loop'[c].at, op)
    BY <1>2, <1>5, <1>6, <1>7, <2>1, <2>2
  <2>4. loop'[c].at \notin {"repairing", "ended"} /\ l.at \notin Abandoned
    BY <1>6, <2>1, <2>2 DEF Abandoned
  <2>5. l.events <= loop'[c].events /\ loop'[c].events <= MaxProviderEvents
    BY <1>1, <2>2 DEF Good
  <2>6. QED
    BY <1>1, <1>2, <2>1, <2>2, <2>3, <2>4, <2>5, KeepsOps
<1>9. CASE WaitTimesOut(c)
  <2> DEFINE ruled == SystemRuling(op, "timeout")
  <2>1. l.at = "waiting" /\ Changes(c, o, ruled) /\ Goes(c, AfterDecision(ruled))
    BY <1>9 DEF WaitTimesOut
  <2>2. ruled \in Operation /\ Decided(ruled) /\ ruled.tool = "gated"
    BY <1>2, <2>1, RulingType DEF Sources
  <2> HIDE DEF ruled
  <2>3. /\ loop'[c] \in LoopRecord /\ loop'[c].observed = l.observed
        /\ loop'[c].events = l.events /\ loop'[c].at = AfterDecision(ruled)
    BY <1>4, <1>6, <2>1
  <2>4. loop'[c].at \in Serving /\ Stage(loop'[c].at, ruled)
    BY <1>5, <1>6, <1>7, <2>2, <2>3
  <2>5. QED
    BY <1>2, <2>1, <2>2, <2>3, <2>4, ServesOn
<1>10. CASE RecordFails(c)
  <2>1. CASE Receives(c) /\ Moves(c, [Counted(c) EXCEPT !.at = "failed"])
    <3>1. l.events < MaxProviderEvents
      BY <2>1 DEF Receives, EventsLeft
    <3>2. /\ Counted(c) \in LoopRecord /\ Counted(c).events = l.events + 1
          /\ Counted(c).observed = l.observed
      BY <1>1 DEF Counted, LoopRecord
    <3>3. /\ loop'[c] \in LoopRecord /\ loop'[c].observed = l.observed
          /\ loop'[c].events = l.events + 1 /\ loop'[c].at = "failed"
      <4>1. loop'[c] = [Counted(c) EXCEPT !.at = "failed"]
        BY <1>1, <2>1
      <4>2. QED
        BY <3>2, <4>1 DEF LoopRecord, Places, Done
    <3>4. QED
      BY <1>10, <3>1, <3>3, GoesOn DEF RecordFails
  <2>2. CASE Fails(c)
    BY <1>3, <1>10, <2>2, GoesOn DEF RecordFails
  <2>3. QED
    BY <1>10, <2>1, <2>2 DEF RecordFails
<1>11. CASE RulingFails(c)
  <2> DEFINE x == [op EXCEPT !.ask = "requested"]
  <2>1. Fails(c)
    BY <1>11 DEF RulingFails
  <2>2. CASE l.at = "asking" /\ Changes(c, o, x)
    <3>1. /\ o \in 1..Len(ops[c]) /\ op \in Operation /\ Decided(op)
          /\ op.ask = "none" /\ ~op.started /\ l.at \in Serving
      BY <2>2, Serves DEF Serving, Stage
    <3>2. x \in Operation /\ Decided(x)
      BY <3>1 DEF Operation, Decided
    <3> HIDE DEF x
    <3>3. QED
      BY <1>3, <2>1, <2>2, <3>1, <3>2, ServesOn
  <2>3. CASE UNCHANGED ops
    BY <1>3, <2>1, <2>3, GoesOn
  <2>4. QED
    BY <1>11, <2>2, <2>3 DEF RulingFails
<1>12. QED
  BY <1>8, <1>9, <1>10, <1>11

(* A ruling by somebody else, while the loop stays where it is. *)
LEMMA RuledGood ==
  ASSUME IInv, NEW c \in Children, NEW o \in 1..Len(ops[c]), ops[c][o].ask = "requested",
         NEW ask \in {"allowed", "denied"}, NEW source \in Sources, ask = "allowed" => source = "user",
         loop'[c] = loop[c], Changes(c, o, Ruled(ops[c][o], ask, source))
  PROVE  Good(loop'[c], ops'[c])
<1> DEFINE op == ops[c][o]
           x == [op EXCEPT !.ask = ask, !.source = source, !.rulings = 1]
<1>1. Good(loop[c], ops[c]) /\ loop[c] \in LoopRecord /\ Len(ops[c]) \in Nat
      /\ loop[c].events \in Nat /\ loop[c].events <= MaxProviderEvents
  BY Child
<1>2. op \in Operation /\ Decided(op)
  BY <1>1, ElementOfSeq DEF Good
<1>3. op.rulings = 0 /\ 0 + 1 = 1 /\ 1 \in 0..2 /\ ~(op.tool = "gated" /\ op.started)
  BY <1>2 DEF Decided
<1>4. Ruled(op, ask, source) = x
  BY <1>2, <1>3 DEF Ruled, Operation
<1>5. /\ x.tool = op.tool /\ x.closed = op.closed /\ x.started = op.started
      /\ x.ask = ask /\ x.source = source /\ x.rulings = 1 /\ x \in Operation
  BY <1>2, <1>3 DEF Operation
<1>6. Changes(c, o, x)
  BY <1>4
<1> HIDE DEF x
<1>7. Decided(x)
  BY <1>3, <1>5 DEF Decided
<1>8. ops'[c] = [ops[c] EXCEPT ![o] = x]
  BY <1>6, ChangedOps
<1>9. ASSUME loop[c].at \in Serving
      PROVE  Stage(loop[c].at, IF o = Len(ops[c]) THEN x ELSE ops[c][Len(ops[c])])
  <2>1. Stage(loop[c].at, ops[c][Len(ops[c])])
    BY <1>1, <1>9 DEF Good
  <2>2. CASE o = Len(ops[c])
    BY <1>5, <2>1, <2>2 DEF Stage
  <2>3. QED
    BY <2>1, <2>2
<1>10. \/ x.closed \/ loop[c].at \in Abandoned \/ o \in loop[c].observed
       \/ loop[c].at \in Serving /\ o = Len(ops[c])
  BY <1>1, <1>5 DEF Good, Known
<1>11. loop[c].at \in {"repairing", "ended"} => loop[c].observed = {}
  BY <1>1 DEF Good
<1>12. QED
  BY <1>1, <1>5, <1>7, <1>8, <1>9, <1>10, <1>11, RewritesOne

-----------------------------------------------------------------------------
(* Requests. *)

(* The step of c leaves no request behind that nobody waits for. *)
Kept(c) ==
    \A o \in DOMAIN ops'[c] :
        ops'[c][o].ask = "requested" =>
            \/ loop'[c].at = "waiting" /\ o = Len(ops'[c])
            \/ faults' > 0
            \/ /\ o \in DOMAIN ops[c] /\ ops[c][o].ask = "requested"
               /\ ~(loop[c].at = "waiting" /\ o = Len(ops[c]))

LEMMA KeptSame ==
  ASSUME IInv, NEW c \in Children, UNCHANGED ops, loop[c].at # "waiting"
  PROVE  Kept(c)
  BY DEF Kept

LEMMA KeptChange ==
  ASSUME IInv, NEW c \in Children, NEW o \in 1..Len(ops[c]), NEW op, Changes(c, o, op),
         \/ loop[c].at # "waiting" /\ op.ask = ops[c][o].ask
         \/ op.ask # "requested" /\ (loop[c].at # "waiting" \/ o = Len(ops[c]))
         \/ loop'[c].at = "waiting" /\ o = Len(ops[c]) /\ loop[c].at # "waiting"
  PROVE  Kept(c)
<1>1. ops[c] \in Seq(Operation) /\ DOMAIN ops[c] = 1..Len(ops[c])
  BY Child
<1>2. ops'[c] = [ops[c] EXCEPT ![o] = op]
  BY ChangedOps
<1>3. /\ DOMAIN ops'[c] = DOMAIN ops[c]
      /\ \A i \in DOMAIN ops[c] : ops'[c][i] = IF i = o THEN op ELSE ops[c][i]
  BY <1>1, <1>2
<1>4. Len(ops'[c]) = Len(ops[c])
  <2>1. Len(ops[c]) \in Nat /\ DOMAIN ops'[c] = 1..Len(ops[c])
    BY <1>1, <1>3
  <2>2. QED
    BY <2>1, LenProperties
<1>5. QED
  BY <1>1, <1>3, <1>4 DEF Kept

LEMMA KeptAppend ==
  ASSUME IInv, NEW c \in Children, NEW tool \in Tools, loop[c].at # "waiting",
         ops'[c] = Append(ops[c], Intent(tool))
  PROVE  Kept(c)
<1>1. ops[c] \in Seq(Operation) /\ Len(ops[c]) \in Nat /\ DOMAIN ops[c] = 1..Len(ops[c])
  BY Child
<1>2. Intent(tool) \in Operation /\ Intent(tool).ask = "none"
  BY DEF Intent, Operation, Sources
<1>3. /\ Len(ops'[c]) = Len(ops[c]) + 1 /\ ops'[c][Len(ops[c]) + 1] = Intent(tool)
      /\ ops'[c] \in Seq(Operation)
      /\ \A i \in 1..Len(ops[c]) : ops'[c][i] = ops[c][i]
  BY <1>1, <1>2, AppendProperties
<1>4. DOMAIN ops'[c] = 1..Len(ops[c]) \cup {Len(ops[c]) + 1}
  BY <1>1, <1>3
<1>5. QED
  BY <1>1, <1>2, <1>3, <1>4 DEF Kept

LEMMA ProviderKept ==
  ASSUME IInv, NEW c \in Children, Provider(c)
  PROVE  Kept(c)
<1>1. loop[c].at # "waiting"
  BY DEF Provider, Start, Repair, Submit, ToolAnswers, OutOfEvents, Chatter, ToolRequest,
     ToolObservedStarted, ToolObservedFailed, LastWord, Receives
<1>2. CASE ToolRequest(c)
  <2>1. CASE CallsLeft(c)
    <3>1. PICK tool \in Requestable : ops' = [ops EXCEPT ![c] = Append(@, Intent(tool))]
      BY <1>2, <2>1 DEF ToolRequest
    <3>2. ops'[c] = Append(ops[c], Intent(tool)) /\ tool \in Tools
      BY <3>1 DEF IInv, Requestable
    <3>3. QED
      BY <1>1, <3>2, KeptAppend
  <2>2. CASE ~CallsLeft(c)
    BY <1>1, <1>2, <2>2, KeptSame DEF ToolRequest
  <2>3. QED
    BY <2>1, <2>2
<1>3. CASE ToolObservedStarted(c)
  <2>1. ops' = [ops EXCEPT ![c] = Append(@, Intent("observed"))] /\ "observed" \in Tools
    BY <1>3 DEF ToolObservedStarted, Tools
  <2>2. ops'[c] = Append(ops[c], Intent("observed"))
    BY <2>1 DEF IInv
  <2>3. QED
    BY <1>1, <2>1, <2>2, KeptAppend
<1>4. CASE ToolObservedFailed(c)
  <2>1. ASSUME NEW o \in loop[c].observed, Changes(c, o, [ops[c][o] EXCEPT !.closed = TRUE])
        PROVE  Kept(c)
    <3> DEFINE x == [ops[c][o] EXCEPT !.closed = TRUE]
    <3>1. o \in 1..Len(ops[c]) /\ ops[c][o] \in Operation
      BY Child, ElementOfSeq DEF Good
    <3>2. x.ask = ops[c][o].ask /\ Changes(c, o, x)
      BY <2>1, <3>1 DEF Operation
    <3> HIDE DEF x
    <3>3. QED
      BY <1>1, <3>1, <3>2, KeptChange
  <2>2. QED
    BY <1>1, <1>4, <2>1, KeptSame DEF ToolObservedFailed
<1>5. CASE UNCHANGED ops
  BY <1>1, <1>5, KeptSame
<1>6. QED
  BY <1>2, <1>3, <1>4, <1>5 DEF Provider, Start, Repair, Submit, ToolAnswers, OutOfEvents, Chatter,
     LastWord

LEMMA WorksKept ==
  ASSUME IInv, NEW c \in Children, Works(c)
  PROVE  Kept(c)
<1> DEFINE o == Current(c)
           op == ops[c][o]
<1>1. ASSUME loop[c].at \in Serving
      PROVE  o = Len(ops[c]) /\ o \in 1..Len(ops[c]) /\ op \in Operation /\ Stage(loop[c].at, op)
             /\ Decided(op)
  BY <1>1, Serves
<1>2. CASE Start(c) \/ ToolAnswers(c)
  BY <1>2, ProviderKept DEF Provider
<1>3. CASE End(c) \/ Interrupt(c) \/ EnterTool(c)
  BY <1>3, KeptSame DEF End, Interrupt, EnterTool
<1>4. CASE CloseOne(c)
  <2>1. PICK i \in loop[c].observed : Changes(c, i, [ops[c][i] EXCEPT !.closed = TRUE])
    BY <1>4 DEF CloseOne
  <2> DEFINE x == [ops[c][i] EXCEPT !.closed = TRUE]
  <2>2. i \in 1..Len(ops[c]) /\ ops[c][i] \in Operation /\ loop[c].at # "waiting"
    BY <1>4, Child, ElementOfSeq DEF Good, CloseOne
  <2>3. x.ask = ops[c][i].ask /\ Changes(c, i, x)
    BY <2>1, <2>2 DEF Operation
  <2> HIDE DEF x
  <2>4. QED
    BY <2>2, <2>3, KeptChange
<1>5. CASE Observe(c) \/ StartTool(c)
  <2> DEFINE x == [op EXCEPT !.started = TRUE]
  <2>1. loop[c].at \in Serving /\ loop[c].at # "waiting" /\ (UNCHANGED ops \/ Changes(c, o, x))
    BY <1>5 DEF Observe, StartTool, Serving
  <2>2. x.ask = op.ask
    BY <1>1, <2>1 DEF Operation
  <2> HIDE DEF x
  <2>3. QED
    BY <1>1, <2>1, <2>2, KeptChange, KeptSame
<1>6. CASE RecordResult(c)
  <2> DEFINE x == [op EXCEPT !.closed = TRUE]
  <2>1. loop[c].at \in Serving /\ loop[c].at # "waiting" /\ Changes(c, o, x)
    BY <1>6 DEF RecordResult, Serving
  <2>2. x.ask = op.ask
    BY <1>1, <2>1 DEF Operation
  <2> HIDE DEF x
  <2>3. QED
    BY <1>1, <2>1, <2>2, KeptChange
<1>7. CASE Ask(c)
  <2> DEFINE requested == [op EXCEPT !.ask = "requested"]
  <2>1. loop[c].at = "asking" /\ loop[c].at \in Serving
    BY <1>7 DEF Ask, Serving
  <2>2. requested \in Operation /\ Decided(requested)
    BY <1>1, <2>1 DEF Operation, Decided, Stage
  <2>3. \/ UNCHANGED ops
        \/ Changes(c, o, requested) /\ loop'[c].at = "waiting"
        \/ \E source \in Sources : Changes(c, o, SystemRuling(requested, source))
    <3>1. loop[c] \in LoopRecord /\ \A to : Moves(c, to) => loop'[c] = to
      BY Child
    <3>2. [loop[c] EXCEPT !.at = "waiting", !.state = "WaitingForUser"].at = "waiting"
      BY <3>1 DEF LoopRecord
    <3>3. QED
      BY <1>7, <3>1, <3>2 DEF Ask, Sources
  <2> HIDE DEF requested
  <2>4. \A source \in Sources : SystemRuling(requested, source).ask # "requested"
    BY <2>2, RulingType
  <2>5. QED
    BY <1>1, <2>1, <2>3, <2>4, KeptChange, KeptSame
<1>8. CASE GiveUpWait(c)
  <2>1. loop[c].at \in Serving /\ Changes(c, o, SystemRuling(op, "cancellation"))
    BY <1>8 DEF GiveUpWait, Serving
  <2>2. SystemRuling(op, "cancellation").ask # "requested"
    BY <1>1, <2>1, RulingType DEF Sources
  <2>3. QED
    BY <1>1, <2>1, <2>2, KeptChange
<1>9. QED
  BY <1>2, <1>3, <1>4, <1>5, <1>6, <1>7, <1>8 DEF Works

LEMMA WaitKept ==
  ASSUME IInv, NEW c \in Children, Hear(c) \/ WaitTimesOut(c) \/ RecordFails(c) \/ RulingFails(c)
  PROVE  Kept(c)
<1> DEFINE o == Current(c)
<1>1. CASE Hear(c)
  BY <1>1 DEF Hear, Kept, Current
<1>2. CASE WaitTimesOut(c)
  <2>1. loop[c].at \in Serving /\ Changes(c, o, SystemRuling(ops[c][o], "timeout"))
    BY <1>2 DEF WaitTimesOut, Serving
  <2>2. /\ o = Len(ops[c]) /\ o \in 1..Len(ops[c])
        /\ SystemRuling(ops[c][o], "timeout").ask # "requested"
    BY <2>1, Serves, RulingType DEF Sources
  <2>3. QED
    BY <2>1, <2>2, KeptChange
<1>3. CASE RecordFails(c) \/ RulingFails(c)
  <2>1. faults' > 0
    BY <1>3 DEF RecordFails, RulingFails, Fault, IInv
  <2>2. QED
    BY <2>1 DEF Kept
<1>4. QED
  BY <1>1, <1>2, <1>3

-----------------------------------------------------------------------------
(* Every step keeps the invariant. *)

(* What a loop does, by itself or because it is answered or cut off. *)
LoopSteps(c) ==
    \/ Works(c) \/ Provider(c)
    \/ Hear(c) \/ WaitTimesOut(c) \/ RecordFails(c) \/ RulingFails(c)

LEMMA LoopStepsShape ==
  ASSUME NEW c \in Children, LoopSteps(c)
  PROVE  /\ \E to : Moves(c, to)
         /\ UNCHANGED ops \/ \E s : ops' = [ops EXCEPT ![c] = s]
         /\ UNCHANGED faults \/ Fault
         /\ UNCHANGED signals
         /\ loop[c].at \notin Done
<1> USE DEF Moves, Goes, Fails
<1>1. CASE Works(c)
  BY <1>1 DEF Works, Start, ToolAnswers, GiveUpWait, CloseOne, End, Interrupt, Observe, EnterTool,
     Ask, StartTool, RecordResult, Changes, Done
<1>2. CASE Provider(c)
  BY <1>2 DEF Provider, Start, Repair, Submit, ToolAnswers, OutOfEvents, Chatter, ToolRequest,
     ToolObservedStarted, ToolObservedFailed, LastWord, Receives, Changes, Done
<1>3. CASE Hear(c) \/ WaitTimesOut(c)
  BY <1>3 DEF Hear, WaitTimesOut, Changes, Done
<1>4. CASE RecordFails(c)
  <2>1. (\E to : Moves(c, to)) /\ Fault /\ UNCHANGED <<ops, signals>>
    BY <1>4 DEF RecordFails
  <2>2. loop[c].at \notin Done
    BY <1>4 DEF RecordFails, Receives, Done
  <2>3. QED
    BY <2>1, <2>2
<1>5. CASE RulingFails(c)
  <2>1. (\E to : Moves(c, to)) /\ Fault /\ UNCHANGED signals
    BY <1>5 DEF RulingFails
  <2>2. UNCHANGED ops \/ \E s : ops' = [ops EXCEPT ![c] = s]
    BY <1>5 DEF RulingFails, Changes
  <2>3. loop[c].at \notin Done
    BY <1>5 DEF RulingFails, Done
  <2>4. QED
    BY <2>1, <2>2, <2>3
<1>6. QED
  BY <1>1, <1>2, <1>3, <1>4, <1>5 DEF LoopSteps

(* Reservations stay within the budget of the root. *)
LEMMA RootKept ==
  ASSUME IInv, NEW c \in Children, LoopSteps(c)
  PROVE  root' \in [events : 0..RootEvents, calls : 0..RootToolCalls]
<1>1. root \in [events : 0..RootEvents, calls : 0..RootToolCalls]
      /\ root.events \in 0..RootEvents /\ root.calls \in 0..RootToolCalls
  BY DEF IInv
<1>2. root.events < RootEvents => root.events + 1 \in 0..RootEvents
  BY <1>1, LoopAssumption
<1>3. root.calls < RootToolCalls => root.calls + 1 \in 0..RootToolCalls
  BY <1>1, LoopAssumption
<1>4. CASE UNCHANGED root
  BY <1>1, <1>4
<1>5. CASE CountsEvent(c) /\ Receives(c)
  BY <1>1, <1>2, <1>5 DEF CountsEvent, Receives, EventsLeft
<1>6. CASE ToolRequest(c)
  <2>1. CASE CallsLeft(c)
    BY <1>1, <1>2, <1>3, <1>6, <2>1 DEF ToolRequest, Receives, EventsLeft, CallsLeft
  <2>2. CASE ~CallsLeft(c)
    BY <1>5, <1>6, <2>2 DEF ToolRequest
  <2>3. QED
    BY <2>1, <2>2
<1>7. QED
  BY <1>4, <1>5, <1>6 DEF LoopSteps, Works, Provider, Start, ToolAnswers, GiveUpWait, CloseOne, End,
     Interrupt, Observe, EnterTool, Ask, StartTool, RecordResult, Repair, Submit, OutOfEvents,
     Chatter, ToolObservedStarted, ToolObservedFailed, LastWord, Hear, WaitTimesOut, RecordFails,
     RulingFails

LEMMA FaultStep ==
  ASSUME faults \in 0..MaxFaults, UNCHANGED faults \/ Fault
  PROVE  faults' \in 0..MaxFaults /\ (faults > 0 => faults' > 0)
  BY LoopAssumption DEF Fault

LEMMA LoopStepsKeep ==
  ASSUME IInv, NEW c \in Children, LoopSteps(c)
  PROVE  IInv'
<1>1. PICK to : loop' = [loop EXCEPT ![c] = to]
  BY LoopStepsShape DEF Moves
<1>2. UNCHANGED ops \/ \E s : ops' = [ops EXCEPT ![c] = s]
  BY LoopStepsShape
<1>3. DOMAIN loop' = Children /\ DOMAIN ops' = Children
  BY <1>1, <1>2 DEF IInv
<1>4. \A d \in Children : d # c => loop'[d] = loop[d] /\ ops'[d] = ops[d]
  BY <1>1, <1>2 DEF IInv
<1>5. Good(loop'[c], ops'[c])
  BY ProviderGood, WorksGood, WaitGood DEF LoopSteps
<1>6. \A d \in Children : Good(loop'[d], ops'[d])
  <2> TAKE d \in Children
  <2>1. CASE d = c
    BY <1>5, <2>1
  <2>2. CASE d # c
    BY <1>4, <2>2 DEF IInv
  <2>3. QED
    BY <2>1, <2>2
<1>7. root' \in [events : 0..RootEvents, calls : 0..RootToolCalls]
  BY RootKept
<1>8. cancelled' = cancelled /\ expired' = expired /\ phase' = phase /\ phase = "up"
  BY LoopStepsShape DEF signals, IInv
<1>9. faults' \in 0..MaxFaults /\ (faults > 0 => faults' > 0)
  BY LoopStepsShape, FaultStep DEF IInv
<1>10. PendingIsAwaited'
  <2> SUFFICES ASSUME NEW d \in Children, NEW o \in DOMAIN ops'[d], ops'[d][o].ask = "requested"
               PROVE  \/ loop'[d].at = "waiting" /\ o = Len(ops'[d])
                      \/ faults' > 0
                      \/ phase' = "down"
    BY DEF PendingIsAwaited, Current
  <2>1. CASE d = c
    <3>1. Kept(c)
      BY ProviderKept, WorksKept, WaitKept DEF LoopSteps
    <3>2. \/ loop'[c].at = "waiting" /\ o = Len(ops'[c])
          \/ faults' > 0
          \/ /\ o \in DOMAIN ops[c] /\ ops[c][o].ask = "requested"
             /\ ~(loop[c].at = "waiting" /\ o = Len(ops[c]))
      BY <2>1, <3>1 DEF Kept
    <3>3. QED
      BY <1>8, <1>9, <2>1, <3>2 DEF IInv, PendingIsAwaited, Current
  <2>2. CASE d # c
    BY <1>4, <1>8, <1>9, <2>2 DEF IInv, PendingIsAwaited, Current
  <2>3. QED
    BY <2>1, <2>2
<1>11. loop' \in [Children -> LoopRecord]
  <2>1. to \in LoopRecord
    BY <1>1, <1>5 DEF IInv, Good
  <2>2. QED
    BY <1>1, <2>1 DEF IInv
<1>12. QED
  BY <1>3, <1>6, <1>7, <1>8, <1>9, <1>10, <1>11 DEF IInv

(* A ruling from outside the loop: by the user or by a new broker. *)
LEMMA RulingKeeps ==
  ASSUME IInv, NEW c \in Children, NEW o \in DOMAIN ops[c], ops[c][o].ask = "requested",
         NEW ask \in {"allowed", "denied"}, NEW source \in Sources, ask = "allowed" => source = "user",
         Changes(c, o, Ruled(ops[c][o], ask, source)),
         UNCHANGED <<loop, root, signals, faults>>
  PROVE  IInv'
<1> DEFINE x == Ruled(ops[c][o], ask, source)
<1>1. o \in 1..Len(ops[c]) /\ ops[c] \in Seq(Operation) /\ DOMAIN ops = Children
  BY Child DEF IInv
<1>2. Good(loop'[c], ops'[c])
  BY <1>1, RuledGood
<1>3. ops[c][o] \in Operation
  BY <1>1, ElementOfSeq
<1>4. x.ask # "requested" /\ Changes(c, o, x)
  BY <1>3 DEF Ruled, Operation
<1> HIDE DEF x
<1>5. ops' = [ops EXCEPT ![c] = [ops[c] EXCEPT ![o] = x]]
  BY <1>4 DEF Changes
<1>6. \A d \in Children : d # c => ops'[d] = ops[d]
  BY <1>1, <1>5
<1>7. /\ DOMAIN ops' = Children /\ ops'[c] = [ops[c] EXCEPT ![o] = x]
      /\ ops'[c] \in Seq(Operation) /\ Len(ops'[c]) = Len(ops[c])
  <2>1. DOMAIN ops' = Children /\ ops'[c] = [ops[c] EXCEPT ![o] = x]
    BY <1>1, <1>5
  <2>2. ops'[c] \in Seq(Operation)
    BY <1>2 DEF Good
  <2>3. DOMAIN ops'[c] = DOMAIN ops[c]
    BY <2>1
  <2>4. QED
    BY <1>1, <2>1, <2>2, <2>3, LenProperties
<1>8. \A d \in Children : Good(loop'[d], ops'[d])
  BY <1>2, <1>6 DEF IInv
<1>9. PendingIsAwaited'
  <2> SUFFICES ASSUME NEW d \in Children, NEW i \in DOMAIN ops'[d], ops'[d][i].ask = "requested"
               PROVE  \/ loop'[d].at = "waiting" /\ i = Len(ops'[d])
                      \/ faults' > 0
                      \/ phase' = "down"
    BY DEF PendingIsAwaited, Current
  <2>1. i \in DOMAIN ops[d] /\ ops[d][i].ask = "requested" /\ Len(ops'[d]) = Len(ops[d])
    BY <1>4, <1>6, <1>7
  <2>2. QED
    BY <2>1 DEF IInv, PendingIsAwaited, Current, signals
<1>10. QED
  BY <1>7, <1>8, <1>9 DEF IInv, signals

LEMMA InvInit == Init => IInv
<1> SUFFICES ASSUME Init PROVE IInv
  OBVIOUS
<1>1. /\ DOMAIN loop = Children /\ DOMAIN ops = Children
      /\ cancelled = {} /\ expired = {} /\ phase = "up"
  BY DEF Init
<1>2. root \in [events : 0..RootEvents, calls : 0..RootToolCalls] /\ faults \in 0..MaxFaults
  BY LoopAssumption DEF Init
<1>3. ASSUME NEW c \in Children PROVE Good(loop[c], ops[c])
  <2>1. /\ loop[c] = [at |-> "starting", state |-> "Starting", events |-> 0, calls |-> 0,
                      observed |-> {}, repaired |-> FALSE, ending |-> "none"]
        /\ ops[c] = <<>>
    BY DEF Init
  <2>2. loop[c] \in LoopRecord
    BY <2>1 DEF LoopRecord, Places, States, Executing
  <2>3. ops[c] \in Seq(Operation) /\ Len(ops[c]) = 0 /\ 1..0 = {}
    BY <2>1
  <2>4. 0 <= MaxProviderEvents
    BY LoopAssumption
  <2>5. QED
    BY <2>1, <2>2, <2>3, <2>4 DEF Good, Known, Serving
<1>4. PendingIsAwaited
  BY DEF Init, PendingIsAwaited
<1>5. loop \in [Children -> LoopRecord]
  BY <1>3 DEF Init, Good
<1>6. QED
  BY <1>1, <1>2, <1>3, <1>4, <1>5 DEF IInv

LEMMA InvStep == IInv /\ [Next]_vars => IInv'
<1> SUFFICES ASSUME IInv, [Next]_vars PROVE IInv'
  OBVIOUS
<1>1. ASSUME NEW c \in Children, LoopSteps(c) PROVE IInv'
  BY <1>1, LoopStepsKeep
<1>2. ASSUME NEW c \in Children, UserAnswers(c) PROVE IInv'
  <2>1. PICK o \in DOMAIN ops[c], decision \in {"allowed", "denied"} :
            /\ ops[c][o].ask = "requested"
            /\ Changes(c, o, Ruled(ops[c][o], decision, "user"))
    BY <1>2 DEF UserAnswers
  <2>2. UNCHANGED <<loop, root, signals, faults>> /\ "user" \in Sources
    BY <1>2 DEF UserAnswers, Sources
  <2>3. QED
    BY <2>1, <2>2, RulingKeeps
<1>3. ASSUME NEW c \in Children, Cancel(c) \/ Expire(c) PROVE IInv'
  BY <1>3 DEF Cancel, Expire, IInv, PendingIsAwaited, Current
<1>4. CASE SiblingReserves
  <2>1. root.events < RootEvents => root.events + 1 \in 0..RootEvents
    BY LoopAssumption DEF IInv
  <2>2. root.calls < RootToolCalls => root.calls + 1 \in 0..RootToolCalls
    BY LoopAssumption DEF IInv
  <2>3. root' \in [events : 0..RootEvents, calls : 0..RootToolCalls]
    BY <1>4, <2>1, <2>2 DEF SiblingReserves, IInv
  <2>4. UNCHANGED <<loop, ops, cancelled, expired, phase, faults>>
    BY <1>4 DEF SiblingReserves, signals
  <2>5. PendingIsAwaited'
    BY <2>4 DEF IInv, PendingIsAwaited, Current
  <2>6. QED
    BY <2>3, <2>4, <2>5 DEF IInv
<1>5. CASE Stop
  <2>1. /\ DOMAIN loop' = Children /\ phase' = "down"
        /\ UNCHANGED <<ops, root, cancelled, expired, faults>>
        /\ \A c \in Children : loop'[c] = IF loop[c].at \in Done THEN loop[c]
                                          ELSE [loop[c] EXCEPT !.at = "gone"]
    BY <1>5 DEF Stop
  <2>2. ASSUME NEW c \in Children PROVE Good(loop'[c], ops'[c]) /\ loop'[c].at \in Done
    <3>1. CASE loop[c].at \in Done
      BY <2>1, <3>1 DEF IInv
    <3>2. CASE loop[c].at \notin Done
      <4>1. loop[c] \in LoopRecord /\ Good(loop[c], ops[c]) /\ loop[c].events \in Nat
        BY Child
      <4>2. /\ loop'[c] \in LoopRecord /\ loop'[c].observed = loop[c].observed
            /\ loop'[c].events = loop[c].events /\ loop'[c].at = "gone"
        BY <2>1, <3>2, <4>1 DEF LoopRecord, Places, Done
      <4>3. loop[c].events <= loop'[c].events /\ loop'[c].events <= MaxProviderEvents
        BY <4>1, <4>2 DEF Good
      <4>4. "gone" \notin Serving /\ "gone" \in Abandoned /\ "gone" \in Done
            /\ "gone" \notin {"repairing", "ended"}
        BY DEF Serving, Abandoned, Done
      <4>5. QED
        BY <2>1, <4>1, <4>2, <4>3, <4>4, KeepsOps
    <3>3. QED
      BY <3>1, <3>2
  <2>3. PendingIsAwaited'
    BY <2>1 DEF PendingIsAwaited
  <2>4. loop' \in [Children -> LoopRecord]
    <3>1. loop' = [c \in Children |-> loop'[c]]
      BY <1>5 DEF Stop
    <3>2. QED
      BY <2>2, <3>1 DEF Good
  <2>5. QED
    BY <2>1, <2>2, <2>3, <2>4 DEF IInv
<1>6. CASE DenyAbandoned
  <2>1. PICK p \in Pending : Changes(p[1], p[2], SystemRuling(ops[p[1]][p[2]], "restart"))
    BY <1>6 DEF DenyAbandoned
  <2>2. /\ p[1] \in Children /\ p[2] \in DOMAIN ops[p[1]]
        /\ ops[p[1]][p[2]].ask = "requested"
    BY <2>1 DEF Pending
  <2>3. SystemRuling(ops[p[1]][p[2]], "restart") = Ruled(ops[p[1]][p[2]], "denied", "restart")
    BY <2>2 DEF SystemRuling
  <2>4. UNCHANGED <<loop, root, signals, faults>> /\ "restart" \in Sources
    BY <1>6 DEF DenyAbandoned, Sources
  <2>5. QED
    BY <2>1, <2>2, <2>3, <2>4, RulingKeeps
<1>7. CASE Reopen
  <2>1. UNCHANGED <<loop, ops, root, cancelled, expired, faults>> /\ phase' = "reopened"
        /\ phase = "down" /\ Pending = {}
    BY <1>7 DEF Reopen
  <2>2. \A c \in Children : \A o \in DOMAIN ops[c] : ops[c][o].ask # "requested"
    <3> SUFFICES ASSUME NEW c \in Children, NEW o \in DOMAIN ops[c], ops[c][o].ask = "requested"
                 PROVE  FALSE
      OBVIOUS
    <3>1. Len(ops[c]) \in Nat /\ Len(ops[c]) <= MaxProviderEvents /\ o \in 1..Len(ops[c])
      BY Child, LoopAssumption DEF Good
    <3>2. o \in 1..MaxProviderEvents
      BY <3>1, LoopAssumption
    <3>3. <<c, o>> \in Pending
      BY <3>2 DEF Pending
    <3>4. QED
      BY <2>1, <3>3
  <2>3. PendingIsAwaited'
    BY <2>1, <2>2 DEF PendingIsAwaited
  <2>4. QED
    BY <2>1, <2>3 DEF IInv
<1>8. CASE Rest \/ UNCHANGED vars
  BY <1>8 DEF Rest, vars, IInv, PendingIsAwaited, Current
<1>9. QED
  BY <1>1, <1>2, <1>3, <1>4, <1>5, <1>6, <1>7, <1>8 DEF Next, LoopSteps

LEMMA Invariant == Spec => []IInv
  BY InvInit, InvStep, PTL DEF Spec

(* Types and the budget of the root: its loops never reserve more events or     *)
(* calls than the root has, a loop observes no more tools than it received       *)
(* events, and every operation is one that execute_tool_request and the broker   *)
(* can have made.                                                              *)
THEOREM TypeCorrect == Spec => []TypeOK
<1>1. IInv => TypeOK
  <2> SUFFICES ASSUME IInv PROVE TypeOK
    OBVIOUS
  <2>1. \A c \in Children : \A o \in DOMAIN ops[c] : ops[c][o] \in Operation
    BY Child, ElementOfSeq
  <2>2. QED
    BY <2>1 DEF IInv, TypeOK
<1>2. QED
  BY <1>1, Invariant, PTL

(* However the user, the policy, the deadline, a cancellation and a restart     *)
(* race, a request is resolved once, and a gated tool starts only on the user's *)
(* consent.                                                                    *)
THEOREM DecidedOnce == Spec => []ApprovalIsDecidedOnce
<1>1. IInv => ApprovalIsDecidedOnce
  <2> SUFFICES ASSUME IInv, NEW c \in Children, NEW o \in DOMAIN ops[c]
               PROVE  LET op == ops[c][o]
                      IN  /\ op.rulings = IF op.ask \in {"allowed", "denied"} THEN 1 ELSE 0
                          /\ op.tool = "gated" /\ op.started => op.ask = "allowed" /\ op.source = "user"
    BY DEF ApprovalIsDecidedOnce
  <2>1. Decided(ops[c][o])
    BY Child DEF Good
  <2>2. QED
    BY <2>1 DEF Decided
<1>2. QED
  BY <1>1, Invariant, PTL

(* A pending request has a loop that waits for it, or the append of its         *)
(* resolution failed, or the process is down.                                  *)
THEOREM RequestsAreAwaited == Spec => []PendingIsAwaited
  BY Invariant, PTL DEF IInv

(* A loop that returns a handoff has closed every operation it opened.          *)
THEOREM HandoffsAreClosed == Spec => []NothingOpenAtHandoff
<1>1. IInv => NothingOpenAtHandoff
  <2> SUFFICES ASSUME IInv, NEW c \in Children, loop[c].at = "ended", NEW o \in DOMAIN ops[c]
               PROVE  ops[c][o].closed
    BY DEF NothingOpenAtHandoff
  <2>1. o \in 1..Len(ops[c]) /\ Good(loop[c], ops[c])
    BY Child
  <2>2. QED
    BY <2>1 DEF Good, Known, Serving, Abandoned
<1>2. QED
  BY <1>1, Invariant, PTL
=============================================================================
