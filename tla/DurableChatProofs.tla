--------------------------- MODULE DurableChatProofs ---------------------------
(***************************************************************************)
(* Theorems about DurableChat, for any number of processes and of runs.      *)
(* What is to hold of a log (LogIsSound) is told apart from what is to hold  *)
(* of a process that reads it or writes to it (ProcIsSound); an event one    *)
(* process appends harms no other (Harmless) unless it is the closing event  *)
(* of SealedUnseen.                                                          *)
(***************************************************************************)
EXTENDS DurableChat, FiniteSetTheorems, SequenceTheorems, WellFoundedInduction, TLAPS

SealKinds == {"result", "closed", "retired", "recovered"}

Readable(l, n) == Foreign(l, n) \/ Fits(l, n)

(* What is to hold of the n-th event of a log, given the owners of the run. *)
EventIsSound(l, n, own) ==
    LET e == l[n]
    IN  /\ e \in Events(Procs)
        /\ e.kind = "created" <=> n = 1
        /\ e.kind = "branch" <=> n = 2
        /\ n <= 2 => e.branch = Main /\ ~IsSeal(e)
        /\ IsSeal(e) => e.kind \in SealKinds
        /\ ~IsSeal(e) => /\ e.branch \in {NoBranch} \cup 0..n
                         /\ e.branch = NoBranch <=> e.kind = "child"
        /\ e.kind \in {"created", "turn"} => e.by \in own
        /\ e.kind \in {"turn", "intent"} => Declared(l, n - 1, e.branch)
        /\ e.kind \in {"intent", "closed"} => e.of \in 1..(n - 1) /\ l[e.of].kind = "turn"
        /\ e.kind \in {"started", "result"} => e.of \in 1..(n - 1) /\ l[e.of].kind = "intent"
        /\ e.kind \in {"intent", "started"} => e.by = l[e.of].by

OneChild(l) == \A m, n \in 1..Len(l) : l[m].kind = "child" /\ l[n].kind = "child" => m = n

LogIsSound(l, own) ==
    /\ OneChild(l)
    /\ \A n \in 1..Len(l) : EventIsSound(l, n, own)
    /\ SealedUnseen(l) \/ \A n \in 1..Len(l) : Readable(l, n)

LogsAreSound ==
    log \in [Runs -> Seq(Events(Procs))] /\ \A r \in Runs : LogIsSound(log[r], owners[r])

Dead == {p \in Procs : ~Alive(p)}

(* From its fork on a process writes to its branch. *)
Writing == {"selecting", "publishing", "registering"} \cup Open

Recovering == {"planning", "sealing"}

(* The run is written by nobody but the process that is to create it ... *)
OriginIsSound(s, l) ==
    /\ s.branch = Main /\ s.at \in {"registering", "ready"}
    /\ s.turn = 0 /\ s.op = 0
    /\ Len(l) <= 1 /\ (s.tip = 0 <=> Len(l) = 0)

WorkIsOpen(s, l) ==
    /\ s.turn # 0 => s.turn \in TurnsOpen(l, Len(l))
    /\ s.op # 0 => s.op \in OpsOpen(l, Len(l))
    /\ s.turn # 0 => \A o \in OpsOpen(l, Len(l)) : l[o].of = s.turn => o = s.op

(* ... and afterwards its tip, turn and operation are those of the log. *)
WriterIsCurrent(s, l) == s.tip = Tip(l, Len(l), s.branch) /\ WorkIsOpen(s, l)

WorkIsOwn(p, s, l) ==
    /\ s.turn # 0 => s.turn \in 1..Len(l) /\ l[s.turn].kind = "turn" /\ l[s.turn].by = p
    /\ s.op # 0 => s.op \in 1..Len(l) /\ l[s.op].kind = "intent" /\ l[s.op].by = p

WriterIsSound(p, s, l, own) ==
    /\ \A n \in 1..Len(l) : ~IsSeal(l[n]) /\ l[n].branch = s.branch => l[n].by = p
    /\ s.fresh => OriginIsSound(s, l)
    /\ ~s.fresh => /\ Len(l) >= 2 /\ Declared(l, Len(l), s.branch)
                   /\ SealedUnseen(l) \/ WriterIsCurrent(s, l)
    /\ s.at \in Open => p \in own
    /\ s.at \notin Open => s.turn = 0 /\ s.op = 0
    /\ WorkIsOwn(p, s, l)

(* The closing events appended so far are those of the plan, in its order. *)
SealsFollowPlan(s, l) ==
    LET plan == Seals(SubSeq(l, 1, s.seen))
    IN  /\ s.seen + s.done <= Len(l)
        /\ s.done <= Len(plan)
        /\ \A i \in 1..s.done : /\ IsSeal(l[s.seen + i])
                                /\ l[s.seen + i].kind = plan[i].kind
                                /\ l[s.seen + i].of = plan[i].of

(* Whoever began the run or a turn that could be seen was dead. *)
OwnersWereDead(s, l, dead) ==
    /\ s.checked \in 1..Len(l)
    /\ \A n \in 1..s.checked : l[n].kind \in {"created", "turn"} => l[n].by \in dead

HoldsNothing(s) == ~s.fresh /\ s.turn = 0 /\ s.op = 0

(* What is to hold of process p in state s, given the log of its run, the      *)
(* run's owners and the processes that are dead.                               *)
ProcIsSound(p, s, l, own, dead) ==
    /\ s.at \in {"asking", "forking"} \cup Recovering => Len(l) >= 2
    /\ s.at \in {"asking", "planning"} => s.done = 0
    /\ s.at \in Recovering => OwnersWereDead(s, l, dead)
    /\ s.at = "sealing" => SealsFollowPlan(s, l)
    /\ s.at = "forking" => Declared(l, Len(l), s.branch)
    /\ s.at \in Writing => WriterIsSound(p, s, l, own)
    /\ s.at \notin Writing => HoldsNothing(s)

ProcsAreSound ==
    \A p \in Procs : proc[p].at \in Opening \cup Open =>
        /\ proc[p].run \in Runs
        /\ ProcIsSound(p, proc[p], log[proc[p].run], owners[proc[p].run], Dead)

BranchesAreApart ==
    \A p, q \in Procs :
        /\ p # q /\ proc[p].run = proc[q].run
        /\ proc[p].at \in Writing /\ proc[q].at \in Writing
        => proc[p].branch # proc[q].branch

IInv ==
    /\ TypeOK /\ LogsAreSound /\ ProcsAreSound /\ BranchesAreApart
    /\ SealsOnlyTheDead /\ EffectsAreNotDenied /\ BranchHasOneWriter
-----------------------------------------------------------------------------
(* Numbers, and sets of them in order. *)

LEMMA LeastNumber ==
  ASSUME NEW S \in SUBSET Nat, S # {}
  PROVE  \E m \in S : \A n \in S : m <= n
<1> DEFINE R == OpToRel(<, Nat)
<1>1. IsWellFoundedOn(R, Nat)
  BY NatLessThanWellFounded
<1>2. ASSUME NEW m \in Nat, NEW n \in Nat, m < n PROVE <<m, n>> \in R
  BY <1>2 DEF OpToRel
<1> HIDE DEF R
<1>3. PICK m \in S : \A n \in S : ~(<<n, m>> \in R)
  BY <1>1, WFMin
<1>4. ASSUME NEW n \in S PROVE m <= n
  <2>1. m \in Nat /\ n \in Nat /\ ~(n < m)
    BY <1>2, <1>3
  <2>2. QED
    BY <2>1
<1>5. QED
  BY <1>4

LEMMA MinIsLeast ==
  ASSUME NEW S \in SUBSET Nat, S # {}
  PROVE  Min(S) \in S /\ \A n \in S : Min(S) <= n
<1>1. \E m \in S : \A n \in S : m <= n
  BY LeastNumber
<1>2. QED
  BY <1>1 DEF Min

LEMMA MaxIsGreatest ==
  ASSUME NEW S \in SUBSET Nat, S # {}, NEW b \in Nat, \A n \in S : n <= b
  PROVE  Max(S) \in S /\ \A n \in S : n <= Max(S)
<1> DEFINE Bounds == {c \in Nat : \A n \in S : n <= c}
<1>1. PICK c \in Bounds : \A d \in Bounds : c <= d
  <2>1. Bounds \in SUBSET Nat /\ b \in Bounds
    OBVIOUS
  <2> HIDE DEF Bounds
  <2>2. QED
    BY <2>1, LeastNumber
<1>2. c \in S
  <2>1. SUFFICES ASSUME c \notin S PROVE FALSE
    OBVIOUS
  <2>2. PICK n \in S : TRUE
    OBVIOUS
  <2>3. c - 1 \in Nat
    <3>1. n \in Nat /\ c \in Nat /\ n <= c /\ n # c
      BY <2>1
    <3>2. QED
      BY <3>1
  <2>4. ASSUME NEW k \in S PROVE k <= c - 1
    <3>1. k \in Nat /\ c \in Nat /\ k <= c /\ k # c
      BY <2>1
    <3>2. QED
      BY <3>1
  <2>5. c - 1 \in Bounds
    BY <2>3, <2>4
  <2>6. c \in Nat /\ c <= c - 1
    BY <1>1, <2>5
  <2>7. QED
    BY <2>6
<1>3. ASSUME NEW n \in S PROVE c >= n
  OBVIOUS
<1>4. \E x \in S : \A y \in S : x >= y
  BY <1>2, <1>3
<1>5. Max(S) \in S /\ \A y \in S : Max(S) >= y
  BY <1>4 DEF Max
<1>6. ASSUME NEW n \in S PROVE n <= Max(S)
  <2>1. n \in Nat /\ Max(S) \in Nat /\ Max(S) >= n
    BY <1>5
  <2>2. QED
    BY <2>1
<1>7. QED
  BY <1>5, <1>6

(* s lists members of S, youngest last. *)
Lists(s, S, age) ==
    /\ s \in [1..Cardinality(S) -> S]
    /\ \A i, j \in 1..Cardinality(S) : i < j => age[s[i]] < age[s[j]]

(* The oldest member before the others. *)
LEMMA OldestFirst ==
  ASSUME NEW S, IsFiniteSet(S), NEW age \in [S -> Nat],
         \A x, y \in S : age[x] = age[y] => x = y,
         S # {}, \A x \in S : \E s : Lists(s, S \ {x}, age)
  PROVE  \E s : Lists(s, S, age)
<1> DEFINE Ages == {age[x] : x \in S}
<1>1. PICK x \in S : \A y \in S : age[x] <= age[y]
  <2>1. Ages \in SUBSET Nat /\ Ages # {}
    OBVIOUS
  <2> HIDE DEF Ages
  <2>2. PICK a \in Ages : \A b \in Ages : a <= b
    BY <2>1, LeastNumber
  <2>3. QED
    BY <2>2 DEF Ages
<1> DEFINE n == Cardinality(S)
           m == Cardinality(S \ {x})
<1>2. n \in Nat /\ m \in Nat /\ m = n - 1
  <2>1. n \in Nat
    BY FS_CardinalityType
  <2>2. IsFiniteSet(S \ {x}) /\ m = n - 1
    BY FS_RemoveElement
  <2>3. m \in Nat
    BY <2>2, FS_CardinalityType
  <2>4. QED
    BY <2>1, <2>2, <2>3
<1>3. PICK s : s \in [1..m -> S \ {x}] /\ \A i, j \in 1..m : i < j => age[s[i]] < age[s[j]]
  BY DEF Lists
<1> DEFINE t == [i \in 1..n |-> IF i = 1 THEN x ELSE s[i - 1]]
<1> HIDE DEF n, m
<1>4. ASSUME NEW i \in 1..n, i # 1 PROVE i - 1 \in 1..m /\ t[i] = s[i - 1] /\ t[i] \in S \ {x}
  BY <1>2, <1>3, <1>4
<1>5. t \in [1..n -> S]
  BY <1>4
<1>6. ASSUME NEW i \in 1..n, NEW j \in 1..n, i < j PROVE age[t[i]] < age[t[j]]
  <2>1. j # 1
    BY <1>2, <1>6
  <2>2. CASE i = 1
    <3>1. t[i] = x /\ t[j] \in S /\ t[j] # x
      BY <1>4, <2>1, <2>2
    <3>2. age[x] \in Nat /\ age[t[j]] \in Nat /\ age[x] <= age[t[j]] /\ age[x] # age[t[j]]
      BY <1>1, <3>1
    <3>3. QED
      BY <3>1, <3>2
  <2>3. CASE i # 1
    <3>1. i - 1 < j - 1
      BY <1>2, <1>6
    <3>2. QED
      BY <1>3, <1>4, <2>1, <2>3, <3>1
  <2>4. QED
    BY <2>2, <2>3
<1>7. QED
  BY <1>5, <1>6 DEF Lists, n

LEMMA ListsExist ==
  ASSUME NEW S, IsFiniteSet(S), NEW age \in [S -> Nat],
         \A x, y \in S : age[x] = age[y] => x = y
  PROVE  \E s : Lists(s, S, age)
<1> DEFINE Without == {k \in Nat : \E T \in SUBSET S :
                          Cardinality(T) = k /\ ~\E s : Lists(s, T, [x \in T |-> age[x]])}
<1>1. ASSUME NEW T, NEW s
      PROVE  Lists(s, T, [x \in T |-> age[x]]) <=> Lists(s, T, age)
  <2>1. ASSUME s \in [1..Cardinality(T) -> T], NEW i \in 1..Cardinality(T)
        PROVE  [x \in T |-> age[x]][s[i]] = age[s[i]]
    BY <2>1
  <2>2. QED
    BY <2>1 DEF Lists
<1>2. SUFFICES ASSUME Without # {} PROVE FALSE
  <2>1. Cardinality(S) \in Nat /\ S \in SUBSET S
    BY FS_CardinalityType
  <2>2. \E s : Lists(s, S, [x \in S |-> age[x]])
    BY <1>2, <2>1
  <2>3. QED
    BY <1>1, <2>2
<1>3. PICK k \in Without : \A j \in Without : k <= j
  <2>1. Without \in SUBSET Nat
    OBVIOUS
  <2> HIDE DEF Without
  <2>2. QED
    BY <1>2, <2>1, LeastNumber
<1>4. PICK T \in SUBSET S : Cardinality(T) = k /\ ~\E s : Lists(s, T, age)
  BY <1>1, <1>3
<1>5. IsFiniteSet(T)
  BY FS_Subset
<1>6. CASE T = {}
  <2>1. Cardinality(T) = 0
    BY <1>6, FS_EmptySet
  <2>2. Lists([i \in 1..0 |-> i], T, age)
    BY <2>1 DEF Lists
  <2>3. QED
    BY <1>4, <2>2
<1>7. CASE T # {}
  <2>1. ASSUME NEW x \in T PROVE \E s : Lists(s, T \ {x}, age)
    <3>1. IsFiniteSet(T \ {x}) /\ Cardinality(T \ {x}) = Cardinality(T) - 1
      BY <1>5, FS_RemoveElement
    <3>2. Cardinality(T \ {x}) \in Nat
      BY <3>1, FS_CardinalityType
    <3>3. Cardinality(T \ {x}) \notin Without
      <4>1. k \in Nat /\ ~(k <= k - 1)
        BY <1>3
      <4>2. QED
        BY <1>3, <1>4, <3>1, <4>1
    <3>4. T \ {x} \in SUBSET S
      OBVIOUS
    <3>5. QED
      BY <1>1, <3>2, <3>3, <3>4
  <2> DEFINE f == [x \in T |-> age[x]]
  <2>2. f \in [T -> Nat] /\ \A x, y \in T : f[x] = f[y] => x = y
    OBVIOUS
  <2>3. ASSUME NEW x \in T PROVE \E s : Lists(s, T \ {x}, f)
    <3>1. PICK s : Lists(s, T \ {x}, age)
      BY <2>1
    <3>2. ASSUME NEW i \in 1..Cardinality(T \ {x}) PROVE s[i] \in T /\ f[s[i]] = age[s[i]]
      BY <3>1 DEF Lists
    <3> HIDE DEF f
    <3>3. Lists(s, T \ {x}, f)
      BY <3>1, <3>2 DEF Lists
    <3>4. QED
      BY <3>3
  <2>4. \E s : Lists(s, T, f)
    <3> HIDE DEF f
    <3>1. QED
      BY <1>5, <1>7, <2>2, <2>3, OldestFirst
  <2>5. QED
    BY <1>1, <1>4, <2>4
<1>8. QED
  BY <1>6, <1>7

(* ByAge lists every member, none twice. *)
LEMMA ByAgeLists ==
  ASSUME NEW S, IsFiniteSet(S), NEW age \in [S -> Nat],
         \A x, y \in S : age[x] = age[y] => x = y
  PROVE  /\ Cardinality(S) \in Nat
         /\ ByAge(S, age) \in [1..Cardinality(S) -> S]
         /\ \A i, j \in 1..Cardinality(S) : ByAge(S, age)[i] = ByAge(S, age)[j] => i = j
         /\ \A x \in S : \E i \in 1..Cardinality(S) : ByAge(S, age)[i] = x
<1> DEFINE n == Cardinality(S)
           s == ByAge(S, age)
<1>1. n \in Nat
  BY FS_CardinalityType
<1>2. s \in [1..n -> S] /\ \A i, j \in 1..n : i < j => age[s[i]] < age[s[j]]
  <2>1. \E t : Lists(t, S, age)
    BY ListsExist
  <2>2. QED
    BY <2>1 DEF Lists, ByAge
<1> HIDE DEF s
<1>3. ASSUME NEW i \in 1..n, NEW j \in 1..n, s[i] = s[j] PROVE i = j
  <2>1. age[s[i]] \in Nat /\ age[s[j]] = age[s[i]]
    BY <1>2, <1>3
  <2>2. ~(i < j) /\ ~(j < i)
    BY <1>2, <2>1
  <2>3. QED
    BY <1>1, <2>2
<1>4. s \in Injection(1..n, S)
  BY <1>2, <1>3 DEF Injection, IsInjective
<1>5. IsFiniteSet(1..n) /\ Cardinality(1..n) = n
  BY <1>1, FS_Interval
<1>6. s \in Surjection(1..n, S)
  BY <1>4, <1>5, FS_Injection
<1>7. QED
  BY <1>1, <1>2, <1>3, <1>6 DEF Surjection, s
-----------------------------------------------------------------------------
(* Readings of a log. *)

LEMMA AppendIs ==
  ASSUME NEW S, NEW l \in Seq(S), NEW e \in S
  PROVE  /\ Append(l, e) \in Seq(S)
         /\ Len(l) \in Nat /\ Len(Append(l, e)) = Len(l) + 1
         /\ \A n \in 1..Len(l) : Append(l, e)[n] = l[n]
         /\ Append(l, e)[Len(l) + 1] = e
  OBVIOUS

Agree(k, n, l) == \A m \in 1..n : k[m] = l[m]

(* What the first n events leave does not depend on later ones. *)
LEMMA SameReading ==
  ASSUME NEW k, NEW l, NEW n \in Nat, Agree(k, n, l)
  PROVE  /\ \A b : Declared(k, n, b) <=> Declared(l, n, b)
         /\ AnyDeclared(k, n) <=> AnyDeclared(l, n)
         /\ \A b : Tip(k, n, b) = Tip(l, n, b)
         /\ \A kind, id : About(k, n, kind, id) = About(l, n, kind, id)
         /\ TurnsOpen(k, n) = TurnsOpen(l, n)
         /\ OpsOpen(k, n) = OpsOpen(l, n)
         /\ \A o : Crossed(k, n, o) <=> Crossed(l, n, o)
<1>1. \A m \in 1..n : k[m] = l[m]
  BY DEF Agree
<1>2. \A b : Declared(k, n, b) <=> Declared(l, n, b)
  BY <1>1 DEF Declared
<1>3. AnyDeclared(k, n) <=> AnyDeclared(l, n)
  BY <1>1 DEF AnyDeclared
<1>4. ASSUME NEW b PROVE Tip(k, n, b) = Tip(l, n, b)
  <2>1. {m \in 1..n : k[m].branch = b} = {m \in 1..n : l[m].branch = b}
    BY <1>1
  <2>2. QED
    BY <2>1 DEF Tip
<1>5. ASSUME NEW kind, NEW id PROVE About(k, n, kind, id) = About(l, n, kind, id)
  BY <1>1 DEF About
<1>6. TurnsOpen(k, n) = TurnsOpen(l, n)
  BY <1>1, <1>5 DEF TurnsOpen
<1>7. OpsOpen(k, n) = OpsOpen(l, n)
  BY <1>1, <1>5 DEF OpsOpen
<1>8. \A o : Crossed(k, n, o) <=> Crossed(l, n, o)
  BY <1>5 DEF Crossed
<1>9. QED
  BY <1>2, <1>3, <1>4, <1>5, <1>6, <1>7, <1>8

(* restore_conversation judges an event by the ones before it. *)
LEMMA SameJudgement ==
  ASSUME NEW k, NEW l, NEW n \in Nat \ {0}, Agree(k, n, l)
  PROVE  Readable(k, n) <=> Readable(l, n)
<1>1. n - 1 \in Nat /\ k[n] = l[n] /\ Agree(k, n - 1, l)
  BY DEF Agree
<1>2. /\ \A b : Declared(k, n - 1, b) <=> Declared(l, n - 1, b)
      /\ AnyDeclared(k, n - 1) <=> AnyDeclared(l, n - 1)
      /\ \A b : Tip(k, n - 1, b) = Tip(l, n - 1, b)
      /\ TurnsOpen(k, n - 1) = TurnsOpen(l, n - 1)
      /\ OpsOpen(k, n - 1) = OpsOpen(l, n - 1)
      /\ \A o : Crossed(k, n - 1, o) <=> Crossed(l, n - 1, o)
  BY <1>1, SameReading
<1>3. \A o \in OpsOpen(l, n - 1) : k[o] = l[o]
  BY <1>1 DEF OpsOpen, Agree
<1>4. ExtendsTip(k, n) <=> ExtendsTip(l, n)
  BY <1>1, <1>2 DEF ExtendsTip
<1>5. OnKnownBranch(k, n) <=> OnKnownBranch(l, n)
  BY <1>1, <1>2 DEF OnKnownBranch
<1>6. InOrder(k, n) <=> InOrder(l, n)
  BY <1>1, <1>2, <1>3 DEF InOrder
<1>7. Foreign(k, n) <=> Foreign(l, n)
  BY <1>1 DEF Foreign, AgentOf
<1>8. QED
  BY <1>4, <1>5, <1>6, <1>7 DEF Readable, Fits

LEMMA TipIs ==
  ASSUME NEW l, NEW n \in Nat, NEW b
  PROVE  /\ Tip(l, n, b) \in 0..n
         /\ Tip(l, n, b) # 0 => l[Tip(l, n, b)].branch = b
         /\ \A m \in 1..n : l[m].branch = b => m <= Tip(l, n, b)
<1> DEFINE S == {0} \cup {m \in 1..n : l[m].branch = b}
<1>1. S \in SUBSET Nat /\ S # {} /\ (\A m \in S : m <= n) /\ S \subseteq 0..n
  OBVIOUS
<1>2. Max(S) \in S /\ \A m \in S : m <= Max(S)
  <2> HIDE DEF S
  <2>1. QED
    BY <1>1, MaxIsGreatest
<1>3. Tip(l, n, b) = Max(S)
  BY DEF Tip
<1>4. QED
  BY <1>1, <1>2, <1>3

LEMMA TipIsThat ==
  ASSUME NEW l, NEW n \in Nat, NEW b, NEW t \in 0..n,
         t # 0 => l[t].branch = b,
         \A m \in 1..n : l[m].branch = b => m <= t
  PROVE  Tip(l, n, b) = t
<1>1. /\ Tip(l, n, b) \in 0..n
      /\ Tip(l, n, b) # 0 => l[Tip(l, n, b)].branch = b
      /\ \A m \in 1..n : l[m].branch = b => m <= Tip(l, n, b)
  BY TipIs
<1>2. QED
  BY <1>1

(* What one more event makes of each reading. *)
LEMMA OneMoreEvent ==
  ASSUME NEW S, NEW l \in Seq(S), NEW e \in S, NEW k, k = Append(l, e)
  PROVE  /\ \A n \in 0..Len(l) : Agree(k, n, l)
         /\ \A b : Declared(k, Len(k), b) <=> Declared(l, Len(l), b) \/ (Declares(e) /\ e.branch = b)
<1> DEFINE n == Len(l)
<1>1. /\ n \in Nat /\ Len(k) = n + 1 /\ k[n + 1] = e
      /\ \A m \in 1..n : k[m] = l[m]
  BY AppendIs
<1> HIDE DEF n
<1>2. \A m \in 0..n : Agree(k, m, l)
  BY <1>1 DEF Agree
<1>3. 1..(n + 1) = 1..n \cup {n + 1}
  BY <1>1
<1>4. ASSUME NEW b
      PROVE  Declared(k, n + 1, b) <=> Declared(l, n, b) \/ (Declares(e) /\ e.branch = b)
  <2>1. Declared(k, n + 1, b) <=> Declared(k, n, b) \/ (Declares(k[n + 1]) /\ k[n + 1].branch = b)
    BY <1>3 DEF Declared
  <2>2. Declared(k, n, b) <=> Declared(l, n, b)
    BY <1>1 DEF Declared
  <2>3. QED
    BY <1>1, <2>1, <2>2
<1>5. QED
  BY <1>1, <1>2, <1>4 DEF n

LEMMA OneMoreTip ==
  ASSUME NEW S, NEW l \in Seq(S), NEW e \in S, NEW b
  PROVE  Tip(Append(l, e), Len(l) + 1, b) =
             IF b = e.branch THEN Len(l) + 1 ELSE Tip(l, Len(l), b)
<1> DEFINE n == Len(l)
           k == Append(l, e)
           t == IF b = e.branch THEN n + 1 ELSE Tip(l, n, b)
<1>1. n \in Nat /\ k[n + 1] = e /\ \A m \in 1..n : k[m] = l[m]
  BY AppendIs
<1> HIDE DEF n, k
<1>2. 1..(n + 1) = 1..n \cup {n + 1}
  BY <1>1
<1>3. /\ Tip(l, n, b) \in 0..n
      /\ Tip(l, n, b) # 0 => l[Tip(l, n, b)].branch = b
      /\ \A m \in 1..n : l[m].branch = b => m <= Tip(l, n, b)
  BY <1>1, TipIs
<1>4. t \in 0..(n + 1)
  BY <1>1, <1>3
<1>5. t # 0 => k[t].branch = b
  <2>1. CASE b = e.branch
    BY <1>1, <2>1
  <2>2. CASE b # e.branch
    <3>1. t # 0 => t \in 1..n
      BY <1>1, <1>3, <2>2
    <3>2. QED
      BY <1>1, <1>3, <2>2, <3>1
  <2>3. QED
    BY <2>1, <2>2
<1>6. ASSUME NEW m \in 1..(n + 1), k[m].branch = b PROVE m <= t
  <2>1. CASE m = n + 1
    BY <1>1, <1>6, <2>1
  <2>2. CASE m \in 1..n
    <3>1. l[m].branch = b
      BY <1>1, <1>6, <2>2
    <3>2. QED
      BY <1>1, <1>3, <2>2, <3>1
  <2>3. QED
    BY <1>2, <2>1, <2>2
<1> HIDE DEF t
<1>7. n + 1 \in Nat
  BY <1>1
<1>8. Tip(k, n + 1, b) = t
  BY <1>4, <1>5, <1>6, <1>7, TipIsThat
<1>9. QED
  BY <1>8 DEF t, n, k

(* What is left open: no event is about one that comes after it. *)
LEMMA OneMoreOpen ==
  ASSUME NEW S, NEW l \in Seq(S), NEW e \in S, NEW k, k = Append(l, e),
         \A n \in 1..Len(l) : l[n].kind \in {"closed", "result"} => l[n].of \in 1..(n - 1)
  PROVE  /\ \A t : t \in TurnsOpen(k, Len(k)) <=>
                \/ t \in TurnsOpen(l, Len(l)) /\ ~(e.kind = "closed" /\ e.of = t)
                \/ t = Len(k) /\ e.kind = "turn"
         /\ \A o : o \in OpsOpen(k, Len(k)) <=>
                \/ o \in OpsOpen(l, Len(l)) /\ ~(e.kind = "result" /\ e.of = o)
                \/ o = Len(k) /\ e.kind = "intent"
<1> DEFINE n == Len(l)
<1>1. /\ n \in Nat /\ Len(k) = n + 1 /\ k[n + 1] = e
      /\ \A m \in 1..n : k[m] = l[m]
  BY AppendIs
<1>2. ASSUME NEW kind, NEW id
      PROVE  About(k, n + 1, kind, id) = {} <=> About(l, n, kind, id) = {}
                                                  /\ ~(e.kind = kind /\ e.of = id)
  <2>1. 1..(n + 1) = 1..n \cup {n + 1}
    BY <1>1
  <2>2. About(k, n + 1, kind, id) =
            About(l, n, kind, id) \cup {m \in {n + 1} : e.kind = kind /\ e.of = id}
    BY <1>1, <2>1 DEF About
  <2>3. QED
    BY <2>2
<1>3. About(l, n, "closed", n + 1) = {} /\ About(l, n, "result", n + 1) = {}
  BY <1>1 DEF About
<1> HIDE DEF n
<1>4. 1..(n + 1) = 1..n \cup {n + 1} /\ n + 1 \notin 1..n
  BY <1>1
<1>5. ASSUME NEW t
      PROVE  t \in TurnsOpen(k, n + 1) <=>
                \/ t \in TurnsOpen(l, n) /\ ~(e.kind = "closed" /\ e.of = t)
                \/ t = n + 1 /\ e.kind = "turn"
  <2>1. CASE t \in 1..n
    BY <1>1, <1>2, <1>4, <2>1 DEF TurnsOpen
  <2>2. CASE t = n + 1
    BY <1>1, <1>2, <1>3, <1>4, <2>2 DEF TurnsOpen
  <2>3. CASE t \notin 1..(n + 1)
    BY <1>4, <2>3 DEF TurnsOpen
  <2>4. QED
    BY <1>4, <2>1, <2>2, <2>3
<1>6. ASSUME NEW o
      PROVE  o \in OpsOpen(k, n + 1) <=>
                \/ o \in OpsOpen(l, n) /\ ~(e.kind = "result" /\ e.of = o)
                \/ o = n + 1 /\ e.kind = "intent"
  <2>1. CASE o \in 1..n
    BY <1>1, <1>2, <1>4, <2>1 DEF OpsOpen
  <2>2. CASE o = n + 1
    BY <1>1, <1>2, <1>3, <1>4, <2>2 DEF OpsOpen
  <2>3. CASE o \notin 1..(n + 1)
    BY <1>4, <2>3 DEF OpsOpen
  <2>4. QED
    BY <1>4, <2>1, <2>2, <2>3
<1>7. QED
  BY <1>1, <1>5, <1>6 DEF n

(* Later events take nothing back from what holds of an earlier one. *)
LEMMA EventStaysSound ==
  ASSUME NEW k, NEW l, NEW n \in Nat \ {0}, Agree(k, n, l), NEW own, NEW more, own \subseteq more,
         EventIsSound(l, n, own)
  PROVE  EventIsSound(k, n, more)
<1>1. k[n] = l[n] /\ n - 1 \in Nat /\ Agree(k, n - 1, l)
  BY DEF Agree
<1>2. \A b : Declared(k, n - 1, b) <=> Declared(l, n - 1, b)
  BY <1>1, SameReading
<1>3. \A m \in 1..(n - 1) : k[m] = l[m]
  BY <1>1 DEF Agree
<1>4. QED
  BY <1>1, <1>2, <1>3 DEF EventIsSound

LEMMA SealedUnseenStays ==
  ASSUME NEW own, NEW l \in Seq(Events(Procs)), NEW e \in Events(Procs), SealedUnseen(l),
         \A n \in 1..Len(l) : EventIsSound(l, n, own)
  PROVE  SealedUnseen(Append(l, e))
<1> DEFINE k == Append(l, e)
<1>1. /\ Len(l) \in Nat /\ Len(k) = Len(l) + 1
      /\ \A m \in 1..Len(l) : k[m] = l[m]
  BY AppendIs
<1>2. DOMAIN l = 1..Len(l) /\ DOMAIN k = 1..Len(k)
  OBVIOUS
<1> HIDE DEF k
<1>3. PICK n \in 1..Len(l) : SealsWork(l, n) /\ TurnSealed(l, n) > l[n].checked
  BY <1>2 DEF SealedUnseen
<1>4. l[n].kind = "result" => l[n].of \in 1..Len(l)
  <2>1. l[n].kind = "result" => l[n].of \in 1..(n - 1)
    BY DEF EventIsSound
  <2>2. QED
    BY <1>1, <2>1
<1>5. SealsWork(k, n) /\ TurnSealed(k, n) = TurnSealed(l, n)
  BY <1>1, <1>3, <1>4 DEF SealsWork, TurnSealed
<1>6. n \in DOMAIN k
  BY <1>1, <1>2
<1>7. k[n].checked = l[n].checked
  BY <1>1
<1>8. QED
  BY <1>3, <1>5, <1>6, <1>7 DEF SealedUnseen, k

(* A log stays sound when what is appended is. *)
LEMMA LogStaysSound ==
  ASSUME NEW own, NEW more, own \subseteq more, NEW l \in Seq(Events(Procs)), LogIsSound(l, own),
         NEW e \in Events(Procs), NEW k, k = Append(l, e),
         EventIsSound(k, Len(k), more),
         e.kind = "child" => \A n \in 1..Len(l) : l[n].kind # "child",
         SealedUnseen(k) \/ SealedUnseen(l) \/ Readable(k, Len(k))
  PROVE  LogIsSound(k, more)
<1>1. /\ Len(l) \in Nat /\ Len(k) = Len(l) + 1 /\ k[Len(l) + 1] = e
      /\ \A m \in 1..Len(l) : k[m] = l[m]
  BY AppendIs
<1>2. 1..Len(k) = 1..Len(l) \cup {Len(k)}
  BY <1>1
<1>3. OneChild(k)
  BY <1>1, <1>2 DEF LogIsSound, OneChild
<1>4. \A n \in 0..Len(l) : Agree(k, n, l)
  BY OneMoreEvent
<1>5. ASSUME NEW n \in 1..Len(l) PROVE EventIsSound(k, n, more)
  <2>1. n \in Nat \ {0} /\ Agree(k, n, l) /\ EventIsSound(l, n, own)
    BY <1>1, <1>4 DEF LogIsSound
  <2>2. QED
    BY <2>1, EventStaysSound
<1>6. SealedUnseen(k) \/ \A n \in 1..Len(k) : Readable(k, n)
  <2>1. CASE SealedUnseen(l)
    BY <2>1, SealedUnseenStays DEF LogIsSound
  <2>2. CASE ~SealedUnseen(l)
    <3>1. ASSUME NEW n \in 1..Len(l) PROVE Readable(k, n)
      <4>1. n \in Nat \ {0} /\ Agree(k, n, l) /\ Readable(l, n)
        BY <1>1, <1>4, <2>2 DEF LogIsSound
      <4>2. QED
        BY <4>1, SameJudgement
    <3>2. QED
      BY <1>2, <2>2, <3>1
  <2>3. QED
    BY <2>1, <2>2
<1>7. QED
  BY <1>2, <1>3, <1>5, <1>6 DEF LogIsSound
-----------------------------------------------------------------------------
(* What another process's event leaves of a process. *)

(* Event e is not about the branch, the turn or the operation of a process in  *)
(* state s, or it is the closing event of SealedUnseen.                        *)
Harmless(s, l, e) ==
    s.at \in Writing =>
        /\ ~s.fresh
        /\ ~IsSeal(e) => e.branch # s.branch
        /\ e.kind = "intent" /\ s.turn # 0 => e.of # s.turn
        /\ \/ e.branch = s.branch
           \/ e.kind = "closed" /\ s.turn # 0 /\ e.of = s.turn
           \/ e.kind = "result" /\ s.op # 0 /\ e.of = s.op
           => SealedUnseen(Append(l, e))

LEMMA SamePrefix ==
  ASSUME NEW S, NEW l \in Seq(S), NEW e \in S, NEW n \in 0..Len(l)
  PROVE  SubSeq(Append(l, e), 1, n) = SubSeq(l, 1, n)
<1>1. /\ Len(l) \in Nat /\ n \in Int /\ 1 \in Int
      /\ \A i \in 1..n : Append(l, e)[i] = l[i] /\ l[i] \in S
  OBVIOUS
<1>2. /\ SubSeq(Append(l, e), 1, n) \in Seq(S) /\ SubSeq(l, 1, n) \in Seq(S)
      /\ Len(SubSeq(Append(l, e), 1, n)) = Len(SubSeq(l, 1, n))
      /\ Len(SubSeq(l, 1, n)) = n
      /\ \A i \in 1..n : SubSeq(Append(l, e), 1, n)[i] = SubSeq(l, 1, n)[i]
  <2>1. /\ SubSeq(l, 1, n) \in Seq(S)
        /\ Len(SubSeq(l, 1, n)) = IF 1 <= n THEN n - 1 + 1 ELSE 0
        /\ \A i \in 1..(n - 1 + 1) : SubSeq(l, 1, n)[i] = l[1 + i - 1]
    BY <1>1, SubSeqProperties
  <2>2. /\ SubSeq(Append(l, e), 1, n) \in Seq(S)
        /\ Len(SubSeq(Append(l, e), 1, n)) = IF 1 <= n THEN n - 1 + 1 ELSE 0
        /\ \A i \in 1..(n - 1 + 1) : SubSeq(Append(l, e), 1, n)[i] = Append(l, e)[1 + i - 1]
    BY <1>1, SubSeqProperties
  <2>3. n - 1 + 1 = n /\ (~(1 <= n) => n = 0) /\ \A i \in 1..n : 1 + i - 1 = i
    BY <1>1
  <2>4. QED
    BY <1>1, <2>1, <2>2, <2>3
<1>3. QED
  BY <1>2

LEMMA SealsStillFollow ==
  ASSUME NEW l \in Seq(Events(Procs)), NEW e \in Events(Procs), NEW s \in ProcRecord,
         SealsFollowPlan(s, l)
  PROVE  SealsFollowPlan(s, Append(l, e))
<1> DEFINE k == Append(l, e)
<1>1. /\ Len(l) \in Nat /\ Len(k) = Len(l) + 1
      /\ \A n \in 1..Len(l) : k[n] = l[n]
  BY AppendIs
<1>2. s.seen \in Nat /\ s.done \in Nat /\ s.seen + s.done <= Len(l)
  BY DEF ProcRecord, SealsFollowPlan
<1>3. s.seen \in 0..Len(l)
  BY <1>1, <1>2
<1>4. SubSeq(k, 1, s.seen) = SubSeq(l, 1, s.seen)
  BY <1>3, SamePrefix
<1>5. ASSUME NEW i \in 1..s.done PROVE k[s.seen + i] = l[s.seen + i]
  BY <1>1, <1>2
<1> HIDE DEF k
<1>6. s.seen + s.done <= Len(k)
  BY <1>1, <1>2
<1> SUFFICES SealsFollowPlan(s, k)
  BY DEF k
<1>7. QED
  BY <1>4, <1>5, <1>6 DEF SealsFollowPlan

(* What a writer remembers of the log stays true of it. *)
LEMMA WriterStaysCurrent ==
  ASSUME NEW own, NEW l \in Seq(Events(Procs)), NEW e \in Events(Procs), NEW s \in ProcRecord,
         LogIsSound(l, own), Harmless(s, l, e), s.at \in Writing,
         SealedUnseen(l) \/ WriterIsCurrent(s, l),
         s.turn # 0 => s.turn \in 1..Len(l)
  PROVE  SealedUnseen(Append(l, e)) \/ WriterIsCurrent(s, Append(l, e))
<1> DEFINE k == Append(l, e)
<1>1. /\ Len(l) \in Nat /\ Len(k) = Len(l) + 1
      /\ \A n \in 1..Len(l) : k[n] = l[n]
  BY AppendIs
<1>2. CASE SealedUnseen(l)
  BY <1>2, SealedUnseenStays DEF LogIsSound
<1>3. CASE ~SealedUnseen(l)
  <2>1. SUFFICES ASSUME ~SealedUnseen(k) PROVE WriterIsCurrent(s, k)
    OBVIOUS
  <2>2. /\ e.branch # s.branch
        /\ e.kind = "intent" /\ s.turn # 0 => e.of # s.turn
        /\ ~(e.kind = "closed" /\ s.turn # 0 /\ e.of = s.turn)
        /\ ~(e.kind = "result" /\ s.op # 0 /\ e.of = s.op)
    BY <2>1 DEF Harmless
  <2>3. Tip(k, Len(k), s.branch) = Tip(l, Len(l), s.branch)
    BY <1>1, <2>2, OneMoreTip
  <2>4. \A n \in 1..Len(l) : l[n].kind \in {"closed", "result"} => l[n].of \in 1..(n - 1)
    BY DEF LogIsSound, EventIsSound
  <2>5. /\ \A t : t \in TurnsOpen(k, Len(k)) <=>
                \/ t \in TurnsOpen(l, Len(l)) /\ ~(e.kind = "closed" /\ e.of = t)
                \/ t = Len(k) /\ e.kind = "turn"
        /\ \A o : o \in OpsOpen(k, Len(k)) <=>
                \/ o \in OpsOpen(l, Len(l)) /\ ~(e.kind = "result" /\ e.of = o)
                \/ o = Len(k) /\ e.kind = "intent"
    BY <2>4, OneMoreOpen
  <2>6. k[Len(k)] = e
    BY <1>1, AppendIs
  <2> HIDE DEF k
  <2>7. WriterIsCurrent(s, l)
    BY <1>3
  <2>8. s.tip = Tip(k, Len(k), s.branch)
    BY <2>2, <2>3, <2>7 DEF WriterIsCurrent, WorkIsOpen
  <2>9. s.turn # 0 => s.turn \in TurnsOpen(k, Len(k))
    BY <2>2, <2>5, <2>7 DEF WriterIsCurrent, WorkIsOpen
  <2>10. s.op # 0 => s.op \in OpsOpen(k, Len(k))
    BY <2>2, <2>5, <2>7 DEF WriterIsCurrent, WorkIsOpen
  <2>11. ASSUME s.turn # 0, NEW o \in OpsOpen(k, Len(k)), k[o].of = s.turn PROVE o = s.op
    <3>1. CASE o = Len(k) /\ e.kind = "intent"
      BY <2>2, <2>6, <2>11, <3>1
    <3>2. CASE o \in OpsOpen(l, Len(l))
      <4>1. o \in 1..Len(l)
        BY <3>2 DEF OpsOpen
      <4>2. QED
        BY <1>1, <2>7, <2>11, <3>2, <4>1 DEF WriterIsCurrent, WorkIsOpen
    <3>3. QED
      BY <2>5, <3>1, <3>2
  <2>12. QED
    BY <2>8, <2>9, <2>10, <2>11 DEF WriterIsCurrent, WorkIsOpen
<1>4. QED
  BY <1>2, <1>3

LEMMA WriterStaysSound ==
  ASSUME NEW q \in Procs, NEW s \in ProcRecord, NEW own, NEW more, own \subseteq more,
         NEW l \in Seq(Events(Procs)), NEW e \in Events(Procs), LogIsSound(l, own),
         s.at \in Writing, WriterIsSound(q, s, l, own), Harmless(s, l, e)
  PROVE  WriterIsSound(q, s, Append(l, e), more)
<1> DEFINE k == Append(l, e)
<1>1. /\ Len(l) \in Nat /\ Len(k) = Len(l) + 1 /\ k[Len(l) + 1] = e
      /\ \A n \in 1..Len(l) : k[n] = l[n]
  BY AppendIs
<1>2. 1..Len(k) = 1..Len(l) \cup {Len(l) + 1}
  BY <1>1
<1>3. \A b : Declared(l, Len(l), b) => Declared(k, Len(k), b)
  BY OneMoreEvent
<1>4. ~s.fresh /\ (~IsSeal(e) => e.branch # s.branch)
  BY DEF Harmless
<1>5. SealedUnseen(k) \/ WriterIsCurrent(s, k)
  BY <1>4, WriterStaysCurrent DEF WriterIsSound, WorkIsOwn
<1> HIDE DEF k
<1>6. \A n \in 1..Len(k) : ~IsSeal(k[n]) /\ k[n].branch = s.branch => k[n].by = q
  BY <1>1, <1>2, <1>4 DEF WriterIsSound, WorkIsOwn
<1>7. Len(k) >= 2 /\ Declared(k, Len(k), s.branch)
  BY <1>1, <1>3, <1>4 DEF WriterIsSound, WorkIsOwn
<1>8. /\ s.turn # 0 => s.turn \in 1..Len(k) /\ k[s.turn].kind = "turn" /\ k[s.turn].by = q
      /\ s.op # 0 => s.op \in 1..Len(k) /\ k[s.op].kind = "intent" /\ k[s.op].by = q
  BY <1>1, <1>2 DEF WriterIsSound, WorkIsOwn
<1>9. /\ s.at \in Open => q \in more
      /\ s.at \notin Open => s.turn = 0 /\ s.op = 0
  BY DEF WriterIsSound, WorkIsOwn
<1> SUFFICES WriterIsSound(q, s, k, more)
  BY DEF k
<1>10. QED
  BY <1>4, <1>5, <1>6, <1>7, <1>8, <1>9 DEF WriterIsSound, WorkIsOwn

LEMMA OthersStaySound ==
  ASSUME NEW q \in Procs, NEW s \in ProcRecord, NEW own, NEW more, own \subseteq more,
         NEW dead, NEW gone, dead \subseteq gone,
         NEW l \in Seq(Events(Procs)), NEW e \in Events(Procs), LogIsSound(l, own),
         ProcIsSound(q, s, l, own, dead), Harmless(s, l, e)
  PROVE  ProcIsSound(q, s, Append(l, e), more, gone)
<1> DEFINE k == Append(l, e)
<1>1. /\ Len(l) \in Nat /\ Len(k) = Len(l) + 1
      /\ \A n \in 1..Len(l) : k[n] = l[n]
  BY AppendIs
<1>2. 1..Len(l) \subseteq 1..Len(k) /\ (Len(l) >= 2 => Len(k) >= 2)
  BY <1>1
<1>3. \A b : Declared(l, Len(l), b) => Declared(k, Len(k), b)
  BY OneMoreEvent
<1>4. s.at = "sealing" => SealsFollowPlan(s, k)
  BY SealsStillFollow DEF ProcIsSound
<1>5. s.at \in Writing => WriterIsSound(q, s, k, more)
  BY WriterStaysSound DEF ProcIsSound
<1> HIDE DEF k
<1>6. s.at \in Recovering => OwnersWereDead(s, k, gone)
  <2>1. SUFFICES ASSUME s.at \in Recovering PROVE OwnersWereDead(s, k, gone)
    OBVIOUS
  <2>2. OwnersWereDead(s, l, dead)
    BY <2>1 DEF ProcIsSound
  <2>3. 1..s.checked \subseteq 1..Len(l)
    BY <1>1, <2>2 DEF OwnersWereDead
  <2>4. QED
    BY <1>1, <1>2, <2>2, <2>3 DEF OwnersWereDead
<1> SUFFICES ProcIsSound(q, s, k, more, gone)
  BY DEF k
<1>7. QED
  BY <1>2, <1>3, <1>4, <1>5, <1>6 DEF ProcIsSound

(* Owners are only added, and the dead stay dead. *)
LEMMA IdleStaysSound ==
  ASSUME NEW q, NEW s, NEW own, NEW more, own \subseteq more, NEW dead, NEW gone, dead \subseteq gone,
         NEW l, ProcIsSound(q, s, l, own, dead)
  PROVE  ProcIsSound(q, s, l, more, gone)
<1>1. OwnersWereDead(s, l, dead) => OwnersWereDead(s, l, gone)
  BY DEF OwnersWereDead
<1>2. WriterIsSound(q, s, l, own) => WriterIsSound(q, s, l, more)
  BY DEF WriterIsSound, WorkIsOwn
<1>3. QED
  BY <1>1, <1>2 DEF ProcIsSound
-----------------------------------------------------------------------------
(* The closing events a history needs. *)

SealRecord == [kind : SealKinds, branch : Int, of : Nat,
               how : {"none", "completed", "interrupted", "unknown"}]

(* What a closing event of the plan is about, by its kind. *)
SealIsSound(l, s) ==
    /\ s \in SealRecord
    /\ s.kind = "result" => /\ s.of \in OpsOpen(l, Len(l)) /\ s.branch = l[s.of].branch
                            /\ s.how = ToolOutcome(l, s.of)
    /\ s.kind = "closed" => s.of \in TurnsOpen(l, Len(l)) /\ s.branch = l[s.of].branch
    /\ s.kind = "retired" => \E n \in 1..Len(l) : /\ l[n].kind \in {"created", "child"}
                                                  /\ s.branch = l[n].branch /\ s.of = AgentOf(l, n)
    /\ s.kind = "recovered" => s.branch = Main

LEMMA PositionsAreFinite ==
  ASSUME NEW n \in Nat, NEW S \in SUBSET (1..n)
  PROVE  IsFiniteSet(S)
<1>1. IsFiniteSet(1..n)
  BY FS_Interval
<1>2. QED
  BY <1>1, FS_Subset

LEMMA EventType ==
  ASSUME NEW l \in Seq(Events(Procs)), NEW n \in 1..Len(l)
  PROVE  l[n] \in Events(Procs) /\ l[n].branch \in Int /\ l[n].of \in Nat /\ l[n].kind \in Kinds
<1>1. l[n] \in Events(Procs)
  OBVIOUS
<1>2. QED
  BY <1>1 DEF Events

LEMMA ToolSealsAre ==
  ASSUME NEW l \in Seq(Events(Procs))
  PROVE  LET s == ToolSeals(l)
         IN  /\ s \in Seq(SealRecord)
             /\ \A i \in 1..Len(s) : s[i].kind = "result" /\ SealIsSound(l, s[i])
             /\ \A i, j \in 1..Len(s) : s[i].of = s[j].of => i = j
             /\ \A o \in OpsOpen(l, Len(l)) : \E i \in 1..Len(s) : s[i].of = o
<1> DEFINE open == OpsOpen(l, Len(l))
           age == [o \in open |-> ObservedAt(l, o)]
           n == Cardinality(open)
           byAge == ByAge(open, age)
           s == ToolSeals(l)
<1>1. Len(l) \in Nat /\ open \in SUBSET (1..Len(l)) /\ IsFiniteSet(open)
  <2>1. Len(l) \in Nat /\ open \in SUBSET (1..Len(l))
    BY DEF OpsOpen
  <2>2. QED
    BY <2>1, PositionsAreFinite
<1>2. ASSUME NEW o \in open
      PROVE  ObservedAt(l, o) \in Nat /\ ObservedAt(l, o) \in {o} \cup About(l, Len(l), "started", o)
  <2> DEFINE S == {o} \cup About(l, Len(l), "started", o)
  <2>1. S \in SUBSET Nat /\ S # {} /\ \A m \in S : m <= Len(l)
    BY <1>1 DEF About
  <2>2. Max(S) \in S
    <3> HIDE DEF S
    <3>1. QED
      BY <1>1, <2>1, MaxIsGreatest
  <2>3. QED
    BY <2>1, <2>2 DEF ObservedAt
<1>3. ASSUME NEW x \in open, NEW y \in open, ObservedAt(l, x) = ObservedAt(l, y) PROVE x = y
  <2>1. l[x].kind = "intent" /\ l[y].kind = "intent"
    BY DEF OpsOpen
  <2>2. ObservedAt(l, x) \in {x} \cup About(l, Len(l), "started", x)
    BY <1>2
  <2>3. ObservedAt(l, x) \in {y} \cup About(l, Len(l), "started", y)
    BY <1>2, <1>3
  <2>4. QED
    BY <2>1, <2>2, <2>3 DEF About
<1>4. age \in [open -> Nat] /\ \A x, y \in open : age[x] = age[y] => x = y
  BY <1>2, <1>3
<1> HIDE DEF age, open
<1>5. /\ n \in Nat /\ byAge \in [1..n -> open]
      /\ \A i, j \in 1..n : byAge[i] = byAge[j] => i = j
      /\ \A o \in open : \E i \in 1..n : byAge[i] = o
  BY SMTT(30), <1>1, <1>4, ByAgeLists
<1>6. s = [i \in 1..n |->
              Seal("result", l[byAge[i]].branch, byAge[i], ToolOutcome(l, byAge[i]))]
  BY <1>5 DEF ToolSeals, age, open
<1> HIDE DEF byAge, n, s
<1>7. ASSUME NEW i \in 1..n
      PROVE  s[i].kind = "result" /\ s[i].of = byAge[i] /\ SealIsSound(l, s[i])
  <2>1. byAge[i] \in open
    BY <1>5
  <2>2. PICK o \in open : o = byAge[i]
    BY <2>1
  <2>3. s[i] = [kind |-> "result", branch |-> l[o].branch, of |-> o, how |-> ToolOutcome(l, o)]
    BY <1>6, <2>2 DEF Seal
  <2>4. o \in Nat /\ l[o].branch \in Int
    BY <1>1, <2>2, EventType
  <2>5. ToolOutcome(l, o) \in {"none", "completed", "interrupted", "unknown"}
    BY DEF ToolOutcome
  <2> DEFINE how == ToolOutcome(l, o)
             branch == l[o].branch
  <2> HIDE DEF how, branch
  <2>6. [kind |-> "result", branch |-> branch, of |-> o, how |-> how] \in SealRecord
    BY <2>4, <2>5 DEF SealRecord, SealKinds, how, branch
  <2>7. s[i] \in SealRecord
    BY <2>3, <2>6 DEF how, branch
  <2>8. QED
    BY <2>2, <2>3, <2>7 DEF SealIsSound, open
<1>8. s \in Seq(SealRecord) /\ Len(s) = n
  <2>1. \A i \in 1..n : s[i] \in SealRecord
    BY <1>7 DEF SealIsSound
  <2>2. s = [i \in 1..n |-> s[i]]
    BY <1>6
  <2>3. QED
    BY <1>5, <2>1, <2>2
<1>9. QED
  BY <1>5, <1>7, <1>8 DEF s, open

LEMMA TurnSealsAre ==
  ASSUME NEW l \in Seq(Events(Procs))
  PROVE  LET s == TurnSeals(l)
         IN  /\ s \in Seq(SealRecord)
             /\ \A i \in 1..Len(s) : s[i].kind = "closed" /\ SealIsSound(l, s[i])
             /\ \A i, j \in 1..Len(s) : s[i].of = s[j].of => i = j
             /\ \A t \in TurnsOpen(l, Len(l)) : \E i \in 1..Len(s) : s[i].of = t
<1> DEFINE open == TurnsOpen(l, Len(l))
           age == [t \in open |-> t]
           n == Cardinality(open)
           byAge == ByAge(open, age)
           s == TurnSeals(l)
<1>1. Len(l) \in Nat /\ open \in SUBSET (1..Len(l)) /\ IsFiniteSet(open)
  <2>1. Len(l) \in Nat /\ open \in SUBSET (1..Len(l))
    BY DEF TurnsOpen
  <2>2. QED
    BY <2>1, PositionsAreFinite
<1>2. age \in [open -> Nat] /\ \A x, y \in open : age[x] = age[y] => x = y
  BY <1>1
<1> HIDE DEF age
<1>3. /\ n \in Nat /\ byAge \in [1..n -> open]
      /\ \A i, j \in 1..n : byAge[i] = byAge[j] => i = j
      /\ \A x \in open : \E i \in 1..n : byAge[i] = x
  BY SMTT(30), <1>1, <1>2, ByAgeLists
<1>4. s = [i \in 1..n |-> Seal("closed", l[byAge[i]].branch, byAge[i], "interrupted")]
  BY <1>3 DEF TurnSeals, age
<1> HIDE DEF byAge, n, s
<1>5. ASSUME NEW i \in 1..n
      PROVE  s[i].kind = "closed" /\ s[i].of = byAge[i] /\ SealIsSound(l, s[i])
  <2>1. byAge[i] \in open
    BY <1>3
  <2>2. PICK t \in open : t = byAge[i]
    BY <2>1
  <2>3. s[i] = [kind |-> "closed", branch |-> l[t].branch, of |-> t, how |-> "interrupted"]
    BY <1>4, <2>2 DEF Seal
  <2>4. t \in Nat /\ l[t].branch \in Int
    BY <1>1, <2>2, EventType
  <2>5. s[i] \in SealRecord
    BY <2>3, <2>4 DEF SealRecord, SealKinds
  <2>6. QED
    BY <2>2, <2>3, <2>5 DEF SealIsSound
<1>6. s \in Seq(SealRecord) /\ Len(s) = n
  <2>1. \A i \in 1..n : s[i] \in SealRecord
    BY <1>5 DEF SealIsSound
  <2>2. s = [i \in 1..n |-> s[i]]
    BY <1>4
  <2>3. QED
    BY SMTT(30), <1>3, <2>1, <2>2
<1>7. QED
  BY <1>3, <1>5, <1>6 DEF s

LEMMA AgentSealsAre ==
  ASSUME NEW l \in Seq(Events(Procs))
  PROVE  LET s == AgentSeals(l)
         IN  /\ s \in Seq(SealRecord)
             /\ \A i \in 1..Len(s) : s[i].kind = "retired" /\ SealIsSound(l, s[i])
<1> DEFINE active == {m \in DOMAIN l : /\ l[m].kind \in {"created", "child"}
                                       /\ About(l, Len(l), "retired", AgentOf(l, m)) = {}}
           age == [m \in active |-> m]
           n == Cardinality(active)
           byAge == ByAge(active, age)
           s == AgentSeals(l)
<1>1. Len(l) \in Nat /\ active \in SUBSET (1..Len(l)) /\ IsFiniteSet(active)
  <2>1. Len(l) \in Nat /\ active \in SUBSET (1..Len(l))
    OBVIOUS
  <2> HIDE DEF active
  <2>2. QED
    BY <2>1, PositionsAreFinite
<1>2. s = [i \in DOMAIN byAge |-> Seal("retired", l[byAge[i]].branch,
                                       AgentOf(l, byAge[i]), "interrupted")]
  BY DEF AgentSeals
<1>3. \A m \in active : l[m].kind \in {"created", "child"}
  OBVIOUS
<1> HIDE DEF active, s
<1>4. age \in [active -> Nat] /\ \A x, y \in active : age[x] = age[y] => x = y
  BY <1>1
<1> HIDE DEF age
<1>5. n \in Nat /\ byAge \in [1..n -> active]
  BY <1>1, <1>4, ByAgeLists
<1> HIDE DEF byAge, n
<1>6. ASSUME NEW i \in 1..n
      PROVE  s[i].kind = "retired" /\ SealIsSound(l, s[i])
  <2>1. byAge[i] \in active
    BY <1>5
  <2>2. PICK m \in active : m = byAge[i]
    BY <2>1
  <2>3. s[i] = [kind |-> "retired", branch |-> l[m].branch, of |-> AgentOf(l, m),
                how |-> "interrupted"]
    BY <1>2, <1>5, <2>2 DEF Seal
  <2>4. m \in 1..Len(l) /\ m \in Nat /\ l[m].branch \in Int
    BY <1>1, <2>2, EventType
  <2>5. AgentOf(l, m) \in Nat
    BY <1>3, <2>4 DEF AgentOf
  <2>6. s[i] \in SealRecord
    BY <2>3, <2>4, <2>5 DEF SealRecord, SealKinds
  <2>7. s[i].kind = "retired" /\ s[i].branch = l[m].branch /\ s[i].of = AgentOf(l, m)
    BY <2>3
  <2>8. QED
    BY <1>3, <2>4, <2>6, <2>7 DEF SealIsSound
<1>7. s \in Seq(SealRecord) /\ Len(s) = n
  <2>1. \A i \in 1..n : s[i] \in SealRecord
    BY <1>6 DEF SealIsSound
  <2>2. s = [i \in 1..n |-> s[i]]
    BY <1>2, <1>5
  <2>3. QED
    BY <1>5, <2>1, <2>2
<1>8. QED
  BY <1>6, <1>7 DEF s

LEMMA RunSealsAre ==
  ASSUME NEW l
  PROVE  LET s == RunSeals(l)
         IN  /\ s \in Seq(SealRecord)
             /\ \A i \in 1..Len(s) : s[i].kind = "recovered" /\ SealIsSound(l, s[i])
<1> DEFINE e == Seal("recovered", Main, 0, "none")
<1>1. e.kind = "recovered" /\ e \in SealRecord /\ SealIsSound(l, e)
  BY DEF Seal, SealRecord, SealKinds, SealIsSound, Main
<1> HIDE DEF e
<1>2. RunSeals(l) = <<e>> \/ RunSeals(l) = <<>>
  BY DEF RunSeals, e
<1>3. <<e>> \in Seq(SealRecord) /\ Len(<<e>>) = 1 /\ <<e>>[1] = e
  BY <1>1
<1>4. CASE RunSeals(l) = <<e>>
  BY <1>1, <1>3, <1>4
<1>5. CASE RunSeals(l) = <<>>
  BY <1>5
<1>6. QED
  BY <1>2, <1>4, <1>5

(* The plan: operations before turns, none twice and none forgotten. *)
LEMMA SealsAre ==
  ASSUME NEW l \in Seq(Events(Procs))
  PROVE  LET s == Seals(l)
         IN  /\ s \in Seq(SealRecord)
             /\ \A i \in 1..Len(s) : SealIsSound(l, s[i])
             /\ \A i, j \in 1..Len(s) :
                   s[i].kind = s[j].kind /\ s[i].kind \in {"result", "closed"} /\ s[i].of = s[j].of
                       => i = j
             /\ \A i \in 1..Len(s) : s[i].kind = "closed" =>
                   \A o \in OpsOpen(l, Len(l)) :
                       \E j \in 1..(i - 1) : s[j].kind = "result" /\ s[j].of = o
<1> DEFINE a == ToolSeals(l)
           b == TurnSeals(l)
           c == AgentSeals(l)
           d == RunSeals(l)
           s == ((a \o b) \o c) \o d
<1>1. /\ a \in Seq(SealRecord)
      /\ \A i \in 1..Len(a) : a[i].kind = "result" /\ SealIsSound(l, a[i])
      /\ \A i, j \in 1..Len(a) : a[i].of = a[j].of => i = j
      /\ \A o \in OpsOpen(l, Len(l)) : \E i \in 1..Len(a) : a[i].of = o
  BY ToolSealsAre
<1>2. /\ b \in Seq(SealRecord)
      /\ \A i \in 1..Len(b) : b[i].kind = "closed" /\ SealIsSound(l, b[i])
      /\ \A i, j \in 1..Len(b) : b[i].of = b[j].of => i = j
  BY TurnSealsAre
<1>3. /\ c \in Seq(SealRecord)
      /\ \A i \in 1..Len(c) : c[i].kind = "retired" /\ SealIsSound(l, c[i])
  BY AgentSealsAre
<1>4. /\ d \in Seq(SealRecord)
      /\ \A i \in 1..Len(d) : d[i].kind = "recovered" /\ SealIsSound(l, d[i])
  BY RunSealsAre
<1>5. Seals(l) = s
  BY DEF Seals
<1> HIDE DEF a, b, c, d
<1>6. /\ a \o b \in Seq(SealRecord) /\ Len(a \o b) = Len(a) + Len(b)
      /\ \A i \in 1..(Len(a) + Len(b)) : (a \o b)[i] = IF i <= Len(a) THEN a[i] ELSE b[i - Len(a)]
  BY <1>1, <1>2, ConcatProperties
<1> DEFINE ab == a \o b
<1> HIDE DEF ab
<1>7. /\ ab \o c \in Seq(SealRecord) /\ Len(ab \o c) = Len(ab) + Len(c)
      /\ \A i \in 1..(Len(ab) + Len(c)) : (ab \o c)[i] = IF i <= Len(ab) THEN ab[i] ELSE c[i - Len(ab)]
  BY <1>3, <1>6, ConcatProperties DEF ab
<1> DEFINE abc == ab \o c
<1> HIDE DEF abc
<1>8. /\ abc \o d \in Seq(SealRecord) /\ Len(abc \o d) = Len(abc) + Len(d)
      /\ \A i \in 1..(Len(abc) + Len(d)) :
            (abc \o d)[i] = IF i <= Len(abc) THEN abc[i] ELSE d[i - Len(abc)]
  BY <1>4, <1>7, ConcatProperties DEF abc
<1>9. s = abc \o d
  BY DEF abc, ab
<1> HIDE DEF s
<1>10. Len(a) \in Nat /\ Len(b) \in Nat /\ Len(c) \in Nat /\ Len(d) \in Nat
  BY <1>1, <1>2, <1>3, <1>4
<1>11. s \in Seq(SealRecord) /\ Len(s) = Len(a) + Len(b) + Len(c) + Len(d)
  BY <1>6, <1>7, <1>8, <1>9, <1>10 DEF ab, abc
<1>12. \A i \in 1..Len(a) : s[i] = a[i]
  BY <1>6, <1>7, <1>8, <1>9, <1>10 DEF ab, abc
<1>13. ASSUME NEW i \in 1..Len(s)
       PROVE  \/ i \in 1..Len(a) /\ s[i] = a[i]
              \/ i - Len(a) \in 1..Len(b) /\ s[i] = b[i - Len(a)]
              \/ \E j \in 1..Len(c) : s[i] = c[j]
              \/ \E j \in 1..Len(d) : s[i] = d[j]
  <2>1. CASE i <= Len(a)
    BY <1>10, <1>11, <1>12, <2>1
  <2>2. CASE Len(a) < i /\ i <= Len(a) + Len(b)
    BY <1>6, <1>7, <1>8, <1>9, <1>10, <2>2 DEF ab, abc
  <2>3. CASE Len(a) + Len(b) < i /\ i <= Len(a) + Len(b) + Len(c)
    <3>1. i - Len(ab) \in 1..Len(c) /\ s[i] = c[i - Len(ab)]
      BY <1>6, <1>7, <1>8, <1>9, <1>10, <2>3 DEF ab, abc
    <3>2. QED
      BY <3>1
  <2>4. CASE Len(a) + Len(b) + Len(c) < i
    <3>1. i - Len(abc) \in 1..Len(d) /\ s[i] = d[i - Len(abc)]
      BY <1>6, <1>7, <1>8, <1>9, <1>10, <1>11, <2>4 DEF ab, abc
    <3>2. QED
      BY <3>1
  <2>5. QED
    BY <1>10, <2>1, <2>2, <2>3, <2>4
<1>14. ASSUME NEW i \in 1..Len(s) PROVE SealIsSound(l, s[i])
  BY <1>1, <1>2, <1>3, <1>4, <1>13
<1>15. ASSUME NEW i \in 1..Len(s)
       PROVE  /\ s[i].kind = "result" => i \in 1..Len(a) /\ s[i] = a[i]
              /\ s[i].kind = "closed" => i - Len(a) \in 1..Len(b) /\ s[i] = b[i - Len(a)]
  BY ZenonT(40), <1>1, <1>2, <1>3, <1>4, <1>13
<1>16. ASSUME NEW i \in 1..Len(s), NEW j \in 1..Len(s), s[i].kind = s[j].kind,
              s[i].kind \in {"result", "closed"}, s[i].of = s[j].of
       PROVE  i = j
  <2>1. CASE s[i].kind = "result"
    BY <1>1, <1>15, <1>16, <2>1
  <2>2. CASE s[i].kind = "closed"
    <3>1. i - Len(a) = j - Len(a)
      BY ZenonT(40), <1>2, <1>15, <1>16, <2>2
    <3>2. QED
      BY <1>10, <3>1
  <2>3. QED
    BY <1>16, <2>1, <2>2
<1>17. ASSUME NEW i \in 1..Len(s), s[i].kind = "closed", NEW o \in OpsOpen(l, Len(l))
       PROVE  \E j \in 1..(i - 1) : s[j].kind = "result" /\ s[j].of = o
  <2>1. PICK j \in 1..Len(a) : a[j].of = o
    BY <1>1
  <2>2. i - Len(a) \in 1..Len(b)
    BY <1>15, <1>17
  <2>3. j \in 1..(i - 1)
    BY <1>10, <2>2
  <2>4. s[j] = a[j]
    BY <1>12
  <2>5. QED
    BY <1>1, <2>1, <2>3, <2>4
<1>18. QED
  BY <1>5, <1>11, <1>14, <1>16, <1>17
-----------------------------------------------------------------------------
(* Steps.  One process moves, and may append one event to the log of its run. *)

Catalogs == [run : {NoRun} \cup Runs, branch : Nat]

(* No other process writes to the branch of p in state s. *)
BranchIsOwn(p, s) ==
    s.at \in Writing =>
        \A q \in Procs \ {p} :
            proc[q].run = s.run /\ proc[q].at \in Writing => proc[q].branch # s.branch

LEMMA MovesTo ==
  ASSUME TypeOK, NEW p \in Procs, NEW s \in ProcRecord, proc' = [proc EXCEPT ![p] = s],
         Alive(p)
  PROVE  /\ proc'[p] = s /\ \A q \in Procs \ {p} : proc'[q] = proc[q]
         /\ proc' \in [Procs -> ProcRecord]
         /\ Dead \subseteq Dead'
         /\ \A q \in Procs : ~Alive(q) => ~Alive(q)'
<1>1. proc \in [Procs -> ProcRecord]
  BY DEF TypeOK
<1>2. /\ proc'[p] = s /\ \A q \in Procs \ {p} : proc'[q] = proc[q]
      /\ proc' \in [Procs -> ProcRecord]
  BY <1>1
<1>3. \A q \in Procs : ~Alive(q) => ~Alive(q)'
  BY <1>2 DEF Alive
<1>4. QED
  BY <1>2, <1>3 DEF Dead

LEMMA BranchesStayApart ==
  ASSUME NEW p \in Procs, NEW s, proc'[p] = s, \A q \in Procs \ {p} : proc'[q] = proc[q],
         BranchesAreApart, BranchIsOwn(p, s)
  PROVE  BranchesAreApart'
<1>1. ASSUME NEW q \in Procs, NEW w \in Procs, q # w, proc'[q].run = proc'[w].run,
             proc'[q].at \in Writing, proc'[w].at \in Writing
      PROVE  proc'[q].branch # proc'[w].branch
  <2>1. CASE q = p
    BY <1>1, <2>1 DEF BranchIsOwn
  <2>2. CASE w = p
    BY <1>1, <2>2 DEF BranchIsOwn
  <2>3. CASE q # p /\ w # p
    BY <1>1, <2>3 DEF BranchesAreApart
  <2>4. QED
    BY <2>1, <2>2, <2>3
<1>2. QED
  BY <1>1 DEF BranchesAreApart

(* The turn that a closing event ends, or ends an operation of, is in the log. *)
LEMMA SealedTurnIsThere ==
  ASSUME NEW l \in Seq(Events(Procs)), NEW own, \A m \in 1..Len(l) : EventIsSound(l, m, own),
         NEW n \in 1..Len(l), SealsWork(l, n)
  PROVE  /\ TurnSealed(l, n) \in 1..Len(l) /\ l[TurnSealed(l, n)].by \in Procs
         /\ l[n].kind = "result" => l[n].of \in 1..Len(l)
<1>1. \A m \in 1..Len(l) :
         /\ l[m].kind \in {"intent", "closed", "result"} => l[m].of \in 1..(m - 1)
         /\ l[m].kind = "result" => l[l[m].of].kind = "intent"
  BY DEF EventIsSound
<1>2. \A m \in 1..Len(l) : 1..(m - 1) \subseteq 1..Len(l)
  OBVIOUS
<1>3. l[n].kind \in {"result", "closed"}
  BY DEF SealsWork
<1>4. /\ l[n].kind = "result" => l[n].of \in 1..Len(l) /\ l[l[n].of].kind = "intent"
      /\ l[n].kind = "closed" => l[n].of \in 1..Len(l)
  BY <1>1, <1>2
<1>5. l[n].kind = "result" => l[l[n].of].of \in 1..Len(l)
  BY <1>1, <1>2, <1>4
<1>6. TurnSealed(l, n) \in 1..Len(l)
  BY <1>3, <1>4, <1>5 DEF TurnSealed
<1>7. l[TurnSealed(l, n)] \in Events(Procs)
  BY <1>6
<1>8. QED
  BY <1>4, <1>6, <1>7 DEF Events

(* A step that appends nothing. *)
LEMMA QuietStep ==
  ASSUME IInv, NEW p \in Procs, Alive(p), NEW s \in ProcRecord, proc' = [proc EXCEPT ![p] = s],
         UNCHANGED log, catalog' \in Catalogs,
         owners' \in [Runs -> SUBSET Procs], \A r \in Runs : owners[r] \subseteq owners'[r],
         s.at \in Opening \cup Open =>
            s.run \in Runs /\ ProcIsSound(p, s, log[s.run], owners'[s.run], Dead),
         BranchIsOwn(p, s)
  PROVE  IInv'
<1>1. /\ TypeOK /\ LogsAreSound /\ ProcsAreSound /\ BranchesAreApart
      /\ SealsOnlyTheDead /\ EffectsAreNotDenied /\ BranchHasOneWriter
  BY DEF IInv
<1>2. /\ proc'[p] = s /\ \A q \in Procs \ {p} : proc'[q] = proc[q]
      /\ proc' \in [Procs -> ProcRecord]
      /\ Dead \subseteq Dead'
      /\ \A q \in Procs : ~Alive(q) => ~Alive(q)'
  BY <1>1, MovesTo
<1>3. TypeOK'
  BY <1>1, <1>2 DEF TypeOK, Catalogs
<1>4. LogsAreSound'
  <2>1. ASSUME NEW r \in Runs PROVE log[r] \in Seq(Events(Procs)) /\ LogIsSound(log[r], owners'[r])
    <3>1. log[r] \in Seq(Events(Procs)) /\ LogIsSound(log[r], owners[r])
      BY <1>1 DEF LogsAreSound
    <3>2. owners[r] \subseteq owners'[r]
      OBVIOUS
    <3>3. ASSUME NEW n \in 1..Len(log[r]) PROVE EventIsSound(log[r], n, owners'[r])
      <4>1. n \in Nat \ {0} /\ Agree(log[r], n, log[r]) /\ EventIsSound(log[r], n, owners[r])
        BY <3>1 DEF LogIsSound, Agree
      <4>2. QED
        BY <3>2, <4>1, EventStaysSound
    <3>4. QED
      BY <3>1, <3>3 DEF LogIsSound
  <2>2. QED
    BY <1>1, <2>1 DEF LogsAreSound
<1>5. ProcsAreSound'
  <2>1. ASSUME NEW q \in Procs, proc'[q].at \in Opening \cup Open
        PROVE  /\ proc'[q].run \in Runs
               /\ ProcIsSound(q, proc'[q], log[proc'[q].run], owners'[proc'[q].run], Dead')
    <3>1. CASE q = p
      <4>1. s.run \in Runs /\ ProcIsSound(p, s, log[s.run], owners'[s.run], Dead)
        BY <1>2, <2>1, <3>1
      <4>2. ProcIsSound(p, s, log[s.run], owners'[s.run], Dead')
        BY <1>2, <4>1, IdleStaysSound
      <4>3. QED
        BY <1>2, <3>1, <4>1, <4>2
    <3>2. CASE q # p
      <4>1. /\ proc'[q] = proc[q] /\ proc[q].run \in Runs
            /\ ProcIsSound(q, proc[q], log[proc[q].run], owners[proc[q].run], Dead)
        BY <1>1, <1>2, <2>1, <3>2 DEF ProcsAreSound
      <4>2. owners[proc[q].run] \subseteq owners'[proc[q].run]
        BY <4>1
      <4>3. ProcIsSound(q, proc[q], log[proc[q].run], owners'[proc[q].run], Dead')
        BY <1>2, <4>1, <4>2, IdleStaysSound
      <4>4. QED
        BY <4>1, <4>3
    <3>3. QED
      BY <3>1, <3>2
  <2>2. QED
    BY <2>1 DEF ProcsAreSound
<1>6. BranchesAreApart'
  BY <1>1, <1>2, BranchesStayApart
<1>7. SealsOnlyTheDead'
  <2>1. ASSUME NEW r \in Runs, NEW n \in DOMAIN log[r], SealsWork(log[r], n),
               TurnSealed(log[r], n) <= log[r][n].checked
        PROVE  proc'[log[r][TurnSealed(log[r], n)].by].at = "dead"
    <3> DEFINE q == log[r][TurnSealed(log[r], n)].by
    <3>1. ~Alive(q)
      BY <1>1, <2>1 DEF SealsOnlyTheDead
    <3>2. q \in Procs
      <4>1. /\ log[r] \in Seq(Events(Procs))
            /\ \A m \in 1..Len(log[r]) : EventIsSound(log[r], m, owners[r])
        BY <1>1 DEF LogsAreSound, LogIsSound
      <4>2. n \in 1..Len(log[r]) /\ SealsWork(log[r], n)
        BY <2>1, <4>1
      <4>3. QED
        BY <4>1, <4>2, SealedTurnIsThere
    <3>3. PICK w \in Procs : w = q
      BY <3>2
    <3>4. ~Alive(w)'
      BY <1>2, <3>1, <3>3
    <3>5. QED
      BY <3>3, <3>4 DEF Alive
  <2>2. QED
    BY <2>1 DEF SealsOnlyTheDead, Alive
<1>8. EffectsAreNotDenied' /\ BranchHasOneWriter'
  BY <1>1 DEF EffectsAreNotDenied, BranchHasOneWriter
<1>9. QED
  BY <1>3, <1>4, <1>5, <1>6, <1>7, <1>8 DEF IInv

(* What is to hold of an event e that is appended to the log l of a run. *)
EventIsRight(l, e, own) ==
    LET k == Append(l, e)
        n == Len(l) + 1
    IN  /\ EventIsSound(k, n, own)
        /\ e.kind = "child" => \A m \in 1..Len(l) : l[m].kind # "child"
        /\ SealedUnseen(k) \/ Readable(k, n)
        /\ SealsWork(k, n) /\ TurnSealed(k, n) <= e.checked => k[TurnSealed(k, n)].by \in Dead
        /\ SealsWork(k, n) /\ e.kind = "result" /\ e.how = "interrupted" => ~Crossed(k, n, e.of)
        /\ ~IsSeal(e) => \A m \in 1..Len(l) :
                             ~IsSeal(l[m]) /\ l[m].branch = e.branch => l[m].by = e.by

(* A step that appends event e. *)
LEMMA LoudStep ==
  ASSUME IInv, NEW p \in Procs, Alive(p), NEW s \in ProcRecord, proc' = [proc EXCEPT ![p] = s],
         NEW r \in Runs, NEW l, l = log[r], NEW e \in Events(Procs), NEW k, k = Append(l, e),
         log' = [log EXCEPT ![r] = k], UNCHANGED <<catalog, owners>>,
         s.run = r, ProcIsSound(p, s, k, owners[r], Dead), BranchIsOwn(p, s),
         \A q \in Procs \ {p} :
            proc[q].run = r /\ proc[q].at \in Opening \cup Open => Harmless(proc[q], l, e),
         EventIsRight(l, e, owners[r])
  PROVE  IInv'
<1>1. /\ TypeOK /\ LogsAreSound /\ ProcsAreSound /\ BranchesAreApart
      /\ SealsOnlyTheDead /\ EffectsAreNotDenied /\ BranchHasOneWriter
  BY DEF IInv
<1>2. /\ proc'[p] = s /\ \A q \in Procs \ {p} : proc'[q] = proc[q]
      /\ proc' \in [Procs -> ProcRecord]
      /\ Dead \subseteq Dead'
      /\ \A q \in Procs : ~Alive(q) => ~Alive(q)'
  BY <1>1, MovesTo
<1>3. l \in Seq(Events(Procs)) /\ LogIsSound(l, owners[r])
  BY <1>1 DEF LogsAreSound
<1>4. /\ k \in Seq(Events(Procs)) /\ Len(l) \in Nat /\ Len(k) = Len(l) + 1 /\ k[Len(l) + 1] = e
      /\ \A n \in 1..Len(l) : k[n] = l[n]
  BY <1>3, AppendIs
<1>5. DOMAIN l = 1..Len(l) /\ DOMAIN k = 1..(Len(l) + 1) /\ 1..Len(l) \subseteq 1..(Len(l) + 1)
      /\ 1..(Len(l) + 1) = 1..Len(l) \cup {Len(l) + 1}
  <2>1. DOMAIN l = 1..Len(l) /\ DOMAIN k = 1..Len(k)
    BY <1>3, <1>4
  <2>2. QED
    BY <1>4, <2>1
<1>6. log'[r] = k /\ \A w \in Runs \ {r} : log'[w] = log[w]
  BY <1>1 DEF LogsAreSound
<1>7. EventIsSound(k, Len(l) + 1, owners[r])
  BY DEF EventIsRight
<1>8. LogIsSound(k, owners[r])
  <2>1. /\ e.kind = "child" => \A m \in 1..Len(l) : l[m].kind # "child"
        /\ SealedUnseen(k) \/ Readable(k, Len(k))
    BY <1>4 DEF EventIsRight
  <2>2. QED
    BY ZenonT(40), <1>3, <1>4, <1>7, <2>1, LogStaysSound
<1>9. LogsAreSound'
  <2>1. log' \in [Runs -> Seq(Events(Procs))]
    BY <1>1, <1>4 DEF LogsAreSound
  <2>2. ASSUME NEW w \in Runs PROVE LogIsSound(log'[w], owners'[w])
    BY <1>1, <1>6, <1>8 DEF LogsAreSound
  <2>3. QED
    BY <2>1, <2>2 DEF LogsAreSound
<1>10. TypeOK'
  <2>1. ASSUME NEW w \in Runs, NEW n \in DOMAIN log'[w] PROVE log'[w][n] \in Events(Procs)
    BY <1>9, <2>1 DEF LogsAreSound
  <2>2. QED
    BY <1>1, <1>2, <2>1 DEF TypeOK
<1>11. ProcsAreSound'
  <2>1. ASSUME NEW q \in Procs, proc'[q].at \in Opening \cup Open
        PROVE  /\ proc'[q].run \in Runs
               /\ ProcIsSound(q, proc'[q], log'[proc'[q].run], owners[proc'[q].run], Dead')
    <3>1. CASE q = p
      <4>1. ProcIsSound(p, s, k, owners[r], Dead')
        BY <1>2, IdleStaysSound
      <4>2. QED
        BY <1>2, <1>6, <3>1, <4>1
    <3>2. CASE q # p
      <4>1. /\ proc'[q] = proc[q] /\ proc[q].run \in Runs
            /\ ProcIsSound(q, proc[q], log[proc[q].run], owners[proc[q].run], Dead)
        BY <1>1, <1>2, <2>1, <3>2 DEF ProcsAreSound
      <4>2. CASE proc[q].run # r
        <5>1. ProcIsSound(q, proc[q], log[proc[q].run], owners[proc[q].run], Dead')
          BY <1>2, <4>1, IdleStaysSound
        <5>2. QED
          BY <1>6, <4>1, <4>2, <5>1
      <4>3. CASE proc[q].run = r
        <5>1. Harmless(proc[q], l, e) /\ proc[q] \in ProcRecord
          BY <1>1, <2>1, <3>2, <4>1, <4>3 DEF TypeOK
        <5>2. ProcIsSound(q, proc[q], l, owners[r], Dead)
          BY <4>1, <4>3
        <5>3. ProcIsSound(q, proc[q], k, owners[r], Dead')
          BY <1>2, <1>3, <5>1, <5>2, OthersStaySound
        <5>4. QED
          BY <1>6, <4>1, <4>3, <5>3
      <4>4. QED
        BY <4>2, <4>3
    <3>3. QED
      BY <3>1, <3>2
  <2>2. QED
    BY <2>1 DEF ProcsAreSound
<1>12. BranchesAreApart'
  BY <1>1, <1>2, BranchesStayApart
<1>13. ASSUME NEW n \in 1..Len(l), SealsWork(k, n)
       PROVE  /\ SealsWork(l, n) /\ TurnSealed(k, n) = TurnSealed(l, n)
              /\ TurnSealed(l, n) \in 1..Len(l) /\ l[TurnSealed(l, n)].by \in Procs
              /\ k[TurnSealed(l, n)] = l[TurnSealed(l, n)] /\ k[n] = l[n]
  <2>1. \A m \in 1..Len(l) : EventIsSound(l, m, owners[r])
    BY <1>3 DEF LogIsSound
  <2>2. k[n] = l[n] /\ SealsWork(l, n)
    BY <1>4, <1>13 DEF SealsWork
  <2>3. /\ TurnSealed(l, n) \in 1..Len(l) /\ l[TurnSealed(l, n)].by \in Procs
        /\ l[n].kind = "result" => l[n].of \in 1..Len(l)
    BY <1>3, <2>1, <2>2, SealedTurnIsThere
  <2>4. TurnSealed(k, n) = TurnSealed(l, n)
    BY <1>4, <2>2, <2>3 DEF TurnSealed
  <2>5. QED
    BY <1>4, <2>2, <2>3, <2>4
<1>14. SealsOnlyTheDead'
  <2>1. ASSUME NEW w \in Runs, NEW n \in DOMAIN log'[w], SealsWork(log'[w], n),
               TurnSealed(log'[w], n) <= log'[w][n].checked
        PROVE  proc'[log'[w][TurnSealed(log'[w], n)].by].at = "dead"
    <3>1. \E v \in Procs : log'[w][TurnSealed(log'[w], n)].by = v /\ ~Alive(v)
      <4>1. CASE w = r /\ n = Len(l) + 1
        <5>1. k[TurnSealed(k, n)].by \in Dead
          BY <1>4, <1>6, <2>1, <4>1 DEF EventIsRight
        <5>2. QED
          BY <1>6, <4>1, <5>1 DEF Dead
      <4>2. CASE w = r /\ n \in 1..Len(l)
        <5>1. SealsWork(k, n) /\ TurnSealed(k, n) <= k[n].checked
          BY <1>6, <2>1, <4>2
        <5>2. ~Alive(l[TurnSealed(l, n)].by)
          BY <1>1, <1>5, <1>13, <4>2, <5>1 DEF SealsOnlyTheDead
        <5>3. QED
          BY <1>6, <1>13, <4>2, <5>1, <5>2
      <4>3. CASE w # r
        <5>1. log'[w] = log[w]
          BY <1>6, <4>3
        <5>2. ~Alive(log[w][TurnSealed(log[w], n)].by)
          BY <1>1, <2>1, <5>1 DEF SealsOnlyTheDead
        <5>3. /\ log[w] \in Seq(Events(Procs)) /\ n \in 1..Len(log[w])
              /\ \A m \in 1..Len(log[w]) : EventIsSound(log[w], m, owners[w])
          BY <1>1, <2>1, <5>1 DEF LogsAreSound, LogIsSound
        <5>4. log[w][TurnSealed(log[w], n)].by \in Procs
          BY <2>1, <5>1, <5>3, SealedTurnIsThere
        <5>5. QED
          BY <5>1, <5>2, <5>4
      <4>4. QED
        BY <1>5, <1>6, <2>1, <4>1, <4>2, <4>3
    <3>2. QED
      BY <1>2, <3>1 DEF Alive
  <2>2. QED
    BY <2>1 DEF SealsOnlyTheDead, Alive
<1>15. EffectsAreNotDenied'
  <2>1. ASSUME NEW w \in Runs, NEW n \in DOMAIN log'[w], SealsWork(log'[w], n),
               log'[w][n].kind = "result", log'[w][n].how = "interrupted"
        PROVE  ~Crossed(log'[w], n, log'[w][n].of)
    <3>1. CASE w = r /\ n = Len(l) + 1
      BY <1>4, <1>6, <2>1, <3>1 DEF EventIsRight
    <3>2. CASE w = r /\ n \in 1..Len(l)
      <4>1. SealsWork(l, n) /\ k[n] = l[n]
        BY <1>6, <1>13, <2>1, <3>2
      <4>2. ~Crossed(l, n, l[n].of)
        BY <1>1, <1>5, <1>6, <2>1, <3>2, <4>1 DEF EffectsAreNotDenied
      <4>3. n \in Nat /\ Agree(k, n, l)
        BY <1>4, <3>2 DEF Agree
      <4>4. ~Crossed(k, n, l[n].of)
        BY <4>2, <4>3, SameReading
      <4>5. QED
        BY <1>6, <3>2, <4>1, <4>4
    <3>3. CASE w # r
      BY <1>1, <1>6, <2>1, <3>3 DEF EffectsAreNotDenied
    <3>4. QED
      BY <1>5, <1>6, <2>1, <3>1, <3>2, <3>3
  <2>2. QED
    BY <2>1 DEF EffectsAreNotDenied
<1>16. BranchHasOneWriter'
  <2>1. ASSUME NEW w \in Runs, NEW m \in DOMAIN log'[w], NEW n \in DOMAIN log'[w],
               log'[w][m].branch = log'[w][n].branch, ~IsSeal(log'[w][m]), ~IsSeal(log'[w][n])
        PROVE  log'[w][m].by = log'[w][n].by
    <3>1. CASE w # r
      BY <1>1, <1>6, <2>1, <3>1 DEF BranchHasOneWriter
    <3>2. CASE w = r
      <4>1. \A i \in 1..Len(l) : ~IsSeal(e) /\ ~IsSeal(l[i]) /\ l[i].branch = e.branch
                                    => l[i].by = e.by
        BY DEF EventIsRight
      <4>2. \A i, j \in 1..Len(l) : l[i].branch = l[j].branch /\ ~IsSeal(l[i]) /\ ~IsSeal(l[j])
                                       => l[i].by = l[j].by
        BY <1>1, <1>5 DEF BranchHasOneWriter
      <4>3. m \in 1..(Len(l) + 1) /\ n \in 1..(Len(l) + 1)
        BY <1>5, <1>6, <2>1, <3>2
      <4>4. k[m].branch = k[n].branch /\ ~IsSeal(k[m]) /\ ~IsSeal(k[n])
        BY <1>6, <2>1, <3>2
      <4>5. k[m].by = k[n].by
        <5>1. CASE m \in 1..Len(l) /\ n \in 1..Len(l)
          BY <1>4, <4>2, <4>4, <5>1
        <5>2. CASE m = Len(l) + 1 /\ n \in 1..Len(l)
          BY <1>4, <4>1, <4>4, <5>2
        <5>3. CASE n = Len(l) + 1 /\ m \in 1..Len(l)
          BY <1>4, <4>1, <4>4, <5>3
        <5>4. QED
          BY <1>5, <4>3, <5>1, <5>2, <5>3
      <4>6. QED
        BY <1>6, <3>2, <4>5
    <3>3. QED
      BY <3>1, <3>2
  <2>2. QED
    BY SMTT(30), <2>1 DEF BranchHasOneWriter
<1>17. QED
  BY <1>9, <1>10, <1>11, <1>12, <1>14, <1>15, <1>16 DEF IInv
-----------------------------------------------------------------------------
(* Opening the chat. *)

LEMMA AliveProc ==
  ASSUME IInv, NEW p \in Procs
  PROVE  /\ proc[p] \in ProcRecord
         /\ proc[p].at \in Opening \cup Open =>
              /\ Alive(p) /\ proc[p].run \in Runs
              /\ log[proc[p].run] \in Seq(Events(Procs))
              /\ Len(log[proc[p].run]) \in Nat
              /\ LogIsSound(log[proc[p].run], owners[proc[p].run])
              /\ ProcIsSound(p, proc[p], log[proc[p].run], owners[proc[p].run], Dead)
<1>1. TypeOK /\ LogsAreSound /\ ProcsAreSound
  BY DEF IInv
<1>2. proc[p] \in ProcRecord
  BY <1>1 DEF TypeOK
<1>3. ASSUME proc[p].at \in Opening \cup Open
      PROVE  /\ Alive(p) /\ proc[p].run \in Runs
             /\ log[proc[p].run] \in Seq(Events(Procs))
             /\ LogIsSound(log[proc[p].run], owners[proc[p].run])
             /\ ProcIsSound(p, proc[p], log[proc[p].run], owners[proc[p].run], Dead)
  <2>1. Alive(p)
    BY <1>3 DEF Alive, Opening, Open
  <2>2. /\ proc[p].run \in Runs
        /\ ProcIsSound(p, proc[p], log[proc[p].run], owners[proc[p].run], Dead)
    BY <1>1, <1>3 DEF ProcsAreSound
  <2>3. QED
    BY <1>1, <2>1, <2>2 DEF LogsAreSound
<1>4. proc[p].at \in Opening \cup Open => Len(log[proc[p].run]) \in Nat
  <2>1. \A l \in Seq(Events(Procs)) : Len(l) \in Nat
    OBVIOUS
  <2>2. QED
    BY <1>3, <2>1
<1>5. QED
  BY <1>2, <1>3, <1>4

LEMMA NewRunIsUnused ==
  ASSUME Unused # {}
  PROVE  NewRun \in Unused
<1>1. Unused \in SUBSET Nat
  BY DEF Unused, Runs
<1>2. QED
  BY <1>1, MinIsLeast DEF NewRun

LEMMA CatalogStaysTyped ==
  ASSUME TypeOK, NEW r \in Runs, Rebound(r) \/ FreshlyBound(r)
  PROVE  catalog' \in Catalogs
<1>1. Rebound(r) \/ UNCHANGED catalog
  BY DEF FreshlyBound
<1>2. [run |-> r, branch |-> Main] \in Catalogs
  BY DEF Catalogs, Main
<1>3. QED
  BY <1>1, <1>2 DEF Rebound, TypeOK, Catalogs

LEMMA UnopenedIs ==
  /\ Unopened \in ProcRecord
  /\ Unopened.tip = 0 /\ Unopened.turn = 0 /\ Unopened.op = 0 /\ Unopened.branch = Main
  /\ Unopened.fresh = FALSE
BY DEF Unopened, ProcRecord, Main

(* A run of one's own: nobody else reads it, or knows of it. *)
LEMMA BeginsRun ==
  ASSUME IInv, NEW p \in Procs, Alive(p), Unused # {}, Moves(p, Uninitialised(NewRun)),
         Rebound(NewRun) \/ FreshlyBound(NewRun), UNCHANGED <<log, owners>>
  PROVE  IInv'
<1> DEFINE r == NewRun
           s == Uninitialised(r)
<1>1. r \in Unused
  BY NewRunIsUnused
<1>2. r \in Runs /\ log[r] = <<>> /\ \A q \in Procs : proc[q].run # r
  BY <1>1 DEF Unused
<1> HIDE DEF r
<1>3. /\ s.at = "registering" /\ s.run = r /\ s.fresh /\ s.branch = Main /\ s.tip = 0
      /\ s.turn = 0 /\ s.op = 0
  BY UnopenedIs DEF Uninitialised, ProcRecord
<1>4. s \in ProcRecord
  <2>1. "registering" \in Opening
    BY DEF Opening
  <2>2. QED
    BY <1>2, <2>1, UnopenedIs DEF Uninitialised, ProcRecord
<1>5. s.run = r /\ s.at = "registering"
  BY <1>3
<1>6. OriginIsSound(s, <<>>)
  BY <1>3 DEF OriginIsSound
<1>7. ProcIsSound(p, s, log[r], owners[r], Dead)
  <2>1. WriterIsSound(p, s, <<>>, owners[r])
    BY <1>3, <1>6 DEF WriterIsSound, WorkIsOwn, Open
  <2>2. QED
    BY <1>2, <1>3, <2>1 DEF ProcIsSound, Recovering, Writing
<1>8. BranchIsOwn(p, s)
  BY <1>2, <1>5 DEF BranchIsOwn
<1>9. catalog' \in Catalogs
  BY <1>2, CatalogStaysTyped DEF IInv, r
<1>10. owners' \in [Runs -> SUBSET Procs] /\ \A w \in Runs : owners[w] \subseteq owners'[w]
  BY DEF IInv, TypeOK
<1>11. proc' = [proc EXCEPT ![p] = s]
  BY DEF Moves, r
<1> HIDE DEF s
<1>12. QED
  BY <1>2, <1>4, <1>5, <1>7, <1>8, <1>9, <1>10, <1>11, QuietStep

LEMMA StartFreshKeeps ==
  ASSUME IInv, NEW p \in Procs, StartFresh(p) PROVE IInv'
BY BeginsRun DEF StartFresh, Starts, Alive

LEMMA RebindKeeps ==
  ASSUME IInv, NEW p \in Procs, Rebind(p) PROVE IInv'
BY BeginsRun DEF Rebind, Alive

LEMMA DeclineKeeps ==
  ASSUME IInv, NEW p \in Procs, Decline(p) PROVE IInv'
BY BeginsRun DEF Decline, Alive

(* A step that appends nothing and binds nothing. *)
LEMMA LocalStep ==
  ASSUME IInv, NEW p \in Procs, Alive(p), NEW s \in ProcRecord, Moves(p, s),
         UNCHANGED <<catalog, log, owners>>,
         s.at \in Opening \cup Open =>
            s.run \in Runs /\ ProcIsSound(p, s, log[s.run], owners[s.run], Dead),
         s.at \notin Writing
  PROVE  IInv'
<1>1. BranchIsOwn(p, s)
  BY DEF BranchIsOwn
<1>2. /\ catalog' \in Catalogs
      /\ owners' \in [Runs -> SUBSET Procs] /\ \A w \in Runs : owners[w] \subseteq owners'[w]
  BY DEF IInv, TypeOK, Catalogs
<1>3. s.at \in Opening \cup Open =>
         s.run \in Runs /\ ProcIsSound(p, s, log[s.run], owners'[s.run], Dead)
  OBVIOUS
<1>4. proc' = [proc EXCEPT ![p] = s] /\ UNCHANGED log
  BY DEF Moves
<1>5. QED
  BY <1>1, <1>2, <1>3, <1>4, QuietStep

(* A process that has nothing in its hands. *)
LEMMA NothingToKeep ==
  ASSUME NEW p, NEW s, NEW l, NEW own, NEW dead,
         s.at \in {"reading", "restoring", "rebinding", "rechecking", "declining", "refused", "dead"},
         HoldsNothing(s)
  PROVE  ProcIsSound(p, s, l, own, dead) /\ s.at \notin Writing
BY DEF ProcIsSound, Recovering, Writing, Open

LEMMA OpenBoundKeeps ==
  ASSUME IInv, NEW p \in Procs, OpenBound(p) PROVE IInv'
<1> DEFINE r == IF catalog.run = NoRun THEN NewRun ELSE catalog.run
           s == [Unopened EXCEPT !.at = "reading", !.run = r, !.branch = catalog'.branch]
<1>1. TypeOK
  BY DEF IInv
<1>2. r \in Runs
  <2>1. CASE catalog.run = NoRun
    <3>1. NewRun \in Unused
      BY <2>1, NewRunIsUnused DEF OpenBound
    <3>2. QED
      BY <2>1, <3>1 DEF Unused
  <2>2. CASE catalog.run # NoRun
    BY <1>1, <2>2 DEF TypeOK
  <2>3. QED
    BY <2>1, <2>2
<1>3. FreshlyBound(r) /\ proc' = [proc EXCEPT ![p] = s] /\ UNCHANGED <<log, owners>> /\ Alive(p)
  BY DEF OpenBound, Moves, Starts, Alive
<1> HIDE DEF r
<1>4. catalog' \in Catalogs
  BY <1>1, <1>2, <1>3, CatalogStaysTyped
<1>5. catalog'.branch \in Nat
  BY <1>4 DEF Catalogs
<1>6. "reading" \in Opening
  BY DEF Opening
<1>7. s \in ProcRecord
  BY <1>2, <1>5, <1>6, UnopenedIs DEF ProcRecord
<1>8. s.run = r /\ s.at = "reading" /\ HoldsNothing(s)
  BY UnopenedIs DEF ProcRecord, HoldsNothing
<1> HIDE DEF s
<1>9. ProcIsSound(p, s, log[r], owners[r], Dead) /\ s.at \notin Writing
  BY <1>8, NothingToKeep
<1>10. BranchIsOwn(p, s)
  BY <1>9 DEF BranchIsOwn
<1>11. owners' \in [Runs -> SUBSET Procs] /\ \A w \in Runs : owners[w] \subseteq owners'[w]
  BY <1>1, <1>3 DEF TypeOK
<1>12. ProcIsSound(p, s, log[s.run], owners'[s.run], Dead)
  BY <1>3, <1>8, <1>9
<1>13. QED
  BY <1>2, <1>3, <1>4, <1>7, <1>8, <1>10, <1>11, <1>12, QuietStep

(* What the answers of restore_conversation say of a log. *)
LEMMA VerdictIs ==
  ASSUME NEW l \in Seq(Events(Procs)), NEW own, LogIsSound(l, own), NEW b
  PROVE  /\ Verdict(l, b) \in {"ok", "unrecovered", "invalid", "mismatch"}
         /\ Verdict(l, b) \in {"ok", "unrecovered"} => Len(l) >= 2
         /\ Verdict(l, b) = "ok" => Declared(l, Len(l), b)
<1> DEFINE refused == {n \in DOMAIN l : Foreign(l, n) \/ ~Fits(l, n)}
           choices == {m \in DOMAIN l : l[m].kind \in {"branch", "selected"}}
<1>1. Len(l) \in Nat /\ DOMAIN l = 1..Len(l)
  OBVIOUS
<1>2. /\ \A n \in 1..Len(l) : l[n].kind = "created" <=> n = 1
      /\ \A n \in 1..Len(l) : l[n].kind = "branch" <=> n = 2
  BY DEF LogIsSound, EventIsSound
<1>3. Verdict(l, b) \in {"ok", "unrecovered", "invalid", "mismatch"}
  BY DEF Verdict
<1>4. \A n \in 1..Len(l) : l[n].kind \notin {"created"} => Len(l) >= 2
  BY <1>1, <1>2
<1>5. Verdict(l, b) = "unrecovered" => Len(l) >= 2
  <2>1. SUFFICES ASSUME Verdict(l, b) = "unrecovered" PROVE Len(l) >= 2
    OBVIOUS
  <2>2. PICK n \in TurnsOpen(l, Len(l)) \cup OpsOpen(l, Len(l)) : TRUE
    BY <2>1 DEF Verdict
  <2>3. n \in 1..Len(l) /\ l[n].kind \in {"turn", "intent"}
    BY <2>2 DEF TurnsOpen, OpsOpen
  <2>4. QED
    BY <1>4, <2>3
<1>6. ASSUME Verdict(l, b) = "ok" PROVE Len(l) >= 2 /\ Declared(l, Len(l), b)
  <2>1. refused = {} /\ AnyDeclared(l, Len(l)) /\ SelectedBranch(l) = b
    BY <1>6 DEF Verdict
  <2>2. Len(l) >= 2
    <3>1. PICK n \in 1..Len(l) : Declares(l[n])
      BY <2>1 DEF AnyDeclared
    <3>2. QED
      BY <1>4, <3>1 DEF Declares
  <2>3. 2 \in choices
    BY <1>1, <1>2, <2>2
  <2>4. choices \in SUBSET Nat /\ \A m \in choices : m <= Len(l)
    BY <1>1
  <2>5. SelectedBranch(l) = l[Max(choices)].branch
    BY <2>3 DEF SelectedBranch
  <2>6. Max(choices) \in choices
    <3> HIDE DEF choices
    <3>1. QED
      BY <1>1, <2>3, <2>4, MaxIsGreatest
  <2>7. PICK m \in choices : m = Max(choices)
    BY <2>6
  <2>8. m \in 1..Len(l) /\ l[m].kind \in {"branch", "selected"} /\ l[m].branch = b
    BY <1>1, <2>1, <2>5, <2>7
  <2>9. CASE l[m].kind = "branch"
    BY <2>2, <2>8, <2>9 DEF Declared, Declares
  <2>10. CASE l[m].kind = "selected"
    <3>1. Fits(l, m)
      BY <1>1, <2>1, <2>8
    <3>2. Declared(l, m - 1, b)
      BY <2>8, <2>10, <3>1 DEF Fits, InOrder
    <3>3. 1..(m - 1) \subseteq 1..Len(l)
      BY <1>1, <2>8
    <3>4. QED
      BY <2>2, <3>2, <3>3 DEF Declared
  <2>11. QED
    BY <2>8, <2>9, <2>10
<1>7. QED
  BY <1>3, <1>5, <1>6

LEMMA ReadKeeps ==
  ASSUME IInv, NEW p \in Procs, Read(p) PROVE IInv'
<1> DEFINE s == [proc[p] EXCEPT !.at = IF Len(log[proc[p].run]) = 0 THEN "rebinding"
                                       ELSE "restoring",
                                !.seen = Len(log[proc[p].run])]
<1>1. proc[p].at = "reading" /\ Moves(p, s) /\ UNCHANGED <<catalog, log, owners>>
  BY DEF Read
<1>2. /\ proc[p] \in ProcRecord /\ Alive(p) /\ proc[p].run \in Runs
      /\ Len(log[proc[p].run]) \in Nat /\ HoldsNothing(proc[p])
  BY <1>1, AliveProc DEF Opening, ProcIsSound, Writing, Open
<1>3. s \in ProcRecord
  BY <1>2 DEF ProcRecord, Opening
<1>4. s.at \in {"rebinding", "restoring"} /\ s.run = proc[p].run /\ HoldsNothing(s)
  BY <1>2 DEF ProcRecord, HoldsNothing
<1> HIDE DEF s
<1>5. ProcIsSound(p, s, log[s.run], owners[s.run], Dead) /\ s.at \notin Writing
  BY <1>4, NothingToKeep
<1>6. QED
  BY <1>1, <1>2, <1>3, <1>4, <1>5, LocalStep

(* A process that was answered. *)
LEMMA RemembersKeeps ==
  ASSUME IInv, NEW p \in Procs, proc[p].at \in {"restoring", "rechecking"},
         NEW place \in {"forking", "asking", "rebinding", "refused", "declining"},
         place = "forking" => Restored(p) = "ok",
         place = "asking" => Restored(p) = "unrecovered",
         Moves(p, Remembering(p, place)), UNCHANGED <<catalog, log, owners>>
  PROVE  IInv'
<1> DEFINE l == log[proc[p].run]
           s == Remembering(p, place)
<1>1. /\ proc[p] \in ProcRecord /\ Alive(p) /\ proc[p].run \in Runs
      /\ l \in Seq(Events(Procs)) /\ LogIsSound(l, owners[proc[p].run])
      /\ HoldsNothing(proc[p])
  BY AliveProc DEF Opening, ProcIsSound, Writing, Open
<1>2. Tip(l, proc[p].seen, proc[p].branch) \in Nat
  <2>1. proc[p].seen \in Nat
    BY <1>1 DEF ProcRecord
  <2>2. Tip(l, proc[p].seen, proc[p].branch) \in 0..proc[p].seen
    BY <2>1, TipIs
  <2>3. QED
    BY <2>1, <2>2
<1>3. s \in ProcRecord
  BY <1>1, <1>2 DEF Remembering, ProcRecord, Opening, Ended
<1>4. /\ s.at = place /\ s.run = proc[p].run /\ s.branch = proc[p].branch /\ s.done = 0
      /\ HoldsNothing(s)
  BY <1>1 DEF Remembering, ProcRecord, HoldsNothing
<1>5. /\ Restored(p) \in {"ok", "unrecovered"} => Len(l) >= 2
      /\ Restored(p) = "ok" => Declared(l, Len(l), proc[p].branch)
  BY <1>1, VerdictIs DEF Restored
<1> HIDE DEF s
<1>6. s.at \notin Writing /\ s.at \notin Recovering
  BY <1>4 DEF Writing, Recovering, Open
<1>7. ProcIsSound(p, s, l, owners[proc[p].run], Dead)
  BY <1>4, <1>5, <1>6 DEF ProcIsSound, Recovering
<1>8. QED
  BY <1>1, <1>3, <1>4, <1>6, <1>7, LocalStep DEF s

LEMMA RestoreKeeps ==
  ASSUME IInv, NEW p \in Procs, Restore(p) PROVE IInv'
<1> DEFINE place == AfterRestore(Restored(p))
<1>1. /\ proc[p].at = "restoring" /\ Moves(p, Remembering(p, place))
      /\ UNCHANGED <<catalog, log, owners>>
  BY DEF Restore
<1>2. Restored(p) \in {"ok", "unrecovered", "invalid", "mismatch"}
  <2>1. log[proc[p].run] \in Seq(Events(Procs)) /\ LogIsSound(log[proc[p].run], owners[proc[p].run])
    BY <1>1, AliveProc DEF Opening
  <2>2. QED
    BY <2>1, VerdictIs DEF Restored
<1>3. /\ place \in {"forking", "asking", "rebinding", "refused"}
      /\ place = "forking" => Restored(p) = "ok"
      /\ place = "asking" => Restored(p) = "unrecovered"
  BY <1>2 DEF AfterRestore
<1> HIDE DEF place
<1>4. QED
  BY <1>1, <1>3, RemembersKeeps

LEMMA RecheckKeeps ==
  ASSUME IInv, NEW p \in Procs, Recheck(p) PROVE IInv'
<1> DEFINE place == IF Restored(p) = "ok" THEN "forking" ELSE "declining"
<1>1. /\ proc[p].at = "rechecking" /\ Moves(p, Remembering(p, place))
      /\ UNCHANGED <<catalog, log, owners>>
  BY DEF Recheck
<1>2. place \in {"forking", "declining"} /\ (place = "forking" => Restored(p) = "ok")
  OBVIOUS
<1> HIDE DEF place
<1>3. QED
  BY <1>1, <1>2, RemembersKeeps

LEMMA AskOwnersKeeps ==
  ASSUME IInv, NEW p \in Procs, AskOwners(p) PROVE IInv'
<1> DEFINE r == proc[p].run
           l == log[r]
           s == [proc[p] EXCEPT !.at = IF MayHaveWriter(r) THEN "declining" ELSE "planning",
                                !.checked = Len(l)]
<1>1. proc[p].at = "asking" /\ Moves(p, s) /\ UNCHANGED <<catalog, log, owners>>
  BY DEF AskOwners
<1>2. /\ proc[p] \in ProcRecord /\ Alive(p) /\ r \in Runs
      /\ Len(l) \in Nat /\ LogIsSound(l, owners[r]) /\ ProcIsSound(p, proc[p], l, owners[r], Dead)
      /\ HoldsNothing(proc[p])
  BY <1>1, AliveProc DEF Opening, ProcIsSound, Writing, Open
<1>3. s \in ProcRecord
  BY <1>2 DEF ProcRecord, Opening
<1>4. /\ s.at = (IF MayHaveWriter(r) THEN "declining" ELSE "planning")
      /\ s.run = r /\ s.checked = Len(l) /\ s.done = proc[p].done /\ HoldsNothing(s)
  BY <1>2 DEF ProcRecord, HoldsNothing
<1> HIDE DEF s
<1>5. CASE MayHaveWriter(r)
  <2>1. ProcIsSound(p, s, log[s.run], owners[s.run], Dead) /\ s.at \notin Writing
    BY <1>4, <1>5, NothingToKeep
  <2>2. QED
    BY <1>1, <1>2, <1>3, <1>4, <2>1, LocalStep
<1>6. CASE ~MayHaveWriter(r)
  <2>1. s.at = "planning" /\ s.at \notin Writing
    BY <1>4, <1>6 DEF Writing, Open
  <2>2. owners[r] \subseteq Dead
    <3>1. owners[r] \in SUBSET Procs
      BY <1>2 DEF IInv, TypeOK
    <3>2. QED
      BY <1>6, <3>1 DEF MayHaveWriter, Dead
  <2>3. Len(l) >= 2 /\ s.done = 0
    BY <1>1, <1>2, <1>4 DEF ProcIsSound
  <2>4. OwnersWereDead(s, l, Dead)
    <3>1. s.checked \in 1..Len(l)
      <4>1. s.checked = Len(l) /\ Len(l) \in Nat /\ Len(l) >= 2
        BY <1>2, <1>4, <2>3
      <4>2. QED
        BY <4>1
    <3>2. \A n \in 1..Len(l) : l[n].kind \in {"created", "turn"} => l[n].by \in owners[r]
      BY <1>2 DEF LogIsSound, EventIsSound
    <3>3. QED
      BY <1>4, <2>2, <3>1, <3>2 DEF OwnersWereDead
  <2>5. ProcIsSound(p, s, l, owners[r], Dead)
    BY <1>4, <2>1, <2>3, <2>4 DEF ProcIsSound, Recovering
  <2>6. QED
    BY <1>1, <1>2, <1>3, <1>4, <2>1, <2>5, LocalStep
<1>7. QED
  BY <1>5, <1>6

LEMMA PlanKeeps ==
  ASSUME IInv, NEW p \in Procs, Plan(p) PROVE IInv'
<1> DEFINE l == log[proc[p].run]
           s == [proc[p] EXCEPT !.at = "sealing", !.seen = Len(l)]
<1>1. proc[p].at = "planning" /\ Moves(p, s) /\ UNCHANGED <<catalog, log, owners>>
  BY DEF Plan
<1>2. /\ proc[p] \in ProcRecord /\ Alive(p) /\ proc[p].run \in Runs
      /\ l \in Seq(Events(Procs)) /\ Len(l) \in Nat
      /\ ProcIsSound(p, proc[p], l, owners[proc[p].run], Dead)
  BY <1>1, AliveProc DEF Opening
<1>3. s \in ProcRecord
  BY <1>2 DEF ProcRecord, Opening
<1>4. /\ s.at = "sealing" /\ s.run = proc[p].run /\ s.seen = Len(l)
      /\ s.checked = proc[p].checked /\ s.done = proc[p].done
      /\ HoldsNothing(proc[p]) => HoldsNothing(s)
  BY <1>2 DEF ProcRecord, HoldsNothing
<1> HIDE DEF s
<1>5. Len(l) >= 2 /\ OwnersWereDead(proc[p], l, Dead) /\ s.done = 0 /\ HoldsNothing(s)
  BY <1>1, <1>2, <1>4 DEF ProcIsSound, Recovering, Writing, Open
<1>6. OwnersWereDead(s, l, Dead)
  BY <1>4, <1>5 DEF OwnersWereDead
<1>7. SealsFollowPlan(s, l)
  <2>1. SubSeq(l, 1, s.seen) \in Seq(Events(Procs))
    BY <1>2, <1>4
  <2>2. Len(Seals(SubSeq(l, 1, s.seen))) \in Nat
    BY <2>1, SealsAre
  <2>3. QED
    BY <1>2, <1>4, <1>5, <2>2 DEF SealsFollowPlan
<1>8. s.at \notin Writing
  BY <1>4 DEF Writing, Open
<1>9. ProcIsSound(p, s, l, owners[proc[p].run], Dead)
  BY <1>4, <1>5, <1>6, <1>7, <1>8 DEF ProcIsSound
<1>10. QED
  BY <1>1, <1>2, <1>3, <1>4, <1>8, <1>9, LocalStep

LEMMA LoseRaceKeeps ==
  ASSUME IInv, NEW p \in Procs, LoseRace(p) PROVE IInv'
<1> DEFINE s == [proc[p] EXCEPT !.at = "declining"]
<1>1. proc[p].at = "sealing" /\ Moves(p, s) /\ UNCHANGED <<catalog, log, owners>>
  BY DEF LoseRace, Goes
<1>2. proc[p] \in ProcRecord /\ Alive(p) /\ proc[p].run \in Runs /\ HoldsNothing(proc[p])
  BY <1>1, AliveProc DEF Opening, ProcIsSound, Writing, Open
<1>3. s \in ProcRecord /\ s.at = "declining" /\ s.run = proc[p].run /\ HoldsNothing(s)
  BY <1>2 DEF ProcRecord, Opening, HoldsNothing
<1> HIDE DEF s
<1>4. ProcIsSound(p, s, log[s.run], owners[s.run], Dead) /\ s.at \notin Writing
  BY <1>3, NothingToKeep
<1>5. QED
  BY <1>1, <1>2, <1>3, <1>4, LocalStep

LEMMA EndSealingKeeps ==
  ASSUME IInv, NEW p \in Procs, EndSealing(p) PROVE IInv'
<1> DEFINE s == [proc[p] EXCEPT !.at = "rechecking", !.seen = Len(log[proc[p].run])]
<1>1. proc[p].at = "sealing" /\ Moves(p, s) /\ UNCHANGED <<catalog, log, owners>>
  BY DEF EndSealing
<1>2. /\ proc[p] \in ProcRecord /\ Alive(p) /\ proc[p].run \in Runs
      /\ Len(log[proc[p].run]) \in Nat /\ HoldsNothing(proc[p])
  BY <1>1, AliveProc DEF Opening, ProcIsSound, Writing, Open
<1>3. s \in ProcRecord /\ s.at = "rechecking" /\ s.run = proc[p].run /\ HoldsNothing(s)
  BY <1>2 DEF ProcRecord, Opening, HoldsNothing
<1> HIDE DEF s
<1>4. ProcIsSound(p, s, log[s.run], owners[s.run], Dead) /\ s.at \notin Writing
  BY <1>3, NothingToKeep
<1>5. QED
  BY <1>1, <1>2, <1>3, <1>4, LocalStep

LEMMA PublishKeeps ==
  ASSUME IInv, NEW p \in Procs, Publish(p) PROVE IInv'
<1> DEFINE r == proc[p].run
           l == log[r]
           s == [proc[p] EXCEPT !.at = "registering"]
<1>1. /\ proc[p].at = "publishing" /\ proc' = [proc EXCEPT ![p] = s] /\ UNCHANGED <<log, owners>>
      /\ catalog' = [catalog EXCEPT !.branch = IF catalog.run = r THEN proc[p].branch ELSE @]
  BY DEF Publish, Goes, Moves
<1>2. /\ proc[p] \in ProcRecord /\ Alive(p) /\ r \in Runs
      /\ ProcIsSound(p, proc[p], l, owners[r], Dead)
  BY <1>1, AliveProc DEF Opening
<1>3. s \in ProcRecord
  BY <1>2 DEF ProcRecord, Opening
<1>4. /\ s.at = "registering" /\ s.run = r /\ s.branch = proc[p].branch /\ s.tip = proc[p].tip
      /\ s.fresh = proc[p].fresh /\ s.turn = proc[p].turn /\ s.op = proc[p].op
  BY <1>2 DEF ProcRecord
<1> HIDE DEF s
<1>5. s.at \in Writing /\ proc[p].at \in Writing /\ s.at \notin Open /\ s.at \notin Recovering
  BY <1>1, <1>4 DEF Writing, Open, Recovering
<1>6. WriterIsSound(p, proc[p], l, owners[r])
  BY <1>2, <1>5 DEF ProcIsSound
<1>7. ~proc[p].fresh /\ proc[p].turn = 0 /\ proc[p].op = 0
  BY <1>1, <1>6 DEF WriterIsSound, WorkIsOwn, OriginIsSound, Open
<1>8. WriterIsCurrent(proc[p], l) => WriterIsCurrent(s, l)
  BY <1>4 DEF WriterIsCurrent, WorkIsOpen
<1>9. WriterIsSound(p, s, l, owners[r])
  BY <1>4, <1>5, <1>6, <1>7, <1>8 DEF WriterIsSound, WorkIsOwn
<1>10. ProcIsSound(p, s, l, owners[r], Dead)
  BY <1>4, <1>5, <1>9 DEF ProcIsSound
<1>11. BranchIsOwn(p, s)
  BY <1>4, <1>5 DEF BranchIsOwn, IInv, BranchesAreApart
<1>12. catalog' \in Catalogs
  BY <1>1, <1>2 DEF IInv, TypeOK, Catalogs, ProcRecord
<1>13. owners' \in [Runs -> SUBSET Procs] /\ \A w \in Runs : owners[w] \subseteq owners'[w]
  BY <1>1 DEF IInv, TypeOK
<1>14. ProcIsSound(p, s, log[s.run], owners'[s.run], Dead)
  BY <1>1, <1>4, <1>10
<1>15. QED
  BY <1>1, <1>2, <1>3, <1>4, <1>11, <1>12, <1>13, <1>14, QuietStep

LEMMA RegisterOwnerKeeps ==
  ASSUME IInv, NEW p \in Procs, RegisterOwner(p) PROVE IInv'
<1> DEFINE r == proc[p].run
           l == log[r]
           s == [proc[p] EXCEPT !.at = "ready"]
<1>1. /\ proc[p].at = "registering" /\ proc' = [proc EXCEPT ![p] = s] /\ UNCHANGED <<catalog, log>>
      /\ owners' = [owners EXCEPT ![r] = @ \cup {p}]
  BY DEF RegisterOwner, Goes, Moves
<1>2. /\ proc[p] \in ProcRecord /\ Alive(p) /\ r \in Runs
      /\ ProcIsSound(p, proc[p], l, owners[r], Dead)
  BY <1>1, AliveProc DEF Opening
<1>3. s \in ProcRecord
  BY <1>2 DEF ProcRecord, Open
<1>4. /\ s.at = "ready" /\ s.run = r /\ s.branch = proc[p].branch /\ s.tip = proc[p].tip
      /\ s.fresh = proc[p].fresh /\ s.turn = proc[p].turn /\ s.op = proc[p].op
  BY <1>2 DEF ProcRecord
<1> HIDE DEF s
<1>5. s.at \in Writing /\ proc[p].at \in Writing /\ s.at \in Open /\ s.at \notin Recovering
      /\ proc[p].at \notin Open
  BY <1>1, <1>4 DEF Writing, Open, Recovering
<1>6. owners' \in [Runs -> SUBSET Procs] /\ (\A w \in Runs : owners[w] \subseteq owners'[w])
      /\ p \in owners'[r]
  BY <1>1, <1>2 DEF IInv, TypeOK
<1>7. WriterIsSound(p, proc[p], l, owners[r])
  BY <1>2, <1>5 DEF ProcIsSound
<1>8. WriterIsCurrent(proc[p], l) => WriterIsCurrent(s, l)
  BY <1>4 DEF WriterIsCurrent, WorkIsOpen
<1>9. OriginIsSound(proc[p], l) => OriginIsSound(s, l)
  BY <1>4 DEF OriginIsSound
<1>10. WriterIsSound(p, s, l, owners'[r])
  BY <1>4, <1>5, <1>6, <1>7, <1>8, <1>9 DEF WriterIsSound, WorkIsOwn
<1>11. ProcIsSound(p, s, l, owners'[r], Dead)
  BY <1>4, <1>5, <1>10 DEF ProcIsSound
<1>12. BranchIsOwn(p, s)
  BY <1>4, <1>5 DEF BranchIsOwn, IInv, BranchesAreApart
<1>13. catalog' \in Catalogs
  BY <1>1 DEF IInv, TypeOK, Catalogs
<1>14. QED
  BY <1>1, <1>2, <1>3, <1>4, <1>6, <1>11, <1>12, <1>13, QuietStep

LEMMA ExitKeeps ==
  ASSUME IInv, NEW p \in Procs, Exit(p) PROVE IInv'
<1> DEFINE s == [Unopened EXCEPT !.at = "dead"]
<1>1. proc[p].at \notin Ended /\ Moves(p, s) /\ UNCHANGED <<catalog, log, owners>>
  BY DEF Exit
<1>2. Alive(p)
  BY <1>1 DEF Alive, Ended
<1>3. s \in ProcRecord /\ s.at = "dead"
  BY UnopenedIs DEF ProcRecord, Ended
<1> HIDE DEF s
<1>4. s.at \notin Opening \cup Open /\ s.at \notin Writing
  BY <1>3 DEF Opening, Open, Writing
<1>5. QED
  BY <1>1, <1>2, <1>3, <1>4, LocalStep
-----------------------------------------------------------------------------
(* Writing. *)

(* What append_for appends. *)
OwnEvent(p, kind, branch, of, how) ==
    [kind |-> kind, branch |-> branch, cause |-> proc[p].tip, of |-> of,
     how |-> how, by |-> p, checked |-> -1]

LEMMA OwnEventIs ==
  ASSUME NEW p \in Procs, proc[p] \in ProcRecord, NEW kind \in Kinds, NEW branch \in Int, NEW of \in Nat,
         NEW how \in {"none", "completed", "interrupted", "unknown"}
  PROVE  LET e == OwnEvent(p, kind, branch, of, how)
         IN  /\ e \in Events(Procs) /\ ~IsSeal(e)
             /\ e.kind = kind /\ e.branch = branch /\ e.of = of /\ e.by = p
             /\ e.cause = proc[p].tip /\ e.how = how
<1>1. proc[p].tip \in Nat
  BY DEF ProcRecord
<1> DEFINE e == OwnEvent(p, kind, branch, of, how)
<1>2. /\ e.kind = kind /\ e.branch = branch /\ e.of = of /\ e.by = p
      /\ e.cause = proc[p].tip /\ e.how = how /\ e.checked = -1
  BY DEF OwnEvent
<1>3. ~IsSeal(e)
  <2>1. ~(-1 >= 0)
    OBVIOUS
  <2> HIDE DEF e
  <2>2. QED
    BY <1>2, <2>1 DEF IsSeal
<1>4. e \in Events(Procs)
  <2> DEFINE tip == proc[p].tip
  <2>1. tip \in Nat /\ -1 \in Int
    BY <1>1
  <2> HIDE DEF tip
  <2>2. [kind |-> kind, branch |-> branch, cause |-> tip, of |-> of,
         how |-> how, by |-> p, checked |-> -1] \in Events(Procs)
    BY <2>1 DEF Events
  <2>3. QED
    BY <2>2 DEF OwnEvent, tip
<1>5. QED
  BY <1>2, <1>3, <1>4

LEMMA OwnEventIsRight ==
  ASSUME NEW l \in Seq(Events(Procs)), NEW own, NEW e \in Events(Procs), ~IsSeal(e),
         EventIsSound(Append(l, e), Len(l) + 1, own),
         e.kind = "child" => \A m \in 1..Len(l) : l[m].kind # "child",
         SealedUnseen(Append(l, e)) \/ Readable(Append(l, e), Len(l) + 1),
         \A m \in 1..Len(l) : ~IsSeal(l[m]) /\ l[m].branch = e.branch => l[m].by = e.by
  PROVE  EventIsRight(l, e, own)
<1>1. Append(l, e)[Len(l) + 1] = e
  BY AppendIs
<1>2. ~SealsWork(Append(l, e), Len(l) + 1)
  BY <1>1 DEF SealsWork
<1>3. QED
  BY <1>2 DEF EventIsRight

(* A declared branch has the number of an event. *)
LEMMA DeclaredIsOld ==
  ASSUME NEW l \in Seq(Events(Procs)), NEW own, LogIsSound(l, own), NEW b, Declared(l, Len(l), b)
  PROVE  b \in 0..Len(l)
<1>1. PICK m \in 1..Len(l) : Declares(l[m]) /\ l[m].branch = b
  BY DEF Declared
<1>2. EventIsSound(l, m, own) /\ Len(l) \in Nat
  BY DEF LogIsSound
<1>3. l[m].kind \in {"branch", "forked"}
  BY <1>1 DEF Declares
<1>4. ~IsSeal(l[m]) /\ l[m].branch # NoBranch
  BY <1>2, <1>3 DEF EventIsSound, SealKinds
<1>5. l[m].branch \in 0..m
  BY <1>2, <1>4 DEF EventIsSound
<1>6. QED
  BY <1>1, <1>2, <1>5

(* A run has two writers only once its creator has declared its branch. *)
LEMMA OtherIsNotFresh ==
  ASSUME IInv, NEW p \in Procs, NEW q \in Procs \ {p}, proc[q].run = proc[p].run,
         proc[q].at \in Writing,
         \/ proc[p].at \in Writing
         \/ Len(log[proc[p].run]) >= 2
  PROVE  ~proc[q].fresh
<1> DEFINE l == log[proc[p].run]
<1>1. SUFFICES ASSUME proc[q].fresh PROVE FALSE
  OBVIOUS
<1>2. Writing \subseteq Opening \cup Open /\ (\A s : s \in Writing => s \notin {"asking"})
  BY DEF Writing, Opening, Open
<1>3. WriterIsSound(q, proc[q], l, owners[proc[p].run]) /\ Len(l) \in Nat
  BY <1>2, AliveProc DEF ProcIsSound
<1>4. proc[q].branch = Main /\ Len(l) <= 1
  BY <1>1, <1>3 DEF WriterIsSound, OriginIsSound
<1>5. CASE proc[p].at \in Writing
  <2>1. WriterIsSound(p, proc[p], l, owners[proc[p].run])
    BY <1>2, <1>5, AliveProc DEF ProcIsSound
  <2>2. proc[p].fresh
    BY <1>3, <1>4, <2>1 DEF WriterIsSound
  <2>3. proc[p].branch = Main
    BY <2>1, <2>2 DEF WriterIsSound, OriginIsSound
  <2>4. QED
    BY <1>4, <1>5, <2>3 DEF IInv, BranchesAreApart
<1>6. QED
  BY <1>3, <1>4, <1>5

(* An event on one's own branch, about one's own turn and operation. *)
LEMMA OwnIsHarmless ==
  ASSUME IInv, NEW p \in Procs, proc[p].at \in Writing, NEW q \in Procs \ {p},
         proc[q].run = proc[p].run, NEW e, ~IsSeal(e), e.branch \in {proc[p].branch, NoBranch},
         e.kind \in {"intent", "closed"} => proc[p].turn # 0 /\ e.of = proc[p].turn,
         e.kind = "result" => proc[p].op # 0 /\ e.of = proc[p].op
  PROVE  Harmless(proc[q], log[proc[p].run], e)
<1> DEFINE l == log[proc[p].run]
<1>1. SUFFICES ASSUME proc[q].at \in Writing PROVE Harmless(proc[q], l, e)
  BY DEF Harmless
<1>2. Writing \subseteq Opening \cup Open
  BY DEF Writing, Opening, Open
<1>3. /\ WriterIsSound(p, proc[p], l, owners[proc[p].run])
      /\ WriterIsSound(q, proc[q], l, owners[proc[p].run])
  BY <1>1, <1>2, AliveProc DEF ProcIsSound
<1>4. ~proc[q].fresh
  BY <1>1, OtherIsNotFresh
<1>5. e.branch # proc[q].branch
  <2>1. proc[q].branch \in Nat
    BY AliveProc DEF ProcRecord
  <2>2. proc[q].branch # proc[p].branch
    BY <1>1 DEF IInv, BranchesAreApart
  <2>3. QED
    BY <2>1, <2>2 DEF NoBranch
<1>6. /\ proc[p].turn # 0 => l[proc[p].turn].by = p
      /\ proc[q].turn # 0 => l[proc[q].turn].by = q
      /\ proc[p].op # 0 => l[proc[p].op].by = p
      /\ proc[q].op # 0 => l[proc[q].op].by = q
  BY <1>3 DEF WriterIsSound, WorkIsOwn
<1>7. QED
  BY <1>4, <1>5, <1>6 DEF Harmless

(* What an initialised writer appends to its branch fits the log ... *)
LEMMA OwnEventFits ==
  ASSUME NEW p \in Procs, NEW own, NEW t \in ProcRecord, t.at \in Writing, ~t.fresh,
         NEW l \in Seq(Events(Procs)), LogIsSound(l, own), WriterIsSound(p, t, l, own),
         NEW e \in Events(Procs), ~IsSeal(e), e.branch = t.branch, e.cause = t.tip, e.by = p,
         e.kind \in {"selected", "turn", "intent", "started", "result", "closed"},
         e.kind \in {"intent", "closed"} => t.turn # 0 /\ e.of = t.turn,
         e.kind \in {"started", "result"} => t.op # 0 /\ e.of = t.op,
         e.kind = "turn" => p \in own,
         ~SealedUnseen(l) => InOrder(Append(l, e), Len(l) + 1)
  PROVE  EventIsRight(l, e, own)
<1> DEFINE k == Append(l, e)
           n == Len(l) + 1
<1>1. /\ Len(l) >= 2 /\ Declared(l, Len(l), t.branch)
      /\ SealedUnseen(l) \/ WriterIsCurrent(t, l)
      /\ WorkIsOwn(p, t, l)
      /\ \A m \in 1..Len(l) : ~IsSeal(l[m]) /\ l[m].branch = t.branch => l[m].by = p
  BY DEF WriterIsSound
<1>2. /\ Len(l) \in Nat /\ k[n] = e /\ Len(k) = n
      /\ \A m \in 1..Len(l) : k[m] = l[m]
  BY AppendIs
<1>3. Agree(k, Len(l), l)
  BY <1>2 DEF Agree
<1>4. ~SealedUnseen(l) => InOrder(k, n)
  OBVIOUS
<1>5. SealedUnseen(l) => SealedUnseen(k)
  BY SealedUnseenStays DEF LogIsSound
<1> SUFFICES EventIsSound(k, n, own) /\ (SealedUnseen(k) \/ Readable(k, n))
  BY <1>1, OwnEventIsRight
<1> HIDE DEF k
<1>6. n - 1 = Len(l) /\ n >= 3 /\ n \in Nat
  BY <1>1, <1>2
<1> HIDE DEF n
<1>7. /\ \A b : Declared(k, n - 1, b) <=> Declared(l, Len(l), b)
      /\ \A b : Tip(k, n - 1, b) = Tip(l, Len(l), b)
  BY <1>2, <1>3, <1>6, SameReading
<1>8. t.branch \in 0..Len(l)
  BY <1>1, DeclaredIsOld
<1>9. EventIsSound(k, n, own)
  <2>1. n # 1 /\ n # 2 /\ ~(n <= 2)
    BY <1>6
  <2>2. t.branch \in {NoBranch} \cup 0..n /\ t.branch # NoBranch
    BY <1>2, <1>6, <1>8 DEF NoBranch
  <2>3. Declared(k, n - 1, t.branch)
    BY <1>1, <1>7
  <2>4. /\ t.turn # 0 => t.turn \in 1..(n - 1) /\ k[t.turn].kind = "turn" /\ k[t.turn].by = p
        /\ t.op # 0 => t.op \in 1..(n - 1) /\ k[t.op].kind = "intent" /\ k[t.op].by = p
    BY <1>1, <1>2, <1>6 DEF WorkIsOwn
  <2>5. QED
    BY <1>2, <2>1, <2>2, <2>3, <2>4 DEF EventIsSound
<1>10. ~SealedUnseen(l) => Readable(k, n)
  <2>1. ~SealedUnseen(l) => ExtendsTip(k, n)
    BY <1>1, <1>2, <1>7 DEF ExtendsTip, WriterIsCurrent
  <2>2. OnKnownBranch(k, n)
    BY <1>1, <1>2, <1>7 DEF OnKnownBranch
  <2>3. QED
    BY <1>4, <2>1, <2>2 DEF Readable, Fits
<1>11. QED
  BY <1>5, <1>9, <1>10

(* ... and leaves it a sound writer. *)
LEMMA OwnStateFits ==
  ASSUME NEW p \in Procs, NEW own, NEW dead, NEW t \in ProcRecord, t.at \in Writing, ~t.fresh,
         NEW l \in Seq(Events(Procs)), LogIsSound(l, own), WriterIsSound(p, t, l, own),
         NEW e \in Events(Procs), e.branch = t.branch, e.by = p,
         NEW s \in ProcRecord, s.at \in Writing, s.branch = t.branch, ~s.fresh, s.tip = Len(l) + 1,
         s.at \in Open => p \in own, s.at \notin Open => s.turn = 0 /\ s.op = 0,
         WorkIsOwn(p, s, Append(l, e)), ~SealedUnseen(l) => WorkIsOpen(s, Append(l, e))
  PROVE  ProcIsSound(p, s, Append(l, e), own, dead)
<1> DEFINE k == Append(l, e)
<1>1. /\ Len(l) >= 2 /\ Declared(l, Len(l), t.branch)
      /\ \A m \in 1..Len(l) : ~IsSeal(l[m]) /\ l[m].branch = t.branch => l[m].by = p
  BY DEF WriterIsSound
<1>2. /\ Len(l) \in Nat /\ Len(k) = Len(l) + 1 /\ k[Len(l) + 1] = e
      /\ \A m \in 1..Len(l) : k[m] = l[m]
  BY AppendIs
<1>3. Declared(k, Len(k), s.branch)
  BY <1>1, OneMoreEvent
<1>4. Tip(k, Len(l) + 1, e.branch) = Len(l) + 1
  BY OneMoreTip
<1>5. SealedUnseen(l) => SealedUnseen(k)
  BY SealedUnseenStays DEF LogIsSound
<1>6. WorkIsOwn(p, s, k) /\ (~SealedUnseen(l) => WorkIsOpen(s, k))
  OBVIOUS
<1> SUFFICES ProcIsSound(p, s, k, own, dead)
  OBVIOUS
<1> HIDE DEF k
<1>7. \A m \in 1..Len(k) : ~IsSeal(k[m]) /\ k[m].branch = s.branch => k[m].by = p
  <2>1. 1..Len(k) = 1..Len(l) \cup {Len(l) + 1}
    BY <1>2
  <2>2. QED
    BY <1>1, <1>2, <2>1
<1>8. SealedUnseen(k) \/ WriterIsCurrent(s, k)
  BY <1>2, <1>4, <1>5, <1>6 DEF WriterIsCurrent
<1>9. Len(k) >= 2
  BY <1>1, <1>2
<1>10. WriterIsSound(p, s, k, own)
  BY <1>3, <1>6, <1>7, <1>8, <1>9 DEF WriterIsSound
<1>11. s.at \notin {"asking", "planning", "forking"} \cup Recovering /\ s.at # "sealing"
  BY DEF Writing, Open, Recovering
<1>12. QED
  BY <1>10, <1>11 DEF ProcIsSound

(* What a writer's own event has to be, for the history to stay sound. *)
OwnMove(p, kind, of, how, l, e, s) ==
    /\ proc[p].at \in Writing /\ ~proc[p].fresh
    /\ kind \in {"selected", "turn", "intent", "started", "result", "closed"}
    /\ of \in Nat /\ how \in {"none", "completed", "interrupted", "unknown"}
    /\ l = log[proc[p].run] /\ e = OwnEvent(p, kind, proc[p].branch, of, how)
    /\ kind \in {"intent", "closed"} => proc[p].turn # 0 /\ of = proc[p].turn
    /\ kind \in {"started", "result"} => proc[p].op # 0 /\ of = proc[p].op
    /\ kind = "turn" => p \in owners[proc[p].run]
    /\ ~SealedUnseen(l) => InOrder(Append(l, e), Len(l) + 1)
    /\ s \in ProcRecord /\ s.at \in Writing /\ s.run = proc[p].run /\ s.branch = proc[p].branch
    /\ ~s.fresh /\ s.tip = Len(l) + 1
    /\ s.at \in Open => p \in owners[proc[p].run]
    /\ s.at \notin Open => s.turn = 0 /\ s.op = 0
    /\ WorkIsOwn(p, s, Append(l, e)) /\ (~SealedUnseen(l) => WorkIsOpen(s, Append(l, e)))
    /\ Moves(p, s) /\ Appended(p, kind, proc[p].branch, of, how) /\ UNCHANGED <<catalog, owners>>

(* An initialised writer appends an event to its branch. *)
LEMMA OwnStep ==
  ASSUME IInv, NEW p \in Procs, NEW kind, NEW of, NEW how, NEW l, NEW e, NEW s,
         OwnMove(p, kind, of, how, l, e, s)
  PROVE  IInv'
<1>0. /\ proc[p].at \in Writing /\ ~proc[p].fresh
      /\ kind \in {"selected", "turn", "intent", "started", "result", "closed"}
      /\ of \in Nat /\ how \in {"none", "completed", "interrupted", "unknown"}
      /\ l = log[proc[p].run] /\ e = OwnEvent(p, kind, proc[p].branch, of, how)
      /\ kind \in {"intent", "closed"} => proc[p].turn # 0 /\ of = proc[p].turn
      /\ kind \in {"started", "result"} => proc[p].op # 0 /\ of = proc[p].op
      /\ kind = "turn" => p \in owners[proc[p].run]
      /\ ~SealedUnseen(l) => InOrder(Append(l, e), Len(l) + 1)
      /\ s \in ProcRecord /\ s.at \in Writing /\ s.run = proc[p].run /\ s.branch = proc[p].branch
      /\ ~s.fresh /\ s.tip = Len(l) + 1
      /\ s.at \in Open => p \in owners[proc[p].run]
      /\ s.at \notin Open => s.turn = 0 /\ s.op = 0
      /\ WorkIsOwn(p, s, Append(l, e)) /\ (~SealedUnseen(l) => WorkIsOpen(s, Append(l, e)))
      /\ Moves(p, s) /\ Appended(p, kind, proc[p].branch, of, how) /\ UNCHANGED <<catalog, owners>>
  BY DEF OwnMove
<1> USE <1>0
<1> DEFINE r == proc[p].run
           own == owners[proc[p].run]
           t == proc[p]
<1>1. Writing \subseteq Opening \cup Open
  BY DEF Writing, Opening, Open
<1>2. /\ t \in ProcRecord /\ Alive(p) /\ r \in Runs /\ l \in Seq(Events(Procs))
      /\ LogIsSound(l, own) /\ ProcIsSound(p, t, l, own, Dead)
  BY <1>1, AliveProc
<1>3. WriterIsSound(p, t, l, own)
  BY <1>2 DEF ProcIsSound
<1>4. /\ e \in Events(Procs) /\ ~IsSeal(e)
      /\ e.kind = kind /\ e.branch = t.branch /\ e.of = of /\ e.by = p
      /\ e.cause = t.tip
  <2>1. kind \in Kinds
    BY DEF Kinds
  <2>2. t.branch \in Int
    BY <1>2 DEF ProcRecord
  <2>3. t \in ProcRecord
    BY <1>2
  <2> DEFINE f == OwnEvent(p, kind, proc[p].branch, of, how)
  <2>4. /\ f \in Events(Procs) /\ ~IsSeal(f)
        /\ f.kind = kind /\ f.branch = t.branch /\ f.of = of /\ f.by = p
        /\ f.cause = t.tip
    BY ONLY <2>1, <2>2, <2>3, OwnEventIs, p \in Procs, of \in Nat,
            how \in {"none", "completed", "interrupted", "unknown"}
  <2>5. QED
    BY <2>4
<1>5. /\ t.at \in Writing /\ ~t.fresh /\ s.branch = t.branch
      /\ kind \in {"intent", "closed"} => t.turn # 0 /\ of = t.turn
      /\ kind \in {"started", "result"} => t.op # 0 /\ of = t.op
      /\ kind = "turn" => p \in own
      /\ s.at \in Open => p \in own
      /\ proc' = [proc EXCEPT ![p] = s]
      /\ log' = [log EXCEPT ![r] = Append(l, e)]
  BY DEF Moves, Appended, OwnEvent
<1>6. ASSUME NEW q \in Procs \ {p}, proc[q].run = r PROVE Harmless(proc[q], l, e)
  BY <1>4, <1>5, <1>6, OwnIsHarmless
<1>7. BranchIsOwn(p, s)
  BY <1>5 DEF BranchIsOwn, IInv, BranchesAreApart
<1> HIDE DEF own, t
<1>8. EventIsRight(l, e, own)
  BY <1>2, <1>3, <1>4, <1>5, OwnEventFits
<1>9. ProcIsSound(p, s, Append(l, e), own, Dead)
  BY <1>2, <1>3, <1>4, <1>5, OwnStateFits
<1>10. QED
  BY <1>2, <1>4, <1>5, <1>6, <1>7, <1>8, <1>9, LoudStep DEF own

LEMMA WriterIs ==
  ASSUME IInv, NEW p \in Procs, proc[p].at \in Writing
  PROVE  /\ proc[p] \in ProcRecord /\ Alive(p) /\ proc[p].run \in Runs
         /\ log[proc[p].run] \in Seq(Events(Procs)) /\ Len(log[proc[p].run]) \in Nat
         /\ LogIsSound(log[proc[p].run], owners[proc[p].run])
         /\ WriterIsSound(p, proc[p], log[proc[p].run], owners[proc[p].run])
<1>1. Writing \subseteq Opening \cup Open
  BY DEF Writing, Opening, Open
<1>2. QED
  BY <1>1, AliveProc DEF ProcIsSound

LEMMA MoreOpen ==
  ASSUME NEW own, NEW l \in Seq(Events(Procs)), LogIsSound(l, own), NEW e \in Events(Procs)
  PROVE  /\ \A t : t \in TurnsOpen(Append(l, e), Len(l) + 1) <=>
                \/ t \in TurnsOpen(l, Len(l)) /\ ~(e.kind = "closed" /\ e.of = t)
                \/ t = Len(l) + 1 /\ e.kind = "turn"
         /\ \A o : o \in OpsOpen(Append(l, e), Len(l) + 1) <=>
                \/ o \in OpsOpen(l, Len(l)) /\ ~(e.kind = "result" /\ e.of = o)
                \/ o = Len(l) + 1 /\ e.kind = "intent"
         /\ OpsOpen(l, Len(l)) \subseteq 1..Len(l)
         /\ \A o \in OpsOpen(l, Len(l)) : l[o].of \in 1..(o - 1)
<1>1. Len(Append(l, e)) = Len(l) + 1
  BY AppendIs
<1>2. \A n \in 1..Len(l) : l[n].kind \in {"closed", "result"} => l[n].of \in 1..(n - 1)
  BY DEF LogIsSound, EventIsSound
<1>3. OpsOpen(l, Len(l)) \subseteq 1..Len(l)
  BY DEF OpsOpen
<1>4. \A o \in OpsOpen(l, Len(l)) : l[o].of \in 1..(o - 1)
  BY DEF OpsOpen, LogIsSound, EventIsSound
<1> DEFINE k == Append(l, e)
<1>5. /\ \A t : t \in TurnsOpen(k, Len(k)) <=>
                \/ t \in TurnsOpen(l, Len(l)) /\ ~(e.kind = "closed" /\ e.of = t)
                \/ t = Len(k) /\ e.kind = "turn"
      /\ \A o : o \in OpsOpen(k, Len(k)) <=>
                \/ o \in OpsOpen(l, Len(l)) /\ ~(e.kind = "result" /\ e.of = o)
                \/ o = Len(k) /\ e.kind = "intent"
  BY <1>2, OneMoreOpen
<1> HIDE DEF k
<1>6. Len(k) = Len(l) + 1
  BY <1>1 DEF k
<1>7. QED
  BY <1>3, <1>4, <1>5, <1>6 DEF k

(* What InOrder asks of an event, in terms of the log it is appended to. *)
LEMMA InOrderIs ==
  ASSUME NEW l \in Seq(Events(Procs)), NEW e \in Events(Procs), e.kind # "branch",
         e.kind = "forked" =>
            Declared(l, Len(l), e.of) /\ ~Declared(l, Len(l), e.branch),
         e.kind = "selected" => Declared(l, Len(l), e.branch),
         e.kind = "intent" => e.of \in TurnsOpen(l, Len(l)),
         e.kind = "started" => e.of \in OpsOpen(l, Len(l)) /\ ~Crossed(l, Len(l), e.of),
         e.kind = "result" => e.of \in OpsOpen(l, Len(l)),
         e.kind = "closed" =>
            e.of \in TurnsOpen(l, Len(l)) /\ \A o \in OpsOpen(l, Len(l)) : l[o].of # e.of
  PROVE  InOrder(Append(l, e), Len(l) + 1)
<1> DEFINE k == Append(l, e)
           n == Len(l) + 1
<1>1. /\ Len(l) \in Nat /\ k[n] = e /\ n - 1 = Len(l)
      /\ \A m \in 1..Len(l) : k[m] = l[m]
  BY AppendIs
<1>2. Agree(k, Len(l), l)
  BY <1>1 DEF Agree
<1> HIDE DEF k, n
<1>3. /\ \A b : Declared(k, n - 1, b) <=> Declared(l, Len(l), b)
      /\ TurnsOpen(k, n - 1) = TurnsOpen(l, Len(l))
      /\ OpsOpen(k, n - 1) = OpsOpen(l, Len(l))
      /\ \A o : Crossed(k, n - 1, o) <=> Crossed(l, Len(l), o)
  BY <1>1, <1>2, SameReading
<1>4. \A o \in OpsOpen(l, Len(l)) : k[o] = l[o]
  BY <1>1 DEF OpsOpen
<1>5. InOrder(k, n)
  BY <1>1, <1>3, <1>4 DEF InOrder
<1>6. QED
  BY <1>5 DEF k, n

(* The same, for an event of an initialised writer about its own work. *)
LEMMA OwnEventInOrder ==
  ASSUME NEW p \in Procs, NEW own, NEW t \in ProcRecord, t.at \in Writing, ~t.fresh,
         NEW l \in Seq(Events(Procs)), LogIsSound(l, own), WriterIsSound(p, t, l, own),
         ~SealedUnseen(l),
         NEW e \in Events(Procs), e.branch = t.branch,
         e.kind \in {"selected", "turn", "intent", "started", "result", "closed"},
         e.kind \in {"intent", "closed"} => t.turn # 0 /\ e.of = t.turn,
         e.kind \in {"started", "result"} => t.op # 0 /\ e.of = t.op,
         e.kind = "started" => ~Crossed(l, Len(l), e.of),
         e.kind = "closed" => t.op = 0
  PROVE  InOrder(Append(l, e), Len(l) + 1)
<1>1. WorkIsOpen(t, l) /\ Declared(l, Len(l), t.branch)
  BY DEF WriterIsSound, WriterIsCurrent
<1>2. /\ t.turn # 0 => t.turn \in TurnsOpen(l, Len(l))
      /\ t.op # 0 => t.op \in OpsOpen(l, Len(l))
      /\ t.turn # 0 => \A o \in OpsOpen(l, Len(l)) : l[o].of = t.turn => o = t.op
  BY <1>1 DEF WorkIsOpen
<1>3. 0 \notin OpsOpen(l, Len(l))
  BY DEF OpsOpen
<1>4. e.kind = "closed" =>
            e.of \in TurnsOpen(l, Len(l)) /\ \A o \in OpsOpen(l, Len(l)) : l[o].of # e.of
  BY <1>2, <1>3
<1>5. QED
  BY <1>1, <1>2, <1>4, InOrderIs

(* What the process goes on with is its own, and open. *)
LEMMA OwnWorkStays ==
  ASSUME NEW p \in Procs, NEW own, NEW t \in ProcRecord, t.at \in Writing, ~t.fresh,
         NEW l \in Seq(Events(Procs)), LogIsSound(l, own), WriterIsSound(p, t, l, own),
         NEW e \in Events(Procs), e.by = p,
         NEW s \in ProcRecord,
         \/ s.turn = 0
         \/ s.turn = t.turn /\ e.kind # "closed"
         \/ s.turn = Len(l) + 1 /\ e.kind = "turn",
         \/ s.op = 0
         \/ s.op = t.op /\ e.kind # "result"
         \/ s.op = Len(l) + 1 /\ e.kind = "intent",
         \* operations of the turn other than the process's own are closed
         e.kind = "intent" =>
            s.op = Len(l) + 1 /\ \A o \in OpsOpen(l, Len(l)) : l[o].of # s.turn,
         e.kind = "result" => e.of = t.op,
         s.op # t.op => e.kind \in {"intent", "result"}
  PROVE  WorkIsOwn(p, s, Append(l, e)) /\ (~SealedUnseen(l) => WorkIsOpen(s, Append(l, e)))
<1> DEFINE k == Append(l, e)
           n == Len(l) + 1
<1>1. /\ Len(l) \in Nat /\ Len(k) = n /\ k[n] = e /\ n \in 1..n /\ n \notin 1..Len(l)
      /\ 1..Len(l) \subseteq 1..n
      /\ \A m \in 1..Len(l) : k[m] = l[m]
  BY AppendIs
<1>2. /\ \A u : u \in TurnsOpen(k, n) <=>
                \/ u \in TurnsOpen(l, Len(l)) /\ ~(e.kind = "closed" /\ e.of = u)
                \/ u = n /\ e.kind = "turn"
      /\ \A o : o \in OpsOpen(k, n) <=>
                \/ o \in OpsOpen(l, Len(l)) /\ ~(e.kind = "result" /\ e.of = o)
                \/ o = n /\ e.kind = "intent"
      /\ OpsOpen(l, Len(l)) \subseteq 1..Len(l)
      /\ \A o \in OpsOpen(l, Len(l)) : l[o].of \in 1..(o - 1)
  BY MoreOpen
<1> HIDE DEF k
<1>3. WorkIsOwn(p, t, l)
  BY DEF WriterIsSound
<1>4. WorkIsOwn(p, s, k)
  BY <1>1, <1>3 DEF WorkIsOwn
<1>5. ASSUME ~SealedUnseen(l) PROVE WorkIsOpen(s, k)
  <2>1. WorkIsOpen(t, l)
    BY <1>5 DEF WriterIsSound, WriterIsCurrent
  <2>2. s.turn # 0 => s.turn \in TurnsOpen(k, n)
    BY <1>2, <2>1 DEF WorkIsOpen
  <2>3. s.op # 0 => s.op \in OpsOpen(k, n)
    BY <1>2, <2>1 DEF WorkIsOpen
  <2>4. ASSUME s.turn # 0, NEW o \in OpsOpen(k, n), k[o].of = s.turn PROVE o = s.op
    <3>1. CASE o = n /\ e.kind = "intent"
      BY <3>1
    <3>2. CASE o \in OpsOpen(l, Len(l)) /\ ~(e.kind = "result" /\ e.of = o)
      <4>1. o \in 1..Len(l) /\ l[o].of = s.turn /\ l[o].of \in 1..(o - 1)
        BY <1>1, <1>2, <2>4, <3>2
      <4>2. s.turn # n
        BY <1>1, <4>1
      <4>3. e.kind # "intent"
        BY <3>2, <4>1
      <4>4. s.turn = t.turn
        BY <2>4, <4>2
      <4>5. o = t.op
        BY <2>1, <2>4, <3>2, <4>1, <4>4 DEF WorkIsOpen
      <4>6. QED
        BY <3>2, <4>3, <4>5
    <3>3. QED
      BY <1>2, <3>1, <3>2
  <2>5. QED
    BY <1>1, <2>2, <2>3, <2>4 DEF WorkIsOpen
<1>6. QED
  BY <1>4, <1>5 DEF k

(* An initialised writer does the next step of its work. *)
LEMMA WorkStep ==
  ASSUME IInv, NEW p \in Procs, proc[p].at \in Writing, ~proc[p].fresh,
         NEW kind \in {"selected", "turn", "intent", "started", "result", "closed"}, NEW of \in Nat,
         NEW how \in {"none", "completed", "interrupted", "unknown"},
         NEW l, l = log[proc[p].run],
         kind # "selected" => proc[p].at \in Open,
         kind \in {"intent", "closed"} => proc[p].turn # 0 /\ of = proc[p].turn,
         kind \in {"started", "result"} => proc[p].op # 0 /\ of = proc[p].op,
         kind = "intent" => \A o \in OpsOpen(l, Len(l)) : l[o].of # proc[p].turn,
         kind = "started" => ~Crossed(l, Len(l), of),
         kind = "closed" => proc[p].op = 0,
         NEW s \in ProcRecord, s.at \in Writing, s.at \in Open <=> proc[p].at \in Open,
         s.run = proc[p].run, s.branch = proc[p].branch, ~s.fresh, s.tip = Len(l) + 1,
         s.turn = IF kind = "turn" THEN Len(l) + 1 ELSE IF kind = "closed" THEN 0 ELSE proc[p].turn,
         s.op = IF kind = "intent" THEN Len(l) + 1 ELSE IF kind = "result" THEN 0 ELSE proc[p].op,
         Moves(p, s), Appended(p, kind, proc[p].branch, of, how), UNCHANGED <<catalog, owners>>
  PROVE  IInv'
<1> DEFINE t == proc[p]
           own == owners[proc[p].run]
           e == OwnEvent(p, kind, proc[p].branch, of, how)
<1>1. /\ t \in ProcRecord /\ l \in Seq(Events(Procs)) /\ Len(l) \in Nat
      /\ LogIsSound(l, own) /\ WriterIsSound(p, t, l, own)
  BY WriterIs
<1>2. /\ e \in Events(Procs)
      /\ e.kind = kind /\ e.branch = t.branch /\ e.of = of /\ e.by = p
  <2>1. kind \in Kinds /\ t.branch \in Int
    BY <1>1 DEF Kinds, ProcRecord
  <2> DEFINE f == OwnEvent(p, kind, t.branch, of, how)
  <2>2. /\ f \in Events(Procs)
        /\ f.kind = kind /\ f.branch = t.branch /\ f.of = of /\ f.by = p
    BY ONLY <2>1, <1>1, OwnEventIs, p \in Procs, of \in Nat,
            how \in {"none", "completed", "interrupted", "unknown"}
  <2>3. QED
    BY <2>2
<1>3. /\ s.at \in Open => p \in own
      /\ s.at \notin Open => t.turn = 0 /\ t.op = 0
      /\ kind = "turn" => p \in own
  BY <1>1 DEF WriterIsSound
<1>4. s.at \notin Open => s.turn = 0 /\ s.op = 0
  BY <1>3
<1>5. /\ t.at \in Writing /\ ~t.fresh
      /\ kind \in {"intent", "closed"} => t.turn # 0 /\ of = t.turn
      /\ kind \in {"started", "result"} => t.op # 0 /\ of = t.op
      /\ kind = "intent" => \A o \in OpsOpen(l, Len(l)) : l[o].of # t.turn
      /\ kind = "closed" => t.op = 0
      /\ s.turn = IF kind = "turn" THEN Len(l) + 1 ELSE IF kind = "closed" THEN 0 ELSE t.turn
      /\ s.op = IF kind = "intent" THEN Len(l) + 1 ELSE IF kind = "result" THEN 0 ELSE t.op
  OBVIOUS
<1>6. ~SealedUnseen(l) => InOrder(Append(l, e), Len(l) + 1)
  <2> HIDE DEF t, own, e
  <2>1. QED
    BY <1>1, <1>2, <1>5, OwnEventInOrder
<1>7. WorkIsOwn(p, s, Append(l, e)) /\ (~SealedUnseen(l) => WorkIsOpen(s, Append(l, e)))
  <2> HIDE DEF t, own, e
  <2>1. /\ \/ s.turn = 0
           \/ s.turn = t.turn /\ e.kind # "closed"
           \/ s.turn = Len(l) + 1 /\ e.kind = "turn"
        /\ \/ s.op = 0
           \/ s.op = t.op /\ e.kind # "result"
           \/ s.op = Len(l) + 1 /\ e.kind = "intent"
        /\ e.kind = "intent" =>
            s.op = Len(l) + 1 /\ \A o \in OpsOpen(l, Len(l)) : l[o].of # s.turn
        /\ e.kind = "result" => e.of = t.op
        /\ s.op # t.op => e.kind \in {"intent", "result"}
    BY <1>2, <1>5
  <2>2. QED
    BY ZenonT(40), <1>1, <1>2, <1>5, <2>1, OwnWorkStays
<1>8. e = OwnEvent(p, kind, proc[p].branch, of, how)
  OBVIOUS
<1> HIDE DEF e
<1>9. QED
  <2>1. /\ kind = "turn" => p \in owners[proc[p].run]
        /\ s.at \in Open => p \in owners[proc[p].run]
        /\ s.at \notin Open => s.turn = 0 /\ s.op = 0
        /\ kind \in {"intent", "closed"} => proc[p].turn # 0 /\ of = proc[p].turn
        /\ kind \in {"started", "result"} => proc[p].op # 0 /\ of = proc[p].op
    BY <1>3, <1>4
  <2> HIDE DEF t, own
  <2>2. OwnMove(p, kind, of, how, l, e, s)
    BY <1>6, <1>7, <1>8, <2>1 DEF OwnMove
  <2>3. QED
    BY <2>2, OwnStep

LEMMA SelectKeeps ==
  ASSUME IInv, NEW p \in Procs, Select(p) PROVE IInv'
<1> DEFINE l == log[proc[p].run]
           s == [proc[p] EXCEPT !.at = "publishing", !.tip = NextEvent(p)]
<1>1. /\ proc[p].at = "selecting" /\ Moves(p, s) /\ Appended(p, "selected", proc[p].branch, 0, "none")
      /\ UNCHANGED <<catalog, owners>>
  BY DEF Select
<1>2. /\ proc[p].at \in Writing /\ proc[p].at \notin Open
      /\ proc[p].at \notin {"registering", "ready"}
  BY <1>1 DEF Writing, Open
<1>3. /\ proc[p] \in ProcRecord /\ Len(l) \in Nat
      /\ WriterIsSound(p, proc[p], l, owners[proc[p].run])
  BY <1>2, WriterIs
<1>4. ~proc[p].fresh
  BY <1>2, <1>3 DEF WriterIsSound, OriginIsSound
<1>5. Len(l) + 1 \in Nat /\ NextEvent(p) = Len(l) + 1
  BY <1>3 DEF NextEvent
<1>6. s \in ProcRecord
  BY <1>3, <1>5 DEF ProcRecord, Opening
<1>7. /\ s.at = "publishing" /\ s.run = proc[p].run /\ s.branch = proc[p].branch
      /\ s.fresh = proc[p].fresh /\ s.tip = Len(l) + 1 /\ s.turn = proc[p].turn /\ s.op = proc[p].op
  BY <1>3, <1>5 DEF ProcRecord
<1> HIDE DEF s
<1>8. s.at \in Writing /\ s.at \notin Open
  BY <1>7 DEF Writing, Open
<1>9. QED
  BY <1>1, <1>2, <1>4, <1>6, <1>7, <1>8, WorkStep

(* One whose chat is open, and what its records remember. *)
LEMMA OpenIs ==
  ASSUME IInv, NEW p \in Procs, proc[p].at \in Open
  PROVE  /\ proc[p] \in ProcRecord /\ proc[p].at \in Writing /\ Len(log[proc[p].run]) \in Nat
         /\ NextEvent(p) = Len(log[proc[p].run]) + 1 /\ NextEvent(p) \in Nat
         /\ proc[p].turn # 0 \/ proc[p].op # 0 => ~proc[p].fresh
<1>1. proc[p].at \in Writing
  BY DEF Writing
<1>2. /\ proc[p] \in ProcRecord /\ Len(log[proc[p].run]) \in Nat
      /\ WriterIsSound(p, proc[p], log[proc[p].run], owners[proc[p].run])
  BY <1>1, WriterIs
<1>3. proc[p].turn # 0 \/ proc[p].op # 0 => ~proc[p].fresh
  BY <1>2 DEF WriterIsSound, OriginIsSound
<1>4. QED
  BY <1>1, <1>2, <1>3 DEF NextEvent

LEMMA BeginTurnKeeps ==
  ASSUME IInv, NEW p \in Procs, BeginTurn(p) PROVE IInv'
<1> DEFINE l == log[proc[p].run]
           s == [proc[p] EXCEPT !.tip = NextEvent(p), !.turn = NextEvent(p)]
<1>1. /\ proc[p].at = "ready" /\ ~proc[p].fresh
      /\ Moves(p, s) /\ Appended(p, "turn", proc[p].branch, 0, "none")
      /\ UNCHANGED <<catalog, owners>>
  BY DEF BeginTurn, Writes
<1>2. /\ proc[p] \in ProcRecord /\ proc[p].at \in Writing /\ proc[p].at \in Open
      /\ NextEvent(p) = Len(l) + 1 /\ NextEvent(p) \in Nat
  BY <1>1, OpenIs DEF Open
<1>3. s \in ProcRecord
  BY <1>2 DEF ProcRecord
<1>4. /\ s.at = proc[p].at /\ s.run = proc[p].run /\ s.branch = proc[p].branch
      /\ s.fresh = proc[p].fresh /\ s.tip = Len(l) + 1 /\ s.turn = Len(l) + 1 /\ s.op = proc[p].op
  BY <1>2 DEF ProcRecord
<1> HIDE DEF s
<1>5. QED
  BY <1>1, <1>2, <1>3, <1>4, WorkStep

LEMMA IntendToolKeeps ==
  ASSUME IInv, NEW p \in Procs, IntendTool(p) PROVE IInv'
<1> DEFINE l == log[proc[p].run]
           s == [proc[p] EXCEPT !.tip = NextEvent(p), !.op = NextEvent(p)]
<1>1. /\ proc[p].at = "ready" /\ proc[p].turn # 0
      /\ About(l, Len(l), "intent", proc[p].turn) = {}
      /\ Moves(p, s) /\ Appended(p, "intent", proc[p].branch, proc[p].turn, "none")
      /\ UNCHANGED <<catalog, owners>>
  BY DEF IntendTool, Writes
<1>2. /\ proc[p] \in ProcRecord /\ proc[p].at \in Writing /\ proc[p].at \in Open /\ ~proc[p].fresh
      /\ NextEvent(p) = Len(l) + 1 /\ NextEvent(p) \in Nat
  BY <1>1, OpenIs DEF Open
<1>3. s \in ProcRecord
  BY <1>2 DEF ProcRecord
<1>4. /\ s.at = proc[p].at /\ s.run = proc[p].run /\ s.branch = proc[p].branch
      /\ s.fresh = proc[p].fresh /\ s.tip = Len(l) + 1 /\ s.turn = proc[p].turn /\ s.op = Len(l) + 1
  BY <1>2 DEF ProcRecord
<1>5. \A o \in OpsOpen(l, Len(l)) : l[o].of # proc[p].turn
  BY <1>1 DEF OpsOpen, About
<1>6. proc[p].turn \in Nat
  BY <1>2 DEF ProcRecord
<1> HIDE DEF s
<1>7. QED
  BY <1>1, <1>2, <1>3, <1>4, <1>5, <1>6, WorkStep

LEMMA StartToolKeeps ==
  ASSUME IInv, NEW p \in Procs, StartTool(p) PROVE IInv'
<1> DEFINE l == log[proc[p].run]
           s == [proc[p] EXCEPT !.tip = NextEvent(p)]
<1>1. /\ proc[p].at = "ready" /\ proc[p].op # 0 /\ ~HasStarted(p)
      /\ Moves(p, s) /\ Appended(p, "started", proc[p].branch, proc[p].op, "none")
      /\ UNCHANGED <<catalog, owners>>
  BY DEF StartTool, Writes
<1>2. /\ proc[p] \in ProcRecord /\ proc[p].at \in Writing /\ proc[p].at \in Open /\ ~proc[p].fresh
      /\ NextEvent(p) = Len(l) + 1 /\ NextEvent(p) \in Nat
  BY <1>1, OpenIs DEF Open
<1>3. s \in ProcRecord
  BY <1>2 DEF ProcRecord
<1>4. /\ s.at = proc[p].at /\ s.run = proc[p].run /\ s.branch = proc[p].branch
      /\ s.fresh = proc[p].fresh /\ s.tip = Len(l) + 1 /\ s.turn = proc[p].turn /\ s.op = proc[p].op
  BY <1>2 DEF ProcRecord
<1>5. proc[p].op \in Nat
  BY <1>2 DEF ProcRecord
<1>6. ~Crossed(l, Len(l), proc[p].op)
  <2>1. /\ l \in Seq(Events(Procs)) /\ LogIsSound(l, owners[proc[p].run])
        /\ WriterIsSound(p, proc[p], l, owners[proc[p].run])
    BY <1>2, WriterIs
  <2>2. DOMAIN l = 1..Len(l)
    BY <2>1
  <2>3. l[proc[p].op].by = p
    <3>1. proc[p].op # 0
      BY <1>1
    <3>2. WorkIsOwn(p, proc[p], l)
      BY <2>1 DEF WriterIsSound
    <3>3. QED
      BY <3>1, <3>2 DEF WorkIsOwn
  <2>4. \A n \in 1..Len(l) : l[n].kind = "started" => l[n].by = l[l[n].of].by
    BY <2>1 DEF LogIsSound, EventIsSound
  <2>5. ASSUME NEW n \in 1..Len(l), l[n].kind = "started", l[n].of = proc[p].op PROVE FALSE
    <3>1. l[n].by = p
      BY <2>3, <2>4, <2>5
    <3>2. QED
      BY <1>1, <2>2, <2>5, <3>1 DEF HasStarted
  <2>6. QED
    BY <2>5 DEF Crossed, About
<1> HIDE DEF s
<1>7. QED
  BY <1>1, <1>2, <1>3, <1>4, <1>5, <1>6, WorkStep

LEMMA CompleteToolKeeps ==
  ASSUME IInv, NEW p \in Procs, CompleteTool(p) PROVE IInv'
<1> DEFINE l == log[proc[p].run]
           s == [proc[p] EXCEPT !.tip = NextEvent(p), !.op = 0]
<1>1. /\ proc[p].at = "ready" /\ proc[p].op # 0
      /\ Moves(p, s) /\ Appended(p, "result", proc[p].branch, proc[p].op, "completed")
      /\ UNCHANGED <<catalog, owners>>
  BY DEF CompleteTool, Writes
<1>2. /\ proc[p] \in ProcRecord /\ proc[p].at \in Writing /\ proc[p].at \in Open /\ ~proc[p].fresh
      /\ NextEvent(p) = Len(l) + 1 /\ NextEvent(p) \in Nat
  BY <1>1, OpenIs DEF Open
<1>3. s \in ProcRecord
  BY <1>2 DEF ProcRecord
<1>4. /\ s.at = proc[p].at /\ s.run = proc[p].run /\ s.branch = proc[p].branch
      /\ s.fresh = proc[p].fresh /\ s.tip = Len(l) + 1 /\ s.turn = proc[p].turn /\ s.op = 0
  BY <1>2 DEF ProcRecord
<1>5. proc[p].op \in Nat
  BY <1>2 DEF ProcRecord
<1> HIDE DEF s
<1>6. QED
  BY <1>1, <1>2, <1>3, <1>4, <1>5, WorkStep

LEMMA InterruptToolKeeps ==
  ASSUME IInv, NEW p \in Procs, InterruptTool(p) PROVE IInv'
<1> DEFINE l == log[proc[p].run]
           s == [proc[p] EXCEPT !.at = "closing", !.tip = NextEvent(p), !.op = 0]
<1>1. /\ proc[p].at = "ready" /\ proc[p].op # 0
      /\ Moves(p, s) /\ Appended(p, "result", proc[p].branch, proc[p].op, "interrupted")
      /\ UNCHANGED <<catalog, owners>>
  BY DEF InterruptTool, Writes
<1>2. /\ proc[p] \in ProcRecord /\ proc[p].at \in Writing /\ proc[p].at \in Open /\ ~proc[p].fresh
      /\ NextEvent(p) = Len(l) + 1 /\ NextEvent(p) \in Nat
  BY <1>1, OpenIs DEF Open
<1>3. s \in ProcRecord
  BY <1>2 DEF ProcRecord, Open
<1>4. /\ s.at = "closing" /\ s.run = proc[p].run /\ s.branch = proc[p].branch
      /\ s.fresh = proc[p].fresh /\ s.tip = Len(l) + 1 /\ s.turn = proc[p].turn /\ s.op = 0
  BY <1>2 DEF ProcRecord
<1>5. proc[p].op \in Nat
  BY <1>2 DEF ProcRecord
<1> HIDE DEF s
<1>6. s.at \in Writing /\ s.at \in Open
  BY <1>4 DEF Writing, Open
<1>7. QED
  BY <1>1, <1>2, <1>3, <1>4, <1>5, <1>6, WorkStep

LEMMA CloseTurnKeeps ==
  ASSUME IInv, NEW p \in Procs, CloseTurn(p) PROVE IInv'
<1> DEFINE l == log[proc[p].run]
           how == IF proc[p].at = "closing" THEN "interrupted" ELSE "completed"
           s == [proc[p] EXCEPT !.at = "ready", !.tip = NextEvent(p), !.turn = 0]
<1>1. /\ proc[p].at \in Open /\ proc[p].turn # 0 /\ proc[p].op = 0
      /\ Moves(p, s) /\ Appended(p, "closed", proc[p].branch, proc[p].turn, how)
      /\ UNCHANGED <<catalog, owners>>
  BY DEF CloseTurn, Writes
<1>2. /\ proc[p] \in ProcRecord /\ proc[p].at \in Writing /\ ~proc[p].fresh
      /\ NextEvent(p) = Len(l) + 1 /\ NextEvent(p) \in Nat
  BY <1>1, OpenIs
<1>3. s \in ProcRecord
  BY <1>2 DEF ProcRecord, Open
<1>4. /\ s.at = "ready" /\ s.run = proc[p].run /\ s.branch = proc[p].branch
      /\ s.fresh = proc[p].fresh /\ s.tip = Len(l) + 1 /\ s.turn = 0 /\ s.op = proc[p].op
  BY <1>2 DEF ProcRecord
<1>5. proc[p].turn \in Nat
  BY <1>2 DEF ProcRecord
<1>6. how \in {"none", "completed", "interrupted", "unknown"}
  OBVIOUS
<1> HIDE DEF s, how
<1>7. s.at \in Writing /\ s.at \in Open
  BY <1>4 DEF Writing, Open
<1>8. QED
  BY <1>1, <1>2, <1>3, <1>4, <1>5, <1>6, <1>7, WorkStep

(* The first event of a run, and its second: the process that creates it. *)
LEMMA FirstEventFits ==
  ASSUME NEW p \in Procs, NEW own, p \in own, NEW l \in Seq(Events(Procs)), Len(l) = 0,
         NEW e \in Events(Procs), ~IsSeal(e), e.kind = "created", e.branch = Main, e.by = p
  PROVE  EventIsRight(l, e, own)
<1> DEFINE k == Append(l, e)
<1>1. k[1] = e /\ Len(l) + 1 = 1 /\ 1 - 1 = 0
  BY AppendIs
<1>2. Main \in {NoBranch} \cup 0..1 /\ Main # NoBranch
  BY DEF Main, NoBranch
<1>3. InOrder(k, 1)
  BY <1>1, InOrderIs
<1> HIDE DEF k
<1>4. EventIsSound(k, 1, own)
  BY <1>1, <1>2 DEF EventIsSound
<1>5. (\A b : ~Declared(k, 0, b)) /\ ~AnyDeclared(k, 0)
  BY DEF Declared, AnyDeclared
<1>6. Readable(k, 1)
  BY <1>1, <1>3, <1>5 DEF Readable, Fits, ExtendsTip, OnKnownBranch
<1>7. EventIsSound(Append(l, e), Len(l) + 1, own) /\ Readable(Append(l, e), Len(l) + 1)
  BY <1>1, <1>4, <1>6 DEF k
<1>8. \A m \in 1..Len(l) : ~IsSeal(l[m]) /\ l[m].branch = e.branch => l[m].by = e.by
  OBVIOUS
<1>9. QED
  BY <1>7, <1>8, OwnEventIsRight

LEMMA SecondEventFits ==
  ASSUME NEW p \in Procs, NEW own, NEW l \in Seq(Events(Procs)), Len(l) = 1, LogIsSound(l, own),
         \A m \in 1..Len(l) : ~IsSeal(l[m]) /\ l[m].branch = Main => l[m].by = p,
         NEW e \in Events(Procs), ~IsSeal(e), e.kind = "branch", e.branch = Main, e.by = p
  PROVE  EventIsRight(l, e, own)
<1> DEFINE k == Append(l, e)
<1>1. k[2] = e /\ Len(l) + 1 = 2 /\ 2 - 1 = 1 /\ k[1] = l[1]
  <2>1. Len(l) + 1 = 2 /\ 2 - 1 = 1 /\ 1 \in 1..Len(l)
    OBVIOUS
  <2>2. k[Len(l) + 1] = e /\ \A n \in 1..Len(l) : k[n] = l[n]
    BY ONLY AppendIs, l \in Seq(Events(Procs)), e \in Events(Procs)
  <2> HIDE DEF k
  <2>3. QED
    BY <2>1, <2>2
<1>2. Main \in {NoBranch} \cup 0..2 /\ Main # NoBranch
  BY DEF Main, NoBranch
<1>3. l[1].kind = "created"
  BY DEF LogIsSound, EventIsSound
<1> HIDE DEF k
<1>4. EventIsSound(k, 2, own)
  BY <1>1, <1>2 DEF EventIsSound
<1>5. \A b : ~Declared(k, 1, b)
  BY <1>1, <1>3 DEF Declared, Declares
<1>6. Readable(k, 2)
  BY <1>1, <1>5 DEF Readable, Fits, ExtendsTip, OnKnownBranch, InOrder, Declares
<1>7. EventIsSound(Append(l, e), Len(l) + 1, own) /\ Readable(Append(l, e), Len(l) + 1)
  BY <1>1, <1>4, <1>6 DEF k
<1>8. QED
  BY <1>7, OwnEventIsRight

LEMMA CreateRunKeeps ==
  ASSUME IInv, NEW p \in Procs, CreateRun(p) PROVE IInv'
<1> DEFINE r == proc[p].run
           l == log[r]
           own == owners[r]
           e == OwnEvent(p, "created", Main, 0, "none")
           k == Append(l, e)
           s == [proc[p] EXCEPT !.tip = NextEvent(p)]
<1>1. /\ proc[p].at = "ready" /\ proc[p].fresh /\ proc[p].tip = 0
      /\ proc' = [proc EXCEPT ![p] = s] /\ log' = [log EXCEPT ![r] = k]
      /\ UNCHANGED <<catalog, owners>>
  BY DEF CreateRun, Writes, Moves, Appended, OwnEvent
<1>2. proc[p].at \in Writing /\ proc[p].at \in Open
  BY <1>1 DEF Writing, Open
<1>3. /\ proc[p] \in ProcRecord /\ Alive(p) /\ r \in Runs /\ l \in Seq(Events(Procs))
      /\ WriterIsSound(p, proc[p], l, own) /\ NextEvent(p) = Len(l) + 1
  BY <1>2, WriterIs DEF NextEvent
<1>4. /\ OriginIsSound(proc[p], l) /\ p \in own
      /\ Len(l) = 0 /\ proc[p].branch = Main /\ proc[p].turn = 0 /\ proc[p].op = 0
  BY <1>1, <1>2, <1>3 DEF WriterIsSound, OriginIsSound
<1>5. e \in Events(Procs) /\ ~IsSeal(e) /\ e.kind = "created" /\ e.branch = Main /\ e.by = p
  <2>1. "created" \in Kinds /\ Main \in Int
    BY DEF Kinds, Main
  <2>2. QED
    BY <1>3, <2>1, OwnEventIs
<1>6. s \in ProcRecord
  BY <1>3, <1>4 DEF ProcRecord
<1>7. /\ s.at = "ready" /\ s.run = r /\ s.branch = Main /\ s.fresh /\ s.tip = 1
      /\ s.turn = 0 /\ s.op = 0
  BY <1>1, <1>3, <1>4 DEF ProcRecord
<1>8. \A q \in Procs \ {p} : proc[q].run = r => Harmless(proc[q], l, e)
  <2> HIDE DEF e
  <2>1. QED
    BY <1>2, <1>4, <1>5, OwnIsHarmless
<1> HIDE DEF e, s
<1>9. EventIsRight(l, e, own)
  BY <1>3, <1>4, <1>5, FirstEventFits
<1>10. ProcIsSound(p, s, k, own, Dead)
  <2>1. Len(k) = 1 /\ k[1] = e
    BY <1>3, <1>4, <1>5, AppendIs
  <2> HIDE DEF k
  <2>2. OriginIsSound(s, k)
    BY <1>7, <2>1 DEF OriginIsSound
  <2>3. WriterIsSound(p, s, k, own)
    BY <1>4, <1>5, <1>7, <2>1, <2>2 DEF WriterIsSound, WorkIsOwn, Open
  <2>4. QED
    BY <1>7, <2>3 DEF ProcIsSound, Recovering, Writing, Open
<1>11. BranchIsOwn(p, s)
  BY <1>2, <1>4, <1>7 DEF BranchIsOwn, IInv, BranchesAreApart
<1>12. QED
  BY <1>1, <1>3, <1>5, <1>6, <1>7, <1>8, <1>9, <1>10, <1>11, LoudStep

LEMMA DeclareBranchKeeps ==
  ASSUME IInv, NEW p \in Procs, DeclareBranch(p) PROVE IInv'
<1> DEFINE r == proc[p].run
           l == log[r]
           own == owners[r]
           e == OwnEvent(p, "branch", Main, 0, "none")
           k == Append(l, e)
           s == [proc[p] EXCEPT !.tip = NextEvent(p), !.fresh = FALSE]
<1>1. /\ proc[p].at = "ready" /\ proc[p].fresh /\ proc[p].tip # 0
      /\ proc' = [proc EXCEPT ![p] = s] /\ log' = [log EXCEPT ![r] = k]
      /\ UNCHANGED <<catalog, owners>>
  BY DEF DeclareBranch, Writes, Moves, Appended, OwnEvent
<1>2. proc[p].at \in Writing /\ proc[p].at \in Open
  BY <1>1 DEF Writing, Open
<1>3. /\ proc[p] \in ProcRecord /\ Alive(p) /\ r \in Runs /\ l \in Seq(Events(Procs))
      /\ LogIsSound(l, own)
      /\ WriterIsSound(p, proc[p], l, own) /\ NextEvent(p) = Len(l) + 1 /\ Len(l) \in Nat
  BY <1>2, WriterIs DEF NextEvent
<1>4. /\ p \in own /\ Len(l) = 1 /\ proc[p].branch = Main /\ proc[p].turn = 0 /\ proc[p].op = 0
      /\ \A m \in 1..Len(l) : ~IsSeal(l[m]) /\ l[m].branch = Main => l[m].by = p
      /\ NextEvent(p) = 2
  <2>1. /\ p \in own /\ OriginIsSound(proc[p], l)
        /\ \A m \in 1..Len(l) : ~IsSeal(l[m]) /\ l[m].branch = proc[p].branch => l[m].by = p
    BY <1>1, <1>2, <1>3 DEF WriterIsSound
  <2>2. /\ proc[p].branch = Main /\ proc[p].turn = 0 /\ proc[p].op = 0
        /\ Len(l) <= 1 /\ Len(l) # 0
    BY <1>1, <2>1 DEF OriginIsSound
  <2>3. Len(l) = 1 /\ NextEvent(p) = 2
    <3>1. Len(l) \in Nat /\ NextEvent(p) = Len(l) + 1
      BY <1>3
    <3>2. \A n \in Nat : n <= 1 /\ n # 0 => n = 1 /\ n + 1 = 2
      OBVIOUS
    <3> HIDE DEF l
    <3>3. QED
      BY <2>2, <3>1, <3>2
  <2>4. QED
    BY <2>1, <2>2, <2>3
<1>5. e \in Events(Procs) /\ ~IsSeal(e) /\ e.kind = "branch" /\ e.branch = Main /\ e.by = p
  <2>1. "branch" \in Kinds /\ Main \in Int
    BY DEF Kinds, Main
  <2>2. QED
    BY <1>3, <2>1, OwnEventIs
<1>6. s \in ProcRecord
  <2>1. NextEvent(p) \in Nat /\ FALSE \in BOOLEAN
    BY <1>4
  <2>2. QED
    BY <1>3, <2>1 DEF ProcRecord
<1>7. /\ s.at = "ready" /\ s.run = r /\ s.branch = Main /\ ~s.fresh /\ s.tip = 2
      /\ s.turn = 0 /\ s.op = 0
  BY <1>1, <1>3, <1>4 DEF ProcRecord
<1>8. \A q \in Procs \ {p} : proc[q].run = r => Harmless(proc[q], l, e)
  <2> HIDE DEF e
  <2>1. QED
    BY <1>2, <1>4, <1>5, OwnIsHarmless
<1> HIDE DEF e, s
<1>9. EventIsRight(l, e, own)
  BY <1>3, <1>4, <1>5, SecondEventFits
<1>10. ProcIsSound(p, s, k, own, Dead)
  <2>1. Len(k) = 2 /\ k[2] = e /\ k[1] = l[1]
    <3>1. Len(l) + 1 = 2 /\ 1 \in 1..Len(l)
      BY <1>4
    <3>2. /\ Len(k) = Len(l) + 1 /\ k[Len(l) + 1] = e
          /\ \A n \in 1..Len(l) : k[n] = l[n]
      BY <1>3, <1>5, AppendIs
    <3> HIDE DEF k
    <3>3. QED
      BY <3>1, <3>2
  <2>2. Declared(k, Len(k), Main)
    <3>1. \A b : Declared(k, Len(k), b) <=> Declared(l, Len(l), b) \/ (Declares(e) /\ e.branch = b)
      <4>1. l \in Seq(Events(Procs)) /\ e \in Events(Procs)
        BY <1>3, <1>5
      <4> HIDE DEF l
      <4>2. QED
        BY <4>1, OneMoreEvent
    <3>2. QED
      BY <1>5, <3>1 DEF Declares
  <2>3. Tip(k, 2, Main) = 2
    <3>1. Len(l) + 1 = 2
      BY <1>4
    <3>2. Tip(Append(l, e), Len(l) + 1, e.branch) = Len(l) + 1
      BY <1>3, <1>5, OneMoreTip
    <3>3. QED
      BY <1>5, <3>1, <3>2
  <2> HIDE DEF k
  <2>4. WriterIsCurrent(s, k)
    BY <1>7, <2>1, <2>3 DEF WriterIsCurrent, WorkIsOpen
  <2>5. \A m \in 1..Len(k) : ~IsSeal(k[m]) /\ k[m].branch = Main => k[m].by = p
    BY <1>4, <1>5, <2>1
  <2>6. WriterIsSound(p, s, k, own)
    BY <1>4, <1>7, <2>1, <2>2, <2>4, <2>5 DEF WriterIsSound, WorkIsOwn, Open
  <2>7. QED
    BY <1>7, <2>6 DEF ProcIsSound, Recovering, Writing, Open
<1>11. BranchIsOwn(p, s)
  BY <1>2, <1>4, <1>7 DEF BranchIsOwn, IInv, BranchesAreApart
<1>12. QED
  BY <1>1, <1>3, <1>5, <1>6, <1>7, <1>8, <1>9, <1>10, <1>11, LoudStep

(* A fork's branch has the number of the fork, which no branch had before. *)
LEMMA ForkFits ==
  ASSUME NEW p \in Procs, NEW own, NEW l \in Seq(Events(Procs)), LogIsSound(l, own), Len(l) >= 2,
         NEW e \in Events(Procs), ~IsSeal(e), e.kind = "forked", e.branch = Len(l) + 1, e.by = p,
         Declared(l, Len(l), e.of)
  PROVE  EventIsRight(l, e, own)
<1> DEFINE k == Append(l, e)
           n == Len(l) + 1
<1>1. Len(l) \in Nat /\ k[n] = e
  BY AppendIs
<1>2. n \in Nat /\ n >= 3 /\ n \in 0..n /\ n # NoBranch
  BY <1>1 DEF NoBranch
<1>3. ~Declared(l, Len(l), n)
  <2>1. n \notin 0..Len(l)
    BY <1>1
  <2> HIDE DEF n
  <2>2. QED
    BY <2>1, DeclaredIsOld
<1>4. InOrder(k, n)
  BY <1>3, InOrderIs
<1>5. \A m \in 1..Len(l) : ~(~IsSeal(l[m]) /\ l[m].branch = n)
  <2>1. SUFFICES ASSUME NEW m \in 1..Len(l), ~IsSeal(l[m]), l[m].branch = n PROVE FALSE
    OBVIOUS
  <2>2. l[m].branch \in {NoBranch} \cup 0..m
    BY <2>1 DEF LogIsSound, EventIsSound
  <2>3. n \notin 0..m
    BY <1>1
  <2> HIDE DEF n
  <2>4. QED
    BY <1>2, <2>1, <2>2, <2>3
<1> HIDE DEF k
<1>6. e.branch = n
  OBVIOUS
<1>7. n # 1 /\ n # 2 /\ ~(n <= 2)
  BY <1>2
<1> HIDE DEF n
<1>8. EventIsSound(k, n, own)
  BY <1>1, <1>2, <1>6, <1>7 DEF EventIsSound
<1>9. Readable(k, n)
  BY <1>1, <1>4 DEF Readable, Fits, ExtendsTip, OnKnownBranch, Declares
<1>10. QED
  BY <1>5, <1>6, <1>8, <1>9, OwnEventIsRight DEF k, n

LEMMA ForkedIsSound ==
  ASSUME NEW p \in Procs, NEW own, NEW dead, NEW l \in Seq(Events(Procs)), LogIsSound(l, own),
         Len(l) >= 2,
         NEW e \in Events(Procs), ~IsSeal(e), e.kind = "forked", e.branch = Len(l) + 1, e.by = p,
         EventIsRight(l, e, own),
         NEW s \in ProcRecord, s.at = "selecting", s.branch = Len(l) + 1, s.tip = Len(l) + 1,
         HoldsNothing(s)
  PROVE  ProcIsSound(p, s, Append(l, e), own, dead)
<1> DEFINE k == Append(l, e)
           n == Len(l) + 1
<1>1. /\ Len(l) \in Nat /\ Len(k) = n /\ k[n] = e
      /\ \A m \in 1..Len(l) : k[m] = l[m]
  BY AppendIs
<1>2. /\ 1..n = 1..Len(l) \cup {n} /\ Len(k) >= 2
  BY <1>1
<1>3. Declared(k, Len(k), n)
  <2>1. \A b : Declared(k, Len(k), b) <=> Declared(l, Len(l), b) \/ (Declares(e) /\ e.branch = b)
    BY OneMoreEvent
  <2>2. QED
    BY <2>1 DEF Declares
<1>4. Tip(k, n, n) = n
  <2>1. Tip(Append(l, e), Len(l) + 1, e.branch) = Len(l) + 1
    BY OneMoreTip
  <2>2. QED
    BY <2>1
<1>5. \A m \in 1..Len(l) : ~IsSeal(l[m]) /\ l[m].branch = e.branch => l[m].by = p
  BY DEF EventIsRight
<1>6. e.branch = n /\ s.branch = n /\ s.tip = n
  OBVIOUS
<1> SUFFICES ProcIsSound(p, s, k, own, dead)
  OBVIOUS
<1> HIDE DEF k, n
<1>7. \A m \in 1..Len(k) : ~IsSeal(k[m]) /\ k[m].branch = n => k[m].by = p
  BY <1>1, <1>2, <1>5, <1>6
<1>8. WriterIsCurrent(s, k)
  BY <1>1, <1>4, <1>6 DEF WriterIsCurrent, WorkIsOpen, HoldsNothing
<1>9. WriterIsSound(p, s, k, own)
  BY <1>2, <1>3, <1>6, <1>7, <1>8 DEF WriterIsSound, WorkIsOwn, HoldsNothing, Open
<1>10. QED
  BY <1>9 DEF ProcIsSound, Recovering, Writing

LEMMA ForkKeeps ==
  ASSUME IInv, NEW p \in Procs, Fork(p) PROVE IInv'
<1> DEFINE r == proc[p].run
           l == log[r]
           own == owners[r]
           e == OwnEvent(p, "forked", NextEvent(p), proc[p].branch, "none")
           k == Append(l, e)
           s == [proc[p] EXCEPT !.at = "selecting", !.branch = NextEvent(p), !.tip = NextEvent(p)]
<1>1. /\ proc[p].at = "forking"
      /\ proc' = [proc EXCEPT ![p] = s] /\ log' = [log EXCEPT ![r] = k]
      /\ UNCHANGED <<catalog, owners>>
  BY DEF Fork, Moves, Appended, OwnEvent
<1>2. /\ proc[p] \in ProcRecord /\ Alive(p) /\ r \in Runs /\ l \in Seq(Events(Procs))
      /\ LogIsSound(l, own) /\ ProcIsSound(p, proc[p], l, own, Dead)
      /\ NextEvent(p) = Len(l) + 1 /\ Len(l) \in Nat
  BY <1>1, AliveProc DEF NextEvent, Opening
<1>3. Len(l) >= 2 /\ Declared(l, Len(l), proc[p].branch) /\ HoldsNothing(proc[p])
  BY <1>1, <1>2 DEF ProcIsSound, Writing, Open
<1>4. NextEvent(p) \in Nat /\ NextEvent(p) \in Int /\ NextEvent(p) \notin 0..Len(l)
  BY <1>2
<1>5. /\ e \in Events(Procs) /\ ~IsSeal(e) /\ e.kind = "forked" /\ e.branch = NextEvent(p)
      /\ e.of = proc[p].branch /\ e.by = p
  <2>1. "forked" \in Kinds /\ proc[p].branch \in Nat
    BY <1>2 DEF Kinds, ProcRecord
  <2>2. "none" \in {"none", "completed", "interrupted", "unknown"}
    OBVIOUS
  <2>3. proc[p] \in ProcRecord
    BY <1>2
  <2>4. ASSUME NEW n \in Int, NEW b \in Nat
        PROVE  LET f == OwnEvent(p, "forked", n, b, "none")
               IN  /\ f \in Events(Procs) /\ ~IsSeal(f)
                   /\ f.kind = "forked" /\ f.branch = n /\ f.of = b /\ f.by = p
                   /\ f.cause = proc[p].tip /\ f.how = "none"
    BY ONLY <2>1, <2>2, <2>3, OwnEventIs, p \in Procs, n \in Int, b \in Nat
  <2>5. QED
    BY <1>4, <2>1, <2>4
<1>6. s \in ProcRecord
  BY <1>2, <1>4 DEF ProcRecord, Opening
<1>7. /\ s.at = "selecting" /\ s.run = r /\ s.branch = NextEvent(p) /\ s.tip = NextEvent(p)
      /\ HoldsNothing(s)
  BY <1>2, <1>3 DEF ProcRecord, HoldsNothing
<1> HIDE DEF e, s
<1>8. ASSUME NEW q \in Procs \ {p}, proc[q].run = r, proc[q].at \in Writing
      PROVE  ~proc[q].fresh /\ proc[q].branch # NextEvent(p)
  <2>1. ~proc[q].fresh
    BY <1>3, <1>8, OtherIsNotFresh
  <2>2. WriterIsSound(q, proc[q], l, own)
    BY <1>8, WriterIs
  <2>3. proc[q].branch \in 0..Len(l)
    BY <1>2, <2>1, <2>2, DeclaredIsOld DEF WriterIsSound
  <2>4. QED
    BY <1>4, <2>1, <2>3
<1>9. \A q \in Procs \ {p} : proc[q].run = r => Harmless(proc[q], l, e)
  BY <1>5, <1>8 DEF Harmless
<1>10. BranchIsOwn(p, s)
  BY <1>7, <1>8 DEF BranchIsOwn
<1>11. EventIsRight(l, e, own)
  BY <1>2, <1>3, <1>5, ForkFits
<1>12. ProcIsSound(p, s, k, own, Dead)
  BY <1>2, <1>3, <1>5, <1>6, <1>7, <1>11, ForkedIsSound
<1>13. QED
  BY <1>1, <1>2, <1>5, <1>6, <1>7, <1>9, <1>10, <1>11, <1>12, LoudStep

(* A child's event is outside the branches of the conversation. *)
LEMMA ChildFits ==
  ASSUME NEW own, NEW l \in Seq(Events(Procs)), LogIsSound(l, own), Len(l) >= 2,
         \A n \in 1..Len(l) : ~Foreign(l, n), NEW p \in Procs,
         NEW e \in Events(Procs), ~IsSeal(e), e.kind = "child", e.branch = NoBranch, e.by = p
  PROVE  /\ EventIsSound(Append(l, e), Len(l) + 1, own)
         /\ \A m \in 1..Len(l) : l[m].kind # "child"
         /\ Readable(Append(l, e), Len(l) + 1)
         /\ \A m \in 1..Len(l) : ~(~IsSeal(l[m]) /\ l[m].branch = NoBranch)
<1> DEFINE k == Append(l, e)
           n == Len(l) + 1
<1>1. Len(l) \in Nat /\ k[n] = e
  BY AppendIs
<1>2. n \in Nat /\ n # 0 /\ n # 1 /\ n # 2 /\ ~(n <= 2)
  BY <1>1
<1>3. \A m \in 1..Len(l) : l[m].kind # "child"
  <2>1. ASSUME NEW m \in 1..Len(l), l[m].kind = "child" PROVE FALSE
    BY <1>1, <2>1 DEF Foreign, AgentOf
  <2>2. QED
    BY <2>1
<1>4. \A m \in 1..Len(l) : ~(~IsSeal(l[m]) /\ l[m].branch = NoBranch)
  BY <1>3 DEF LogIsSound, EventIsSound
<1> HIDE DEF k, n
<1>5. EventIsSound(k, n, own)
  BY <1>1, <1>2 DEF EventIsSound
<1>6. Readable(k, n)
  BY <1>1, <1>2 DEF Readable, Foreign, AgentOf
<1>7. QED
  BY <1>3, <1>4, <1>5, <1>6 DEF k, n

LEMMA DelegateKeeps ==
  ASSUME IInv, NEW p \in Procs, Delegate(p) PROVE IInv'
<1> DEFINE r == proc[p].run
           l == log[r]
           own == owners[r]
           e == OwnEvent(p, "child", NoBranch, 0, "none")
           k == Append(l, e)
           s == proc[p]
<1>1. /\ proc[p].at = "ready" /\ proc[p].turn # 0 /\ log' = [log EXCEPT ![r] = k]
      /\ UNCHANGED <<catalog, owners, proc>>
      /\ \A n \in DOMAIN l : ~Foreign(l, n)
  BY DEF Delegate, Appended, OwnEvent
<1>2. proc[p].at \in Writing /\ proc[p].at \in Open /\ proc[p].at \in Opening \cup Open
  BY <1>1 DEF Writing, Open
<1>3. /\ s \in ProcRecord /\ Alive(p) /\ r \in Runs /\ l \in Seq(Events(Procs))
      /\ LogIsSound(l, own) /\ WriterIsSound(p, s, l, own) /\ ProcIsSound(p, s, l, own, Dead)
      /\ Len(l) \in Nat
  BY <1>2, WriterIs, AliveProc
<1>4. ~s.fresh /\ Len(l) >= 2
  BY <1>1, <1>3 DEF WriterIsSound, OriginIsSound
<1>5. /\ e \in Events(Procs) /\ ~IsSeal(e) /\ e.kind = "child" /\ e.branch = NoBranch /\ e.by = p
  <2>1. "child" \in Kinds /\ NoBranch \in Int
    BY DEF Kinds, NoBranch
  <2>2. QED
    BY <1>3, <2>1, OwnEventIs
<1>6. proc' = [proc EXCEPT ![p] = s]
  BY <1>1 DEF IInv, TypeOK
<1> HIDE DEF e
<1>7. \A q \in Procs \ {p} : proc[q].run = r => Harmless(proc[q], l, e)
  BY <1>2, <1>5, OwnIsHarmless
<1>8. Harmless(s, l, e)
  <2>1. s.branch # NoBranch
    BY <1>3 DEF ProcRecord, NoBranch
  <2>2. QED
    BY <1>4, <1>5, <2>1 DEF Harmless
<1>9. ProcIsSound(p, s, k, own, Dead)
  <2> HIDE DEF l, own, s
  <2>1. QED
    BY <1>3, <1>5, <1>8, OthersStaySound
<1>10. EventIsRight(l, e, own)
  <2>1. \A n \in 1..Len(l) : ~Foreign(l, n)
    BY <1>1, <1>3
  <2> HIDE DEF l, own
  <2>2. /\ EventIsSound(Append(l, e), Len(l) + 1, own)
        /\ \A m \in 1..Len(l) : l[m].kind # "child"
        /\ Readable(Append(l, e), Len(l) + 1)
        /\ \A m \in 1..Len(l) : ~(~IsSeal(l[m]) /\ l[m].branch = NoBranch)
    BY <1>3, <1>4, <1>5, <2>1, ChildFits
  <2>3. QED
    BY <1>3, <1>5, <2>2, OwnEventIsRight
<1>11. BranchIsOwn(p, s)
  BY <1>2 DEF BranchIsOwn, IInv, BranchesAreApart
<1>12. s.run = r
  OBVIOUS
<1> HIDE DEF s
<1>13. QED
  BY <1>1, <1>3, <1>5, <1>6, <1>7, <1>9, <1>10, <1>11, <1>12, LoudStep
-----------------------------------------------------------------------------
(* Recovering. *)

(* A closing event, of a plan that is not stale, closes what is open. *)
SealIsDue(l, seal) ==
    /\ seal \in SealRecord
    /\ seal.kind = "result" => /\ seal.of \in OpsOpen(l, Len(l))
                               /\ seal.branch = l[seal.of].branch
                               /\ seal.how = "interrupted" => ~Crossed(l, Len(l), seal.of)
    /\ seal.kind = "closed" => /\ seal.of \in TurnsOpen(l, Len(l))
                               /\ seal.branch = l[seal.of].branch
                               /\ OpsOpen(l, Len(l)) = {}
    /\ seal.kind = "retired" => \E m \in 1..Len(l) : /\ l[m].kind \in {"created", "child"}
                                                     /\ seal.branch = l[m].branch
                                                     /\ seal.of = AgentOf(l, m)
    /\ seal.kind = "recovered" => seal.branch = Main

LEMMA NextSealIsDue ==
  ASSUME NEW own, NEW t \in ProcRecord, NEW l \in Seq(Events(Procs)), LogIsSound(l, own),
         SealsFollowPlan(t, l), Len(l) = t.seen + t.done,
         NEW plan, plan = Seals(SubSeq(l, 1, t.seen)), t.done < Len(plan),
         NEW seal, seal = plan[t.done + 1]
  PROVE  SealIsDue(l, seal)
<1> DEFINE seen == t.seen
           done == t.done
           base == SubSeq(l, 1, seen)
           n == Len(l)
<1>1. seen \in Nat /\ done \in Nat /\ n \in Nat /\ n = seen + done /\ seen \in 0..n
  BY DEF ProcRecord
<1>2. /\ base \in Seq(Events(Procs)) /\ Len(base) = seen
      /\ \A m \in 1..seen : base[m] = l[m]
  <2>1. seen \in 0..Len(l) /\ l \in Seq(Events(Procs))
    BY <1>1
  <2> HIDE DEF seen
  <2>2. QED
    BY <2>1
<1>3. /\ \A i \in 1..done : /\ IsSeal(l[seen + i]) /\ l[seen + i].kind = plan[i].kind
                            /\ l[seen + i].of = plan[i].of
      /\ done < Len(plan) /\ seal = plan[done + 1] /\ plan = Seals(base)
  BY DEF SealsFollowPlan
<1> HIDE DEF base
<1>4. /\ plan \in Seq(SealRecord)
      /\ \A i \in 1..Len(plan) : SealIsSound(base, plan[i])
      /\ \A i, j \in 1..Len(plan) :
            plan[i].kind = plan[j].kind /\ plan[i].kind \in {"result", "closed"} /\ plan[i].of = plan[j].of
                => i = j
      /\ \A i \in 1..Len(plan) : plan[i].kind = "closed" =>
            \A o \in OpsOpen(base, seen) :
                \E j \in 1..(i - 1) : plan[j].kind = "result" /\ plan[j].of = o
  <2> DEFINE s == Seals(base)
  <2>1. /\ s \in Seq(SealRecord)
        /\ \A i \in 1..Len(s) : SealIsSound(base, s[i])
        /\ \A i, j \in 1..Len(s) :
              s[i].kind = s[j].kind /\ s[i].kind \in {"result", "closed"} /\ s[i].of = s[j].of
                  => i = j
        /\ \A i \in 1..Len(s) : s[i].kind = "closed" =>
              \A o \in OpsOpen(base, Len(base)) :
                  \E j \in 1..(i - 1) : s[j].kind = "result" /\ s[j].of = o
    BY <1>2, SealsAre
  <2>2. s = plan /\ Len(base) = seen
    BY <1>2, <1>3
  <2> HIDE DEF s, seen
  <2>3. QED
    BY <2>1, <2>2
<1>5. \A m \in 1..n : l[m] \in Events(Procs) /\ (IsSeal(l[m]) => l[m].kind \in SealKinds)
  BY DEF LogIsSound, EventIsSound
<1> HIDE DEF seen, done, n
<1>6. Len(plan) \in Nat /\ done + 1 \in 1..Len(plan) /\ 1..done \subseteq 1..Len(plan)
  <2>1. Len(plan) \in Nat
    BY <1>4
  <2>2. QED
    BY <1>1, <1>3, <2>1
<1>7. SealIsSound(base, seal) /\ seal \in SealRecord
  BY <1>3, <1>4, <1>6 DEF SealIsSound
\* the later events are seals
<1>8. ASSUME NEW m \in 1..n PROVE m \in 1..seen \/ \E i \in 1..done : m = seen + i
  <2>1. CASE m <= seen
    BY <1>1, <2>1
  <2>2. CASE ~(m <= seen)
    <3>1. m - seen \in 1..done /\ m = seen + (m - seen)
      BY <1>1, <2>2
    <3>2. QED
      BY <3>1
  <2>3. QED
    BY <2>1, <2>2
<1>9. \A i \in 1..done : seen + i \in 1..n
  BY <1>1
<1>10. \A i \in 1..done : l[seen + i].kind \in SealKinds
  BY <1>3, <1>5, <1>9
<1>11. Agree(base, seen, l)
  BY <1>2 DEF Agree
<1>12. /\ TurnsOpen(base, seen) = TurnsOpen(l, seen) /\ OpsOpen(base, seen) = OpsOpen(l, seen)
       /\ \A o : Crossed(base, seen, o) <=> Crossed(l, seen, o)
  BY <1>1, <1>11, SameReading
<1>13. 1..seen \subseteq 1..n
  BY <1>1
<1>14. ASSUME seal.kind \in {"result", "closed"}, NEW m \in 1..n, l[m].kind = seal.kind,
              l[m].of = seal.of
       PROVE  m \in 1..seen
  <2>1. SUFFICES ASSUME NEW i \in 1..done, m = seen + i PROVE FALSE
    BY <1>8
  <2>2. plan[i].kind = seal.kind /\ plan[i].of = seal.of
    BY <1>3, <1>14, <2>1
  <2>3. i \in 1..Len(plan)
    BY <1>6
  <2>4. i = done + 1
    BY <1>3, <1>4, <1>6, <1>14, <2>2, <2>3
  <2>5. QED
    BY <1>1, <2>4
<1>15. ASSUME seal.kind = "result"
       PROVE  /\ seal.of \in OpsOpen(l, n) /\ seal.branch = l[seal.of].branch
              /\ seal.how = "interrupted" => ~Crossed(l, n, seal.of)
  <2>1. /\ seal.of \in OpsOpen(l, seen) /\ seal.branch = base[seal.of].branch
        /\ seal.how = ToolOutcome(base, seal.of)
    BY <1>2, <1>7, <1>12, <1>15 DEF SealIsSound
  <2>2. seal.of \in 1..seen /\ l[seal.of].kind = "intent" /\ About(l, seen, "result", seal.of) = {}
    BY <2>1 DEF OpsOpen
  <2>3. About(l, n, "result", seal.of) = {}
    BY <1>14, <1>15, <2>2 DEF About
  <2>4. seal.how = "interrupted" => ~Crossed(l, seen, seal.of)
    BY <1>2, <1>12, <2>1 DEF ToolOutcome
  <2>5. ASSUME ~Crossed(l, seen, seal.of) PROVE ~Crossed(l, n, seal.of)
    <3>1. \A m \in 1..n : l[m].kind = "started" => m \in 1..seen
      BY <1>8, <1>10 DEF SealKinds
    <3>2. QED
      BY <2>5, <3>1 DEF Crossed, About
  <2>6. QED
    BY <1>2, <1>13, <2>1, <2>2, <2>3, <2>4, <2>5 DEF OpsOpen
<1>16. ASSUME seal.kind = "closed"
       PROVE  /\ seal.of \in TurnsOpen(l, n) /\ seal.branch = l[seal.of].branch
              /\ OpsOpen(l, n) = {}
  <2>1. seal.of \in TurnsOpen(l, seen) /\ seal.branch = base[seal.of].branch
    BY <1>2, <1>7, <1>12, <1>16 DEF SealIsSound
  <2>2. seal.of \in 1..seen /\ l[seal.of].kind = "turn" /\ About(l, seen, "closed", seal.of) = {}
    BY <2>1 DEF TurnsOpen
  <2>3. About(l, n, "closed", seal.of) = {}
    BY <1>14, <1>16, <2>2 DEF About
  <2>4. ASSUME NEW o \in OpsOpen(l, n) PROVE FALSE
    <3>1. o \in 1..n /\ l[o].kind = "intent" /\ About(l, n, "result", o) = {}
      BY DEF OpsOpen
    <3>2. o \in 1..seen
      BY <1>8, <1>10, <3>1 DEF SealKinds
    <3>3. About(l, seen, "result", o) = {}
      BY <1>13, <3>1 DEF About
    <3>4. o \in OpsOpen(base, seen)
      BY <1>12, <3>1, <3>2, <3>3 DEF OpsOpen
    <3>5. PICK j \in 1..((done + 1) - 1) : plan[j].kind = "result" /\ plan[j].of = o
      BY <1>3, <1>4, <1>6, <1>16, <3>4
    <3>6. j \in 1..done
      BY <1>1
    <3>7. seen + j \in 1..n /\ l[seen + j].kind = "result" /\ l[seen + j].of = o
      BY <1>3, <1>9, <3>5, <3>6
    <3>8. QED
      BY <3>1, <3>7 DEF About
  <2>5. QED
    BY <1>2, <1>13, <2>1, <2>2, <2>3, <2>4 DEF TurnsOpen
<1>17. ASSUME seal.kind = "retired"
       PROVE  \E m \in 1..n : /\ l[m].kind \in {"created", "child"}
                              /\ seal.branch = l[m].branch /\ seal.of = AgentOf(l, m)
  <2>1. PICK m \in 1..seen : /\ base[m].kind \in {"created", "child"}
                             /\ seal.branch = base[m].branch /\ seal.of = AgentOf(base, m)
    BY <1>2, <1>7, <1>17 DEF SealIsSound
  <2>2. base[m] = l[m]
    BY <1>2
  <2>3. AgentOf(base, m) = AgentOf(l, m)
    BY <2>2 DEF AgentOf
  <2>4. QED
    BY <1>13, <2>1, <2>2, <2>3
<1>18. seal.kind = "recovered" => seal.branch = Main
  BY <1>7 DEF SealIsSound
<1>19. QED
  BY <1>7, <1>15, <1>16, <1>17, <1>18 DEF n, SealIsDue

LEMMA SealEventIs ==
  ASSUME NEW p \in Procs, NEW l \in Seq(Events(Procs)), NEW seal, SealIsDue(l, seal),
         NEW checked \in 1..Len(l), NEW e, e = SealEvent(l, seal, p, checked)
  PROVE  /\ e \in Events(Procs) /\ IsSeal(e)
         /\ e.kind = seal.kind /\ e.branch = seal.branch /\ e.of = seal.of /\ e.how = seal.how
         /\ e.by = p /\ e.checked = checked /\ e.cause = Tip(l, Len(l), e.branch)
<1>1. /\ e.kind = seal.kind /\ e.branch = seal.branch /\ e.of = seal.of /\ e.how = seal.how
      /\ e.by = p /\ e.checked = checked /\ e.cause = Tip(l, Len(l), e.branch)
  BY DEF SealEvent
<1>2. /\ seal.kind \in SealKinds /\ seal.branch \in Int /\ seal.of \in Nat
      /\ seal.how \in {"none", "completed", "interrupted", "unknown"}
  BY DEF SealIsDue, SealRecord
<1>3. SealKinds \subseteq Kinds
  BY DEF SealKinds, Kinds
<1> DEFINE tip == Tip(l, Len(l), seal.branch)
<1>4. tip \in Nat
  <2>1. Len(l) \in Nat
    OBVIOUS
  <2>2. Tip(l, Len(l), seal.branch) \in 0..Len(l)
    BY <2>1, TipIs
  <2>3. QED
    BY <2>1, <2>2
<1>5. Len(l) \in Nat /\ checked \in Int /\ checked >= 0
  OBVIOUS
<1>6. e = [kind |-> seal.kind, branch |-> seal.branch, of |-> seal.of, how |-> seal.how,
           cause |-> tip, by |-> p, checked |-> checked]
  BY DEF SealEvent
<1> HIDE DEF tip
<1>7. e \in Events(Procs)
  <2>1. seal.kind \in Kinds /\ checked \in Int
    BY <1>2, <1>3, <1>5
  <2>2. QED
    BY <1>2, <1>4, <1>6, <2>1 DEF Events
<1>8. QED
  BY <1>1, <1>5, <1>7 DEF IsSeal

(* The turn a closing event ends, or ends an operation of, and who wrote it. *)
LEMMA SealedTurnIs ==
  ASSUME NEW own, NEW l \in Seq(Events(Procs)), LogIsSound(l, own),
         NEW seal, SealIsDue(l, seal), seal.kind \in {"result", "closed"},
         NEW e \in Events(Procs), e.kind = seal.kind, e.of = seal.of,
         NEW u, u = TurnSealed(Append(l, e), Len(l) + 1)
  PROVE  /\ u \in 1..Len(l) /\ l[u].kind = "turn" /\ l[u].by = l[e.of].by
         /\ e.of \in 1..Len(l) /\ ~IsSeal(l[e.of])
         /\ l[e.of].kind = IF e.kind = "result" THEN "intent" ELSE "turn"
         /\ Declared(l, Len(l), l[e.of].branch)
<1> DEFINE k == Append(l, e)
<1>1. /\ Len(l) \in Nat /\ k[Len(l) + 1] = e
      /\ \A m \in 1..Len(l) : k[m] = l[m]
  BY AppendIs
<1>2. /\ e.of \in 1..Len(l)
      /\ l[e.of].kind = IF e.kind = "result" THEN "intent" ELSE "turn"
  BY DEF SealIsDue, OpsOpen, TurnsOpen
<1>3. EventIsSound(l, e.of, own)
  BY <1>2 DEF LogIsSound
<1>4. ~IsSeal(l[e.of]) /\ Declared(l, e.of - 1, l[e.of].branch)
  BY <1>2, <1>3 DEF EventIsSound, SealKinds
<1>5. Declared(l, Len(l), l[e.of].branch)
  <2>1. 1..(e.of - 1) \subseteq 1..Len(l)
    BY <1>1, <1>2
  <2>2. QED
    BY <1>4, <2>1 DEF Declared
<1>6. u = IF e.kind = "result" THEN l[e.of].of ELSE e.of
  <2>1. k[e.of] = l[e.of] /\ u = TurnSealed(k, Len(l) + 1)
    BY <1>1, <1>2
  <2> HIDE DEF k
  <2>2. QED
    BY <1>1, <2>1 DEF TurnSealed
<1>7. CASE e.kind = "result"
  <2>1. u \in 1..(e.of - 1) /\ l[u].kind = "turn" /\ l[e.of].by = l[u].by
    BY <1>2, <1>3, <1>6, <1>7 DEF EventIsSound
  <2>2. 1..(e.of - 1) \subseteq 1..Len(l)
    BY <1>1, <1>2
  <2>3. QED
    BY <1>2, <1>4, <1>5, <2>1, <2>2
<1>8. CASE e.kind = "closed"
  BY <1>2, <1>4, <1>5, <1>6, <1>8
<1>9. QED
  BY <1>7, <1>8

(* A closing event fits the log it was planned for. *)
(* What a closing event that is due makes of a log that is sound. *)
LEMMA SealEventReads ==
  ASSUME NEW p \in Procs, NEW own, NEW l \in Seq(Events(Procs)), LogIsSound(l, own),
         Len(l) >= 2, NEW checked \in 1..Len(l),
         NEW seal, SealIsDue(l, seal), NEW e, e = SealEvent(l, seal, p, checked)
  PROVE  LET k == Append(l, e)
         IN  EventIsSound(k, Len(l) + 1, own) /\ Readable(k, Len(l) + 1)
<1> DEFINE k == Append(l, e)
           n == Len(l) + 1
<1>2. /\ e \in Events(Procs) /\ IsSeal(e)
      /\ e.kind = seal.kind /\ e.branch = seal.branch /\ e.of = seal.of /\ e.how = seal.how
      /\ e.checked = checked /\ e.cause = Tip(l, Len(l), e.branch)
  BY SealEventIs
<1>3. /\ Len(l) \in Nat /\ k[n] = e
      /\ \A m \in 1..Len(l) : k[m] = l[m]
  BY <1>2, AppendIs
<1>4. Agree(k, Len(l), l)
  BY <1>3 DEF Agree
<1>5. e.kind \in SealKinds
  BY <1>2 DEF SealIsDue, SealRecord
<1>6. e.kind \in {"result", "closed"} =>
        LET u == TurnSealed(k, n)
        IN  /\ u \in 1..Len(l) /\ l[u].kind = "turn"
            /\ e.of \in 1..Len(l)
            /\ l[e.of].kind = IF e.kind = "result" THEN "intent" ELSE "turn"
            /\ Declared(l, Len(l), l[e.of].branch)
  BY <1>2, SealedTurnIs
<1>7. InOrder(k, n)
  BY <1>2, <1>5, InOrderIs DEF SealIsDue, SealKinds
<1> HIDE DEF k
<1>8. n - 1 = Len(l) /\ n \in Nat /\ n # 1 /\ n # 2 /\ ~(n <= 2)
  BY <1>3
<1> HIDE DEF n
<1>9. /\ \A b : Declared(k, n - 1, b) <=> Declared(l, Len(l), b)
      /\ \A b : Tip(k, n - 1, b) = Tip(l, Len(l), b)
      /\ \A o : Crossed(k, n - 1, o) <=> Crossed(l, Len(l), o)
  BY <1>3, <1>4, <1>8, SameReading
<1>10. EventIsSound(k, n, own)
  BY <1>2, <1>3, <1>5, <1>6, <1>8 DEF EventIsSound, SealKinds
<1>11. Declared(l, Len(l), Main) /\ l[1].branch = Main /\ l[1].kind = "created"
  <2>1. 1 \in 1..Len(l) /\ 2 \in 1..Len(l)
    BY <1>3
  <2>2. l[2].kind = "branch" /\ l[2].branch = Main /\ l[1].branch = Main /\ l[1].kind = "created"
    BY <2>1 DEF LogIsSound, EventIsSound
  <2>3. QED
    BY <2>1, <2>2 DEF Declared, Declares
<1>12. Foreign(k, n) \/ Declared(l, Len(l), e.branch)
  <2>1. CASE e.kind \in {"result", "closed"}
    BY <1>2, <1>6, <2>1 DEF SealIsDue
  <2>2. CASE e.kind = "retired"
    <3>1. PICK m \in 1..Len(l) : /\ l[m].kind \in {"created", "child"}
                                 /\ e.branch = l[m].branch /\ e.of = AgentOf(l, m)
      BY <1>2, <2>2 DEF SealIsDue
    <3>2. CASE l[m].kind = "created"
      <4>1. m = 1
        BY <3>2 DEF LogIsSound, EventIsSound
      <4>2. QED
        BY <1>11, <3>1, <4>1
    <3>3. CASE l[m].kind = "child"
      <4>1. e.of = m /\ m # 0
        BY <1>3, <3>1, <3>3 DEF AgentOf
      <4>2. QED
        BY <1>3, <2>2, <4>1 DEF Foreign, AgentOf
    <3>4. QED
      BY <3>1, <3>2, <3>3
  <2>3. CASE e.kind = "recovered"
    BY <1>2, <1>11, <2>3 DEF SealIsDue
  <2>4. QED
    BY <1>5, <2>1, <2>2, <2>3 DEF SealKinds
<1>13. Readable(k, n)
  <2>1. ExtendsTip(k, n)
    BY <1>2, <1>3, <1>9 DEF ExtendsTip
  <2>2. QED
    BY <1>3, <1>7, <1>9, <1>12, <2>1 DEF Readable, Fits, OnKnownBranch
<1>14. QED
  BY <1>10, <1>13 DEF k, n

LEMMA SealEventFits ==
  ASSUME NEW p \in Procs, NEW own, NEW t, NEW l \in Seq(Events(Procs)), LogIsSound(l, own),
         Len(l) >= 2, OwnersWereDead(t, l, Dead),
         NEW seal, SealIsDue(l, seal), NEW e, e = SealEvent(l, seal, p, t.checked)
  PROVE  EventIsRight(l, e, own)
<1> DEFINE k == Append(l, e)
           n == Len(l) + 1
<1>1. t.checked \in 1..Len(l)
  BY DEF OwnersWereDead
<1>2. /\ e \in Events(Procs) /\ IsSeal(e)
      /\ e.kind = seal.kind /\ e.branch = seal.branch /\ e.of = seal.of /\ e.how = seal.how
      /\ e.checked = t.checked /\ e.cause = Tip(l, Len(l), e.branch)
  BY <1>1, SealEventIs
<1>3. /\ Len(l) \in Nat /\ k[n] = e
      /\ \A m \in 1..Len(l) : k[m] = l[m]
  BY <1>2, AppendIs
<1>4. Agree(k, Len(l), l)
  BY <1>3 DEF Agree
<1>5. e.kind \in SealKinds
  BY <1>2 DEF SealIsDue, SealRecord
<1>6. e.kind \in {"result", "closed"} =>
        LET u == TurnSealed(k, n)
        IN  /\ u \in 1..Len(l) /\ l[u].kind = "turn"
            /\ e.of \in 1..Len(l)
            /\ l[e.of].kind = IF e.kind = "result" THEN "intent" ELSE "turn"
            /\ Declared(l, Len(l), l[e.of].branch)
  BY <1>2, SealedTurnIs
<1> HIDE DEF k
<1>7. n - 1 = Len(l) /\ n \in Nat
  BY <1>3
<1> HIDE DEF n
<1>8. /\ \A b : Declared(k, n - 1, b) <=> Declared(l, Len(l), b)
      /\ \A b : Tip(k, n - 1, b) = Tip(l, Len(l), b)
      /\ \A o : Crossed(k, n - 1, o) <=> Crossed(l, Len(l), o)
  BY <1>3, <1>4, <1>7, SameReading
<1>9. EventIsSound(k, n, own) /\ Readable(k, n)
  BY <1>1, SealEventReads DEF k, n
<1>10. ASSUME SealsWork(k, n), TurnSealed(k, n) <= e.checked PROVE k[TurnSealed(k, n)].by \in Dead
  <2> DEFINE u == TurnSealed(k, n)
  <2>1. u \in 1..Len(l) /\ l[u].kind = "turn"
    BY <1>3, <1>6, <1>10 DEF SealsWork
  <2>2. u <= t.checked
    BY <1>2, <1>10
  <2> HIDE DEF u
  <2>3. u \in 1..t.checked
    BY <1>1, <1>3, <2>1, <2>2
  <2>4. l[u].by \in Dead
    BY <2>1, <2>3 DEF OwnersWereDead
  <2>5. k[u].by \in Dead
    BY <1>3, <2>1, <2>4
  <2>6. QED
    BY <2>5 DEF u
<1>11. ASSUME e.kind = "result", e.how = "interrupted" PROVE ~Crossed(k, n, e.of)
  <2>1. ~Crossed(k, n - 1, e.of)
    BY <1>2, <1>8, <1>11 DEF SealIsDue
  <2>2. \A m \in 1..n : m = n \/ m \in 1..(n - 1)
    BY <1>7
  <2>3. QED
    BY <1>3, <1>11, <2>1, <2>2 DEF Crossed, About
<1>12. e.kind # "child"
  BY <1>5 DEF SealKinds
<1>13. QED
  BY <1>2, <1>9, <1>10, <1>11, <1>12 DEF EventIsRight, k, n

(* It is about nobody's branch, turn or operation who is alive, unless it      *)
(* closes a turn that began after the owners were asked.                       *)
LEMMA SealIsHarmless ==
  ASSUME NEW p \in Procs, NEW own, NEW t, NEW l \in Seq(Events(Procs)), LogIsSound(l, own),
         Len(l) >= 2, OwnersWereDead(t, l, Dead),
         NEW seal, SealIsDue(l, seal), NEW e, e = SealEvent(l, seal, p, t.checked),
         NEW q, q \notin Dead, NEW s \in ProcRecord, ~s.fresh, WriterIsSound(q, s, l, own)
  PROVE  Harmless(s, l, e)
<1> DEFINE k == Append(l, e)
           n == Len(l) + 1
           u == TurnSealed(k, n)
<1>1. t.checked \in 1..Len(l)
  BY DEF OwnersWereDead
<1>2. /\ e \in Events(Procs) /\ IsSeal(e)
      /\ e.kind = seal.kind /\ e.branch = seal.branch /\ e.of = seal.of
      /\ e.checked = t.checked
  BY <1>1, SealEventIs
<1>3. e.kind \in SealKinds
  BY <1>2 DEF SealIsDue, SealRecord
<1>4. /\ Len(l) \in Nat /\ k[n] = e /\ Len(k) = n /\ n \in 1..n
  BY <1>2, AppendIs
<1>5. DOMAIN k = 1..n
  <2>1. k \in Seq(Events(Procs))
    BY <1>2, AppendIs
  <2> HIDE DEF k
  <2>2. QED
    BY <1>4, <2>1
<1>6. /\ \A m \in 1..Len(l) : ~IsSeal(l[m]) /\ l[m].branch = s.branch => l[m].by = q
      /\ s.turn # 0 => l[s.turn].by = q
      /\ s.op # 0 => l[s.op].by = q
  BY DEF WriterIsSound, WorkIsOwn
<1>7. ASSUME e.kind \in {"result", "closed"},
             \/ e.branch = s.branch
             \/ e.kind = "closed" /\ s.turn # 0 /\ e.of = s.turn
             \/ e.kind = "result" /\ s.op # 0 /\ e.of = s.op
      PROVE  SealedUnseen(k)
  <2>1. /\ u \in 1..Len(l) /\ l[u].kind = "turn" /\ l[u].by = l[e.of].by
        /\ e.of \in 1..Len(l) /\ ~IsSeal(l[e.of])
    BY <1>2, <1>7, SealedTurnIs
  <2>2. seal.branch = l[seal.of].branch
    BY <1>2, <1>7 DEF SealIsDue
  <2> HIDE DEF u
  <2>3. l[e.of].by = q
    BY <1>2, <1>6, <1>7, <2>1, <2>2
  <2>4. u \notin 1..t.checked
    BY <2>1, <2>3 DEF OwnersWereDead
  <2>5. u > t.checked
    BY <1>1, <1>4, <2>1, <2>4
  <2> HIDE DEF k
  <2>6. SealsWork(k, n)
    BY <1>2, <1>4, <1>7 DEF SealsWork
  <2>7. u > k[n].checked
    BY <1>2, <1>4, <2>5
  <2>8. QED
    BY <1>4, <1>5, <2>6, <2>7 DEF SealedUnseen, u
<1>8. s.branch # Main
  <2>1. SUFFICES ASSUME s.branch = Main PROVE FALSE
    OBVIOUS
  <2>2. 1 \in 1..Len(l) /\ 1 \in 1..t.checked
    BY <1>1, <1>4
  <2>3. l[1].kind = "created" /\ l[1].branch = Main /\ ~IsSeal(l[1])
    BY <2>2 DEF LogIsSound, EventIsSound
  <2>4. QED
    BY <1>6, <2>1, <2>2, <2>3 DEF OwnersWereDead
<1>9. ASSUME e.kind \in {"retired", "recovered"} PROVE e.branch # s.branch
  <2>1. CASE e.kind = "recovered"
    BY <1>2, <1>8, <2>1 DEF SealIsDue
  <2>2. CASE e.kind = "retired"
    <3>1. PICK m \in 1..Len(l) : l[m].kind \in {"created", "child"} /\ e.branch = l[m].branch
      BY <1>2, <2>2 DEF SealIsDue
    <3>2. CASE l[m].kind = "created"
      <4>1. m = 1
        BY <3>2 DEF LogIsSound, EventIsSound
      <4>2. l[1].branch = Main
        BY <3>1, <4>1 DEF LogIsSound, EventIsSound
      <4>3. QED
        BY <1>8, <3>1, <4>1, <4>2
    <3>3. CASE l[m].kind = "child"
      <4>1. l[m].branch = NoBranch
        BY <3>3 DEF LogIsSound, EventIsSound, SealKinds
      <4>2. s.branch # NoBranch
        BY DEF ProcRecord, NoBranch
      <4>3. QED
        BY <3>1, <4>1, <4>2
    <3>4. QED
      BY <3>1, <3>2, <3>3
  <2>3. QED
    BY <1>9, <2>1, <2>2
<1> HIDE DEF k
<1>10. QED
  BY <1>2, <1>3, <1>7, <1>9 DEF Harmless, SealKinds, k

LEMMA SealedIsSound ==
  ASSUME NEW p \in Procs, NEW own, NEW t \in ProcRecord, NEW l \in Seq(Events(Procs)),
         t.at = "sealing", ProcIsSound(p, t, l, own, Dead), Len(l) = t.seen + t.done,
         NEW plan, plan = Seals(SubSeq(l, 1, t.seen)), t.done < Len(plan), Len(plan) \in Nat,
         NEW e \in Events(Procs), IsSeal(e), e.kind = plan[t.done + 1].kind,
         e.of = plan[t.done + 1].of,
         NEW s \in ProcRecord, s.at = "sealing", s.seen = t.seen, s.checked = t.checked,
         s.done = t.done + 1, s.fresh = t.fresh, s.turn = t.turn, s.op = t.op
  PROVE  ProcIsSound(p, s, Append(l, e), own, Dead)
<1> DEFINE k == Append(l, e)
<1>1. /\ Len(l) \in Nat /\ Len(k) = Len(l) + 1 /\ k[Len(l) + 1] = e
      /\ \A m \in 1..Len(l) : k[m] = l[m]
  BY AppendIs
<1>2. Len(l) >= 2 /\ OwnersWereDead(t, l, Dead) /\ SealsFollowPlan(t, l) /\ HoldsNothing(t)
  BY DEF ProcIsSound, Recovering, Writing, Open
<1>3. /\ t.seen \in Nat /\ t.done \in Nat /\ t.seen \in 0..Len(l)
  BY DEF ProcRecord
<1>4. SubSeq(k, 1, s.seen) = SubSeq(l, 1, t.seen)
  BY <1>3, SamePrefix
<1>5. \A i \in 1..t.done : /\ IsSeal(l[t.seen + i]) /\ l[t.seen + i].kind = plan[i].kind
                           /\ l[t.seen + i].of = plan[i].of
  BY <1>2 DEF SealsFollowPlan
<1> SUFFICES ProcIsSound(p, s, k, own, Dead)
  OBVIOUS
<1> HIDE DEF k
<1>6. ASSUME NEW i \in 1..s.done
      PROVE  /\ IsSeal(k[s.seen + i]) /\ k[s.seen + i].kind = plan[i].kind
             /\ k[s.seen + i].of = plan[i].of
  <2>1. CASE i = t.done + 1
    <3>1. s.seen + i = Len(l) + 1
      BY <1>3, <2>1
    <3>2. QED
      BY <1>1, <2>1, <3>1
  <2>2. CASE i # t.done + 1
    <3>1. i \in 1..t.done /\ t.seen + i \in 1..Len(l)
      BY <1>1, <1>3, <2>2
    <3>2. QED
      BY <1>1, <1>5, <3>1
  <2>3. QED
    BY <2>1, <2>2
<1>7. s.seen + s.done <= Len(k) /\ s.done <= Len(plan)
  BY <1>1, <1>3
<1>8. SealsFollowPlan(s, k)
  BY <1>4, <1>6, <1>7 DEF SealsFollowPlan
<1>9. OwnersWereDead(s, k, Dead)
  <2>1. t.checked \in 1..Len(l)
    BY <1>2 DEF OwnersWereDead
  <2>2. t.checked \in 1..Len(k) /\ 1..t.checked \subseteq 1..Len(l)
    BY <1>1, <2>1
  <2>3. QED
    BY <1>1, <1>2, <2>2 DEF OwnersWereDead
<1>10. Len(k) >= 2
  BY <1>1, <1>2
<1>11. HoldsNothing(s)
  BY <1>2 DEF HoldsNothing
<1>12. QED
  BY <1>8, <1>9, <1>10, <1>11 DEF ProcIsSound, Writing, Open

LEMMA SealNextKeeps ==
  ASSUME IInv, NEW p \in Procs, SealNext(p) PROVE IInv'
<1> DEFINE r == proc[p].run
           l == log[r]
           own == owners[r]
           plan == PlanOf(p)
           seal == plan[proc[p].done + 1]
           planned == SubSeq(l, 1, proc[p].seen + proc[p].done)
           e == SealEvent(l, seal, p, proc[p].checked)
           k == Append(l, e)
           s == [proc[p] EXCEPT !.done = @ + 1]
<1>1. /\ proc[p].at = "sealing" /\ proc[p].done < Len(plan)
      /\ Len(l) = proc[p].seen + proc[p].done
      /\ log' = [log EXCEPT ![r] = Append(l, SealEvent(planned, seal, p, proc[p].checked))]
      /\ proc' = [proc EXCEPT ![p] = s]
      /\ UNCHANGED <<catalog, owners>>
  BY DEF SealNext, PlanIsStale, Moves
<1>2. /\ proc[p] \in ProcRecord /\ Alive(p) /\ r \in Runs /\ l \in Seq(Events(Procs))
      /\ LogIsSound(l, own) /\ ProcIsSound(p, proc[p], l, own, Dead)
      /\ Len(l) \in Nat
  BY <1>1, AliveProc DEF Opening
<1>3. planned = l
  <2>1. planned = SubSeq(l, 1, Len(l))
    BY <1>1
  <2> HIDE DEF l
  <2>2. SubSeq(l, 1, Len(l)) = l
    BY <1>2
  <2>3. QED
    BY <2>1, <2>2
<1>4. log' = [log EXCEPT ![r] = k]
  BY <1>1, <1>3
<1>5. /\ Len(l) >= 2 /\ OwnersWereDead(proc[p], l, Dead) /\ SealsFollowPlan(proc[p], l)
      /\ proc[p].done + 1 \in Nat
  <2>1. proc[p].done \in Nat
    BY <1>2 DEF ProcRecord
  <2>2. proc[p].at \in Recovering
    BY <1>1 DEF Recovering
  <2>3. QED
    BY <1>1, <1>2, <2>1, <2>2 DEF ProcIsSound
<1>6. plan = Seals(SubSeq(l, 1, proc[p].seen))
  BY DEF PlanOf
<1>7. Len(plan) \in Nat
  <2>1. SubSeq(l, 1, proc[p].seen) \in Seq(Events(Procs))
    <3>1. proc[p].seen \in Nat /\ proc[p].done \in Nat
      BY <1>2 DEF ProcRecord
    <3>2. proc[p].seen \in 0..Len(l)
      BY <1>1, <1>2, <3>1
    <3>3. QED
      BY <1>2, <3>2
  <2> DEFINE base == SubSeq(l, 1, proc[p].seen)
  <2> HIDE DEF base
  <2>2. Seals(base) \in Seq(SealRecord)
    BY <2>1, SealsAre DEF base
  <2>3. Len(Seals(base)) \in Nat
    BY <2>2
  <2>4. QED
    BY <1>6, <2>3 DEF base
<1>8. s \in ProcRecord
  BY <1>2, <1>5 DEF ProcRecord
<1>9. /\ s.at = "sealing" /\ s.run = r /\ s.seen = proc[p].seen /\ s.checked = proc[p].checked
      /\ s.done = proc[p].done + 1 /\ s.fresh = proc[p].fresh
      /\ s.turn = proc[p].turn /\ s.op = proc[p].op
  BY <1>1, <1>2 DEF ProcRecord
<1>10. seal = plan[proc[p].done + 1] /\ e = SealEvent(l, seal, p, proc[p].checked)
  OBVIOUS
<1> HIDE DEF s, plan, seal, e
<1>11. SealIsDue(l, seal)
  BY <1>1, <1>2, <1>5, <1>6, <1>10, NextSealIsDue
<1>12. proc[p].checked \in 1..Len(l)
  BY <1>5 DEF OwnersWereDead
<1>13. e \in Events(Procs) /\ IsSeal(e) /\ e.kind = seal.kind /\ e.of = seal.of
  BY <1>2, <1>10, <1>11, <1>12, SealEventIs
<1>14. EventIsRight(l, e, own)
  <2>1. /\ l \in Seq(Events(Procs)) /\ LogIsSound(l, own) /\ Len(l) >= 2
        /\ OwnersWereDead(proc[p], l, Dead) /\ SealIsDue(l, seal)
        /\ e = SealEvent(l, seal, p, proc[p].checked)
    BY <1>2, <1>5, <1>10, <1>11
  <2> HIDE DEF l, own, k
  <2>2. QED
    BY <2>1, SealEventFits
<1>15. ProcIsSound(p, s, k, own, Dead)
  BY <1>1, <1>2, <1>6, <1>7, <1>8, <1>9, <1>10, <1>13, SealedIsSound
<1>16. ASSUME NEW q \in Procs \ {p}, proc[q].run = r PROVE Harmless(proc[q], l, e)
  <2>1. SUFFICES ASSUME proc[q].at \in Writing PROVE Harmless(proc[q], l, e)
    BY DEF Harmless
  <2>2. ~proc[q].fresh
    BY <1>5, <1>16, <2>1, OtherIsNotFresh
  <2>3. proc[q] \in ProcRecord /\ Alive(q) /\ WriterIsSound(q, proc[q], l, own)
    BY <1>16, <2>1, WriterIs
  <2>4. q \notin Dead
    BY <2>3 DEF Dead
  <2>5. QED
    BY <1>2, <1>5, <1>10, <1>11, <2>2, <2>3, <2>4, SealIsHarmless
<1>17. s.at \notin Writing
  BY <1>9 DEF Writing, Open
<1>18. BranchIsOwn(p, s)
  BY <1>17 DEF BranchIsOwn
<1>19. proc' = [proc EXCEPT ![p] = s] /\ UNCHANGED <<catalog, owners>> /\ s.run = r
  BY <1>1, <1>9
<1>20. QED
  BY <1>2, <1>4, <1>8, <1>13, <1>14, <1>15, <1>16, <1>18, <1>19, LoudStep
-----------------------------------------------------------------------------
(* What one recoverer makes of a history it can close. *)

(* An event that restore_conversation takes: not another agent's, and in order. *)
Taken(l, n) == ~Foreign(l, n) /\ Fits(l, n)

(* The plan forgets no operation and no turn. *)
LEMMA SealsAreAll ==
  ASSUME NEW l \in Seq(Events(Procs))
  PROVE  LET s == Seals(l)
         IN  /\ \A o \in OpsOpen(l, Len(l)) :
                    \E i \in 1..Len(s) : s[i].kind = "result" /\ s[i].of = o
             /\ \A t \in TurnsOpen(l, Len(l)) :
                    \E i \in 1..Len(s) : s[i].kind = "closed" /\ s[i].of = t
<1> DEFINE a == ToolSeals(l)
           b == TurnSeals(l)
           c == AgentSeals(l)
           d == RunSeals(l)
<1>1. /\ a \in Seq(SealRecord) /\ Len(a) \in Nat
      /\ \A i \in 1..Len(a) : a[i].kind = "result"
      /\ \A o \in OpsOpen(l, Len(l)) : \E i \in 1..Len(a) : a[i].of = o
  BY ToolSealsAre
<1>2. /\ b \in Seq(SealRecord) /\ Len(b) \in Nat
      /\ \A i \in 1..Len(b) : b[i].kind = "closed"
      /\ \A t \in TurnsOpen(l, Len(l)) : \E i \in 1..Len(b) : b[i].of = t
  BY TurnSealsAre
<1>3. c \in Seq(SealRecord) /\ Len(c) \in Nat
  BY AgentSealsAre
<1>4. d \in Seq(SealRecord) /\ Len(d) \in Nat
  BY RunSealsAre
<1>5. Seals(l) = ((a \o b) \o c) \o d
  BY DEF Seals
<1> HIDE DEF a, b, c, d
<1>6. /\ a \o b \in Seq(SealRecord) /\ Len(a \o b) = Len(a) + Len(b)
      /\ \A i \in 1..(Len(a) + Len(b)) : (a \o b)[i] = IF i <= Len(a) THEN a[i] ELSE b[i - Len(a)]
  BY <1>1, <1>2, ConcatProperties
<1> DEFINE ab == a \o b
<1> HIDE DEF ab
<1>7. /\ ab \o c \in Seq(SealRecord) /\ Len(ab \o c) = Len(ab) + Len(c)
      /\ \A i \in 1..(Len(ab) + Len(c)) : (ab \o c)[i] = IF i <= Len(ab) THEN ab[i] ELSE c[i - Len(ab)]
  BY <1>3, <1>6, ConcatProperties DEF ab
<1> DEFINE abc == ab \o c
<1> HIDE DEF abc
<1>8. /\ abc \o d \in Seq(SealRecord) /\ Len(abc \o d) = Len(abc) + Len(d)
      /\ \A i \in 1..(Len(abc) + Len(d)) :
            (abc \o d)[i] = IF i <= Len(abc) THEN abc[i] ELSE d[i - Len(abc)]
  BY <1>4, <1>7, ConcatProperties DEF abc
<1> DEFINE s == abc \o d
<1> HIDE DEF s
<1>9. ASSUME NEW i \in 1..(Len(a) + Len(b)) PROVE i \in 1..Len(s) /\ s[i] = ab[i]
  <2>1. i \in 1..(Len(ab) + Len(c)) /\ i <= Len(ab) /\ i \in 1..(Len(abc) + Len(d)) /\ i <= Len(abc)
    BY <1>1, <1>2, <1>3, <1>4, <1>6, <1>7 DEF ab, abc
  <2>2. QED
    BY <1>7, <1>8, <2>1 DEF abc, s
<1>10. ASSUME NEW o \in OpsOpen(l, Len(l))
       PROVE  \E i \in 1..Len(s) : s[i].kind = "result" /\ s[i].of = o
  <2>1. PICK i \in 1..Len(a) : a[i].of = o
    BY <1>1
  <2>2. i \in 1..(Len(a) + Len(b)) /\ ab[i] = a[i]
    BY <1>1, <1>2, <1>6 DEF ab
  <2>3. QED
    BY <1>1, <1>9, <2>1, <2>2
<1>11. ASSUME NEW t \in TurnsOpen(l, Len(l))
       PROVE  \E i \in 1..Len(s) : s[i].kind = "closed" /\ s[i].of = t
  <2>1. PICK j \in 1..Len(b) : b[j].of = t
    BY <1>2
  <2>2. /\ Len(a) + j \in 1..(Len(a) + Len(b)) /\ ~(Len(a) + j <= Len(a))
        /\ (Len(a) + j) - Len(a) = j
    BY <1>1, <1>2
  <2>3. ab[Len(a) + j] = b[j]
    BY <1>6, <2>2 DEF ab
  <2>4. Len(a) + j \in 1..Len(s) /\ s[Len(a) + j] = b[j]
    BY <1>9, <2>2, <2>3
  <2>5. QED
    BY <1>2, <2>1, <2>4
<1>12. Seals(l) = s
  BY <1>5 DEF s, abc, ab
<1>13. QED
  BY <1>10, <1>11, <1>12

(* A tip is told by the branches of the events alone. *)
LEMMA SameBranches ==
  ASSUME NEW k, NEW l, NEW n \in Nat, \A m \in 1..n : k[m].branch = l[m].branch
  PROVE  \A b : Tip(k, n, b) = Tip(l, n, b)
<1>1. ASSUME NEW b PROVE Tip(k, n, b) = Tip(l, n, b)
  <2>1. {m \in 1..n : k[m].branch = b} = {m \in 1..n : l[m].branch = b}
    OBVIOUS
  <2>2. QED
    BY <2>1 DEF Tip
<1>2. QED
  BY <1>1

(* The first events of a history are themselves a history. *)
LEMMA PrefixIs ==
  ASSUME NEW S, NEW s \in Seq(S), NEW n \in 0..Len(s)
  PROVE  /\ SubSeq(s, 1, n) \in Seq(S) /\ Len(SubSeq(s, 1, n)) = n
         /\ \A m \in 1..n : SubSeq(s, 1, n)[m] = s[m]
<1>1. n \in Int /\ 1 \in Int /\ \A i \in 1..n : s[i] \in S
  OBVIOUS
<1>2. /\ SubSeq(s, 1, n) \in Seq(S)
      /\ Len(SubSeq(s, 1, n)) = IF 1 <= n THEN n - 1 + 1 ELSE 0
      /\ \A i \in 1..(n - 1 + 1) : SubSeq(s, 1, n)[i] = s[1 + i - 1]
  BY <1>1, SubSeqProperties
<1>3. n \in Nat /\ n - 1 + 1 = n /\ \A i \in 1..n : 1 + i - 1 = i
  OBVIOUS
<1>4. QED
  BY <1>2, <1>3

(* A closing event is what the plan has, on top of the tip of its branch. *)
LEMMA SealEventType ==
  ASSUME NEW l, Len(l) \in Nat, NEW seal \in SealRecord, NEW p \in Procs, NEW checked \in Nat,
         NEW e, e = SealEvent(l, seal, p, checked)
  PROVE  /\ e \in Events(Procs) /\ IsSeal(e)
         /\ e.kind = seal.kind /\ e.branch = seal.branch /\ e.of = seal.of
<1> DEFINE tip == Tip(l, Len(l), seal.branch)
<1>1. e = [kind |-> seal.kind, branch |-> seal.branch, of |-> seal.of, how |-> seal.how,
           cause |-> tip, by |-> p, checked |-> checked]
  BY DEF SealEvent
<1>2. tip \in 0..Len(l)
  BY TipIs
<1> HIDE DEF tip
<1>3. tip \in Nat /\ checked \in Int /\ checked >= 0
  BY <1>2
<1>4. /\ seal.kind \in Kinds /\ seal.branch \in Int /\ seal.of \in Nat
      /\ seal.how \in {"none", "completed", "interrupted", "unknown"}
  <2>1. SealKinds \subseteq Kinds
    BY DEF SealKinds, Kinds
  <2>2. QED
    BY <2>1 DEF SealRecord
<1>5. e \in Events(Procs)
  BY <1>1, <1>3, <1>4 DEF Events
<1>6. QED
  BY <1>1, <1>3, <1>5 DEF IsSeal

(* What a closing event says of a history depends on its branches alone. *)
LEMMA SealEventSame ==
  ASSUME NEW k, NEW l, NEW n \in Nat, Len(k) = n, Len(l) = n,
         \A m \in 1..n : k[m].branch = l[m].branch,
         NEW seal, NEW p, NEW checked
  PROVE  SealEvent(k, seal, p, checked) = SealEvent(l, seal, p, checked)
<1>1. \A b : Tip(k, n, b) = Tip(l, n, b)
  BY SameBranches
<1>2. QED
  BY <1>1 DEF SealEvent

(* A closing event says what it was planned to say. *)
LEMMA SealEventKeeps ==
  ASSUME NEW l, NEW seal, NEW p, NEW checked
  PROVE  /\ SealEvent(l, seal, p, checked).kind = seal.kind
         /\ SealEvent(l, seal, p, checked).of = seal.of
BY DEF SealEvent

(* Sealed, event by event. *)
LEMMA SealedIs ==
  ASSUME NEW l \in Seq(Events(Procs)), Len(l) >= 1
  PROVE  LET s == Sealed(l)
             n == Len(l)
             plan == Seals(l)
         IN  /\ s \in Seq(Events(Procs)) /\ Len(s) = n + Len(plan)
             /\ \A m \in 1..n : s[m] = l[m]
             /\ \A i \in 1..Len(plan) :
                    s[n + i] = SealEvent(SubSeq(s, 1, n + i - 1), plan[i], l[1].by, n)
<1> DEFINE n == Len(l)
           plan == Seals(l)
           both == Events(Procs) \cup SealRecord
           planned == l \o plan
           s == Sealed(l)
<1>1. n \in Nat /\ n >= 1 /\ l \in Seq(both)
  OBVIOUS
<1>2. plan \in Seq(SealRecord) /\ plan \in Seq(both) /\ Len(plan) \in Nat
  <2>1. plan \in Seq(SealRecord)
    BY SealsAre
  <2> HIDE DEF plan
  <2>2. QED
    BY <2>1
<1>3. s = [i \in DOMAIN planned |->
              IF i <= n THEN l[i] ELSE SealEvent(SubSeq(planned, 1, i - 1), planned[i], l[1].by, n)]
  BY DEF Sealed
<1> HIDE DEF plan, both
<1>4. /\ planned \in Seq(both) /\ Len(planned) = n + Len(plan)
      /\ \A i \in 1..(n + Len(plan)) : planned[i] = IF i <= n THEN l[i] ELSE plan[i - n]
  BY <1>1, <1>2, ConcatProperties
<1>5. DOMAIN planned = 1..(n + Len(plan))
  BY <1>4
<1> HIDE DEF s, planned, n
<1>6. ASSUME NEW i \in 1..n PROVE s[i] = l[i] /\ planned[i] = l[i] /\ i \in 1..(n + Len(plan))
  BY <1>1, <1>2, <1>3, <1>4, <1>5
<1>7. ASSUME NEW i \in 1..Len(plan)
      PROVE  /\ n + i \in 1..(n + Len(plan)) /\ n + i \in Nat
             /\ planned[n + i] = plan[i] /\ plan[i] \in SealRecord
             /\ s[n + i] = SealEvent(SubSeq(planned, 1, n + i - 1), plan[i], l[1].by, n)
  <2>1. n + i \in 1..(n + Len(plan)) /\ ~(n + i <= n) /\ (n + i) - n = i /\ n + i \in Nat
    BY <1>1, <1>2
  <2>2. planned[n + i] = plan[i] /\ plan[i] \in SealRecord
    BY <1>2, <1>4, <2>1
  <2>3. s[n + i] = IF n + i <= n THEN l[n + i]
                   ELSE SealEvent(SubSeq(planned, 1, (n + i) - 1), planned[n + i], l[1].by, n)
    <3>1. \A j \in 1..(n + Len(plan)) :
              s[j] = IF j <= n THEN l[j] ELSE SealEvent(SubSeq(planned, 1, j - 1), planned[j], l[1].by, n)
      BY <1>3, <1>5
    <3> DEFINE j == n + i
    <3>2. j \in 1..(n + Len(plan))
      BY <2>1
    <3> HIDE DEF j
    <3>3. s[j] = IF j <= n THEN l[j] ELSE SealEvent(SubSeq(planned, 1, j - 1), planned[j], l[1].by, n)
      BY <3>1, <3>2
    <3>4. QED
      BY <3>3 DEF j
  <2>4. (n + i) - 1 = n + i - 1
    BY <1>1
  <2>5. s[n + i] = SealEvent(SubSeq(planned, 1, n + i - 1), planned[n + i], l[1].by, n)
    BY <2>1, <2>3, <2>4
  <2>6. QED
    BY <2>1, <2>2, <2>5
<1>8. ASSUME NEW m \in 1..(n + Len(plan))
      PROVE  m \in 1..n \/ \E i \in 1..Len(plan) : m = n + i
  <2>1. CASE m <= n
    BY <1>1, <2>1
  <2>2. CASE ~(m <= n)
    <3>1. m - n \in 1..Len(plan) /\ m = n + (m - n)
      BY <1>1, <1>2, <2>2
    <3>2. QED
      BY <3>1
  <2>3. QED
    BY <2>1, <2>2
<1>9. ASSUME NEW i \in 1..Len(plan)
      PROVE  /\ Len(SubSeq(planned, 1, n + i - 1)) = n + i - 1
             /\ \A m \in 1..(n + i - 1) : SubSeq(planned, 1, n + i - 1)[m] = planned[m]
  <2>1. n + i - 1 \in 0..Len(planned)
    BY <1>1, <1>2, <1>4
  <2>2. QED
    BY <1>4, <2>1, PrefixIs
<1>10. l[1].by \in Procs
  <2>1. l[1] \in Events(Procs)
    BY <1>1 DEF n
  <2>2. QED
    BY <2>1 DEF Events
<1>11. ASSUME NEW i \in 1..Len(plan)
       PROVE  s[n + i] \in Events(Procs) /\ s[n + i].branch = plan[i].branch
  <2> DEFINE e == s[n + i]
             past == SubSeq(planned, 1, n + i - 1)
  <2>1. Len(past) \in Nat
    BY <1>1, <1>9
  <2>2. e = SealEvent(past, plan[i], l[1].by, n) /\ plan[i] \in SealRecord /\ Len(past) \in Nat
    BY <1>7, <2>1
  <2> HIDE DEF e, past
  <2>3. e \in Events(Procs) /\ e.branch = plan[i].branch
    BY <1>1, <1>10, <2>2, SealEventType
  <2>4. QED
    BY <2>3 DEF e
<1>12. \A m \in 1..(n + Len(plan)) : s[m] \in Events(Procs)
  <2>1. \A m \in 1..n : l[m] \in Events(Procs)
    BY DEF n
  <2>2. QED
    BY <1>6, <1>8, <1>11, <2>1
<1>13. s \in Seq(Events(Procs)) /\ Len(s) = n + Len(plan)
  <2>1. n + Len(plan) \in Nat /\ s = [m \in 1..(n + Len(plan)) |-> s[m]]
    BY <1>1, <1>2, <1>3, <1>5
  <2>2. QED
    BY <1>12, <2>1
<1>14. ASSUME NEW m \in 1..(n + Len(plan)) PROVE s[m].branch = planned[m].branch
  <2>1. CASE m \in 1..n
    BY <1>6, <2>1
  <2>2. ASSUME NEW i \in 1..Len(plan), m = n + i PROVE s[m].branch = planned[m].branch
    BY <1>7, <1>11, <2>2
  <2>3. QED
    BY <1>8, <2>1, <2>2
<1>15. ASSUME NEW i \in 1..Len(plan)
       PROVE  s[n + i] = SealEvent(SubSeq(s, 1, n + i - 1), plan[i], l[1].by, n)
  <2> DEFINE past == SubSeq(s, 1, n + i - 1)
             draft == SubSeq(planned, 1, n + i - 1)
  <2>1. /\ n + i - 1 \in 0..Len(s) /\ n + i - 1 \in Nat /\ n + i \in 1..(n + Len(plan))
        /\ 1..(n + i - 1) \subseteq 1..(n + Len(plan))
    BY <1>1, <1>2, <1>13
  <2>2. Len(past) = n + i - 1 /\ \A m \in 1..(n + i - 1) : past[m] = s[m]
    BY <1>13, <2>1, PrefixIs
  <2>3. Len(draft) = n + i - 1 /\ \A m \in 1..(n + i - 1) : draft[m] = planned[m]
    BY <1>9
  <2>4. s[n + i] = SealEvent(draft, plan[i], l[1].by, n)
    BY <1>7
  <2> HIDE DEF past, draft
  <2>5. \A m \in 1..(n + i - 1) : past[m].branch = draft[m].branch
    BY <1>14, <2>1, <2>2, <2>3
  <2>6. SealEvent(past, plan[i], l[1].by, n) = SealEvent(draft, plan[i], l[1].by, n)
    BY <2>1, <2>2, <2>3, <2>5, SealEventSame
  <2>7. s[n + i] = SealEvent(past, plan[i], l[1].by, n)
    BY <2>4, <2>6
  <2>8. QED
    BY <2>7 DEF past
<1>16. QED
  BY <1>6, <1>13, <1>15 DEF s, plan, n

(* Sealed, as far as its first i closing events. *)
SealedUpTo(l, i) == SubSeq(Sealed(l), 1, Len(l) + i)

(* A history that restore_conversation takes event by event. *)
AllTaken(l, own) == LogIsSound(l, own) /\ \A n \in 1..Len(l) : Taken(l, n)

(* The next closing event is as good as one that SealNext would write now. *)
LEMMA OneMoreSeal ==
  ASSUME NEW own, NEW l \in Seq(Events(Procs)), Len(l) >= 2, NEW i \in 1..Len(Seals(l)),
         AllTaken(SealedUpTo(l, i - 1), own)
  PROVE  AllTaken(SealedUpTo(l, i), own)
<1> DEFINE n == Len(l)
           plan == Seals(l)
           s == Sealed(l)
           k == SealedUpTo(l, i - 1)
           more == SealedUpTo(l, i)
           seal == plan[i]
           p == l[1].by
           e == SealEvent(k, seal, p, n)
           t == [Unopened EXCEPT !.seen = n, !.done = i - 1]
<1>1. /\ s \in Seq(Events(Procs)) /\ Len(s) = n + Len(plan)
      /\ \A m \in 1..n : s[m] = l[m]
      /\ \A j \in 1..Len(plan) : s[n + j] = SealEvent(SubSeq(s, 1, n + j - 1), plan[j], p, n)
  BY SealedIs
<1>2. plan \in Seq(SealRecord) /\ Len(plan) \in Nat
  <2>1. plan \in Seq(SealRecord)
    BY SealsAre
  <2> HIDE DEF plan
  <2>2. QED
    BY <2>1
<1>3. p \in Procs
  <2>1. l[1] \in Events(Procs)
    OBVIOUS
  <2>2. QED
    BY <2>1 DEF Events
<1>4. /\ t \in ProcRecord /\ t.seen = n /\ t.done = i - 1
  <2>1. n \in Nat /\ i - 1 \in Nat /\ NoRun \in {NoRun} \cup Runs /\ Main \in Nat
    BY DEF Main
  <2>2. QED
    BY <2>1 DEF t, Unopened, ProcRecord
<1> HIDE DEF t, s, plan, p
<1>5. /\ n \in Nat /\ i \in Nat /\ i >= 1 /\ i <= Len(plan)
      /\ n + (i - 1) \in 0..Len(s) /\ n + i \in 0..Len(s) /\ n + i \in 1..Len(s)
      /\ n + (i - 1) = n + i - 1 /\ i \in 1..Len(plan)
  BY <1>1, <1>2 DEF plan
<1>6. /\ k \in Seq(Events(Procs)) /\ Len(k) = n + i - 1
      /\ \A m \in 1..(n + i - 1) : k[m] = s[m]
  <2> DEFINE c == n + (i - 1)
  <2>1. k = SubSeq(s, 1, c)
    BY DEF SealedUpTo, s
  <2>2. c \in 0..Len(s) /\ c = n + i - 1
    BY <1>5
  <2> HIDE DEF c
  <2>3. /\ SubSeq(s, 1, c) \in Seq(Events(Procs)) /\ Len(SubSeq(s, 1, c)) = c
        /\ \A m \in 1..c : SubSeq(s, 1, c)[m] = s[m]
    BY <1>1, <2>2, PrefixIs
  <2>4. QED
    BY <2>1, <2>2, <2>3
<1>7. /\ more \in Seq(Events(Procs)) /\ Len(more) = n + i
      /\ \A m \in 1..(n + i) : more[m] = s[m]
  <2> DEFINE c == n + i
  <2>1. more = SubSeq(s, 1, c)
    BY DEF SealedUpTo, s
  <2>2. c \in 0..Len(s)
    BY <1>5
  <2> HIDE DEF c
  <2>3. /\ SubSeq(s, 1, c) \in Seq(Events(Procs)) /\ Len(SubSeq(s, 1, c)) = c
        /\ \A m \in 1..c : SubSeq(s, 1, c)[m] = s[m]
    BY <1>1, <2>2, PrefixIs
  <2>4. QED
    BY <2>1, <2>3 DEF c
<1>8. e = s[n + i] /\ e \in Events(Procs)
  <2>1. k = SubSeq(s, 1, n + i - 1)
    BY <1>5 DEF SealedUpTo, s
  <2>2. s[n + i] \in Events(Procs)
    BY <1>1, <1>5
  <2>3. QED
    BY <1>1, <1>5, <2>1, <2>2
<1>9. LogIsSound(k, own) /\ \A m \in 1..Len(k) : Taken(k, m)
  BY DEF AllTaken
<1> HIDE DEF k, more, e
<1>10. more = Append(k, e)
  <2>1. /\ Append(k, e) \in Seq(Events(Procs)) /\ Len(Append(k, e)) = n + i
        /\ \A m \in 1..(n + i - 1) : Append(k, e)[m] = s[m]
        /\ Append(k, e)[n + i] = s[n + i]
    <3>1. (n + i - 1) + 1 = n + i
      BY <1>5
    <3>2. QED
      BY <1>6, <1>8, <3>1, AppendIs
  <2>2. \A m \in 1..(n + i) : m \in 1..(n + i - 1) \/ m = n + i
    BY <1>5
  <2>3. \A m \in 1..(n + i) : Append(k, e)[m] = more[m]
    BY <1>7, <2>1, <2>2
  <2>4. QED
    BY <1>7, <2>1, <2>3, SeqEqual
\* The plan, as SealNext follows it.
<1>11. SealIsDue(k, seal)
  <2>1. SubSeq(k, 1, n) = l
    <3>1. n \in 0..Len(k) /\ n <= n + i - 1
      BY <1>5, <1>6
    <3>2. /\ SubSeq(k, 1, n) \in Seq(Events(Procs)) /\ Len(SubSeq(k, 1, n)) = n
          /\ \A m \in 1..n : SubSeq(k, 1, n)[m] = k[m]
      BY <1>6, <3>1, PrefixIs
    <3>3. \A m \in 1..n : SubSeq(k, 1, n)[m] = l[m]
      BY <1>1, <1>5, <1>6, <3>2
    <3>4. QED
      BY <3>2, <3>3, SeqEqual
  <2>2. ASSUME NEW j \in 1..t.done
        PROVE  IsSeal(k[t.seen + j]) /\ k[t.seen + j].kind = plan[j].kind /\ k[t.seen + j].of = plan[j].of
    <3>1. j \in 1..Len(plan) /\ n + j \in 1..(n + i - 1) /\ n + j - 1 \in 0..Len(s) /\ n + j - 1 \in Nat
      BY <1>1, <1>4, <1>5
    <3> DEFINE past == SubSeq(s, 1, n + j - 1)
    <3>2. Len(past) \in Nat
      BY <1>1, <3>1, PrefixIs
    <3>3. k[n + j] = SealEvent(past, plan[j], p, n)
      BY <1>1, <1>6, <3>1
    <3>4. plan[j] \in SealRecord
      BY <1>2, <3>1
    <3> HIDE DEF past
    <3> DEFINE f == k[n + j]
    <3>5. f = SealEvent(past, plan[j], p, n)
      BY <3>3
    <3> HIDE DEF f
    <3>6. IsSeal(f) /\ f.kind = plan[j].kind /\ f.of = plan[j].of
      BY <1>3, <1>5, <3>2, <3>4, <3>5, SealEventType
    <3>7. QED
      BY <1>4, <3>6 DEF f
  <2>3. SealsFollowPlan(t, k)
    <3>1. Seals(SubSeq(k, 1, t.seen)) = plan
      BY <1>4, <2>1 DEF plan
    <3>2. t.seen + t.done <= Len(k) /\ t.done <= Len(plan)
      BY <1>4, <1>5, <1>6
    <3>3. QED
      BY <2>2, <3>1, <3>2 DEF SealsFollowPlan
  <2>4. /\ Len(k) = t.seen + t.done /\ t.done < Len(plan)
        /\ plan = Seals(SubSeq(k, 1, t.seen)) /\ seal = plan[t.done + 1]
    <3>1. (i - 1) + 1 = i /\ i - 1 < Len(plan) /\ n + i - 1 = n + (i - 1)
      BY <1>2, <1>5
    <3>2. QED
      BY <1>4, <1>6, <2>1, <3>1 DEF plan
  <2> HIDE DEF seal
  <2>5. QED
    BY <1>4, <1>6, <1>9, <2>3, <2>4, NextSealIsDue
<1>12. n \in 1..Len(k) /\ Len(k) >= 2 /\ Len(k) + 1 = n + i
  BY <1>5, <1>6
<1> HIDE DEF seal
<1>13. EventIsSound(more, n + i, own) /\ Readable(more, n + i)
  <2>1. e = SealEvent(k, seal, p, n)
    BY DEF e
  <2>2. QED
    BY <1>3, <1>6, <1>9, <1>10, <1>11, <1>12, <2>1, SealEventReads
<1>14. e.kind \in SealKinds /\ e.kind = seal.kind /\ e.of = seal.of
  <2>1. e = SealEvent(k, seal, p, n) /\ seal \in SealRecord /\ Len(k) \in Nat
    BY <1>11, <1>12 DEF e, SealIsDue
  <2>2. QED
    BY <1>3, <1>5, <2>1, SealEventType DEF SealRecord
<1>15. LogIsSound(more, own)
  <2>1. e.kind # "child"
    BY <1>14 DEF SealKinds
  <2>2. QED
    BY <1>6, <1>7, <1>8, <1>9, <1>10, <1>13, <2>1, LogStaysSound
<1>16. ASSUME NEW m \in 1..(n + i) PROVE Taken(more, m)
  <2>1. CASE m = n + i
    <3>1. more[n + i] = e
      BY <1>5, <1>7, <1>8
    <3>2. e.kind = "retired" => e.of = 0
      <4>1. SUFFICES ASSUME e.kind = "retired" PROVE e.of = 0
        OBVIOUS
      <4>2. PICK x \in 1..Len(k) : /\ k[x].kind \in {"created", "child"}
                                   /\ seal.of = AgentOf(k, x)
        BY <1>11, <1>14, <4>1 DEF SealIsDue
      <4>3. AgentOf(k, x) = 0
        BY <1>9, <4>2 DEF Taken, Foreign
      <4>4. QED
        BY <1>14, <4>2, <4>3
    <3>3. ~Foreign(more, n + i)
      BY <1>14, <3>1, <3>2 DEF Foreign, AgentOf, SealKinds
    <3>4. QED
      BY <1>13, <2>1, <3>3 DEF Taken, Readable
  <2>2. CASE m \in 1..Len(k)
    <3>1. m \in Nat \ {0} /\ more[m] = k[m] /\ Agree(more, m, k)
      <4>1. m \in 1..(n + i - 1) /\ 1..m \subseteq 1..(n + i - 1) /\ m \in Nat \ {0}
        BY <1>5, <1>6, <2>2
      <4>2. 1..(n + i - 1) \subseteq 1..(n + i)
        BY <1>5
      <4>3. QED
        BY <1>6, <1>7, <4>1, <4>2 DEF Agree
    <3>2. Readable(more, m) <=> Readable(k, m)
      BY <3>1, SameJudgement
    <3>3. Foreign(more, m) <=> Foreign(k, m)
      BY <3>1 DEF Foreign, AgentOf
    <3>4. QED
      BY <1>9, <2>2, <3>2, <3>3 DEF Taken, Readable
  <2>3. QED
    BY <1>5, <1>12, <2>1, <2>2
<1>17. QED
  BY <1>7, <1>15, <1>16 DEF AllTaken, more

(* By induction: the first closing event that were refused would come after    *)
(* ones that are not.                                                          *)
LEMMA SealedIsTaken ==
  ASSUME NEW own, NEW l \in Seq(Events(Procs)), Len(l) >= 2, AllTaken(l, own)
  PROVE  AllTaken(Sealed(l), own)
<1> DEFINE last == Len(Seals(l))
           Refused == {i \in 0..last : ~AllTaken(SealedUpTo(l, i), own)}
<1>1. /\ Sealed(l) \in Seq(Events(Procs)) /\ Len(Sealed(l)) = Len(l) + last
      /\ \A m \in 1..Len(l) : Sealed(l)[m] = l[m]
  BY SealedIs
<1>2. last \in Nat /\ Len(l) \in Nat
  <2>1. Seals(l) \in Seq(SealRecord)
    BY SealsAre
  <2>2. QED
    BY <2>1
<1> HIDE DEF last
<1>3. SealedUpTo(l, 0) = l
  <2>1. Len(l) + 0 = Len(l) /\ Len(l) \in 0..Len(Sealed(l))
    BY <1>1, <1>2
  <2>2. /\ SubSeq(Sealed(l), 1, Len(l)) \in Seq(Events(Procs))
        /\ Len(SubSeq(Sealed(l), 1, Len(l))) = Len(l)
        /\ \A m \in 1..Len(l) : SubSeq(Sealed(l), 1, Len(l))[m] = Sealed(l)[m]
    BY <1>1, <2>1, PrefixIs
  <2>3. SubSeq(Sealed(l), 1, Len(l)) = l
    BY <1>1, <2>2, SeqEqual
  <2>4. QED
    BY <2>1, <2>3 DEF SealedUpTo
<1>4. SealedUpTo(l, last) = Sealed(l)
  BY <1>1, SubSeqFull DEF SealedUpTo
<1>5. ASSUME Refused # {} PROVE FALSE
  <2>1. Refused \in SUBSET Nat
    BY <1>2
  <2>2. PICK i \in Refused : \A j \in Refused : i <= j
    <3> HIDE DEF Refused
    <3>1. QED
      BY <1>5, <2>1, LeastNumber
  <2>3. i \in 0..last /\ ~AllTaken(SealedUpTo(l, i), own)
    BY <2>2
  <2>4. i # 0
    BY <1>3, <2>3
  <2>5. i \in 1..last /\ i - 1 \in 0..last /\ ~(i <= i - 1)
    BY <1>2, <2>3, <2>4
  <2>6. AllTaken(SealedUpTo(l, i - 1), own)
    BY <2>2, <2>5
  <2>7. i \in 1..Len(Seals(l))
    BY <2>5 DEF last
  <2>8. AllTaken(SealedUpTo(l, i), own)
    BY <2>6, <2>7, OneMoreSeal
  <2>9. QED
    BY <2>3, <2>8
<1>6. last \in 0..last
  BY <1>2
<1>7. QED
  BY <1>4, <1>5, <1>6

(* What was open is closed, and the branch that was selected still is. *)
LEMMA SealedLeavesNothing ==
  ASSUME NEW own, NEW l \in Seq(Events(Procs)), Len(l) >= 2, LogIsSound(l, own)
  PROVE  LET s == Sealed(l)
         IN  /\ TurnsOpen(s, Len(s)) = {} /\ OpsOpen(s, Len(s)) = {}
             /\ AnyDeclared(s, Len(s)) /\ SelectedBranch(s) = SelectedBranch(l)
<1> DEFINE s == Sealed(l)
           n == Len(l)
           plan == Seals(l)
           choices(h) == {m \in DOMAIN h : h[m].kind \in {"branch", "selected"}}
<1>1. /\ s \in Seq(Events(Procs)) /\ Len(s) = n + Len(plan)
      /\ \A m \in 1..n : s[m] = l[m]
      /\ \A i \in 1..Len(plan) : s[n + i] = SealEvent(SubSeq(s, 1, n + i - 1), plan[i], l[1].by, n)
  BY SealedIs
<1>2. /\ plan \in Seq(SealRecord) /\ Len(plan) \in Nat /\ n \in Nat /\ n >= 2
      /\ \A i \in 1..Len(plan) : plan[i] \in SealRecord
  <2>1. plan \in Seq(SealRecord)
    BY SealsAre
  <2> HIDE DEF plan
  <2>2. QED
    BY <2>1
<1>3. /\ \A o \in OpsOpen(l, n) : \E i \in 1..Len(plan) : plan[i].kind = "result" /\ plan[i].of = o
      /\ \A t \in TurnsOpen(l, n) : \E i \in 1..Len(plan) : plan[i].kind = "closed" /\ plan[i].of = t
  BY SealsAreAll
<1> HIDE DEF s, plan
<1>4. ASSUME NEW i \in 1..Len(plan)
      PROVE  /\ n + i \in 1..Len(s) /\ ~(n + i \in 1..n)
             /\ s[n + i].kind = plan[i].kind /\ s[n + i].of = plan[i].of
             /\ s[n + i].kind \in SealKinds
  <2>1. s[n + i].kind = plan[i].kind /\ s[n + i].of = plan[i].of
    BY <1>1, SealEventKeeps
  <2>2. n + i \in 1..Len(s) /\ ~(n + i \in 1..n)
    BY <1>1, <1>2
  <2>3. plan[i].kind \in SealKinds
    BY <1>2 DEF SealRecord
  <2>4. QED
    BY <2>1, <2>2, <2>3
<1>5. ASSUME NEW m \in 1..Len(s), s[m].kind \notin SealKinds PROVE m \in 1..n /\ s[m] = l[m]
  <2>1. CASE m <= n
    BY <1>1, <1>2, <2>1
  <2>2. CASE ~(m <= n)
    <3>1. m - n \in 1..Len(plan) /\ n + (m - n) = m
      BY <1>1, <1>2, <2>2
    <3>2. QED
      BY <1>4, <1>5, <3>1
  <2>3. QED
    BY <2>1, <2>2
<1>6. 1..n \subseteq 1..Len(s)
  BY <1>1, <1>2
<1>7. ASSUME NEW t \in TurnsOpen(s, Len(s)) PROVE FALSE
  <2>1. t \in 1..Len(s) /\ s[t].kind = "turn" /\ About(s, Len(s), "closed", t) = {}
    BY DEF TurnsOpen
  <2>2. t \in 1..n /\ l[t].kind = "turn"
    BY <1>5, <2>1 DEF SealKinds
  <2>3. About(l, n, "closed", t) = {}
    BY <1>1, <1>6, <2>1 DEF About
  <2>4. PICK i \in 1..Len(plan) : plan[i].kind = "closed" /\ plan[i].of = t
    BY <1>3, <2>2, <2>3 DEF TurnsOpen
  <2>5. QED
    BY <1>4, <2>1, <2>4 DEF About
<1>8. ASSUME NEW o \in OpsOpen(s, Len(s)) PROVE FALSE
  <2>1. o \in 1..Len(s) /\ s[o].kind = "intent" /\ About(s, Len(s), "result", o) = {}
    BY DEF OpsOpen
  <2>2. o \in 1..n /\ l[o].kind = "intent"
    BY <1>5, <2>1 DEF SealKinds
  <2>3. About(l, n, "result", o) = {}
    BY <1>1, <1>6, <2>1 DEF About
  <2>4. PICK i \in 1..Len(plan) : plan[i].kind = "result" /\ plan[i].of = o
    BY <1>3, <2>2, <2>3 DEF OpsOpen
  <2>5. QED
    BY <1>4, <2>1, <2>4 DEF About
<1>9. 2 \in 1..n /\ 2 \in 1..Len(s) /\ l[2].kind = "branch" /\ s[2] = l[2]
  <2>1. 2 \in 1..n
    BY <1>2
  <2>2. QED
    BY <1>1, <1>6, <2>1 DEF LogIsSound, EventIsSound
<1>10. AnyDeclared(s, Len(s))
  BY <1>9 DEF AnyDeclared, Declares
<1>11. choices(s) = choices(l)
  <2>1. DOMAIN s = 1..Len(s) /\ DOMAIN l = 1..n
    BY <1>1
  <2>2. \A m \in choices(s) : m \in choices(l)
    BY <1>5, <2>1 DEF SealKinds
  <2>3. \A m \in choices(l) : m \in choices(s)
    BY <1>1, <1>6, <2>1
  <2>4. QED
    BY <2>2, <2>3
<1>12. SelectedBranch(s) = SelectedBranch(l)
  <2> DEFINE c == choices(l)
  <2>1. c \in SUBSET (1..n) /\ 2 \in c
    BY <1>9
  <2>2. c \in SUBSET Nat /\ c # {} /\ \A m \in c : m <= n
    BY <1>2, <2>1
  <2>3. SelectedBranch(s) = s[Max(c)].branch /\ SelectedBranch(l) = l[Max(c)].branch
    BY <1>11, <2>2 DEF SelectedBranch
  <2> HIDE DEF c
  <2>4. Max(c) \in 1..n
    BY <1>2, <2>1, <2>2, MaxIsGreatest
  <2>5. QED
    BY <1>1, <2>3, <2>4
<1>13. QED
  BY <1>7, <1>8, <1>10, <1>12 DEF s

(* A history that only lacks its closing events is one restore_conversation    *)
(* takes once it has them.                                                     *)
LEMMA SealedIsRestorable ==
  ASSUME NEW own, NEW l \in Seq(Events(Procs)), LogIsSound(l, own),
         NEW b, b = SelectedBranch(l), Verdict(l, b) = "unrecovered"
  PROVE  Verdict(Sealed(l), b) = "ok"
<1> DEFINE s == Sealed(l)
<1>1. Len(l) >= 2
  BY VerdictIs
<1>2. AllTaken(l, own)
  <2>1. {n \in DOMAIN l : Foreign(l, n) \/ ~Fits(l, n)} = {}
    BY DEF Verdict
  <2>2. DOMAIN l = 1..Len(l)
    OBVIOUS
  <2>3. QED
    BY <2>1, <2>2 DEF AllTaken, Taken
<1>3. s \in Seq(Events(Procs)) /\ DOMAIN s = 1..Len(s)
  <2>1. s \in Seq(Events(Procs))
    <3>1. Len(l) >= 1
      BY <1>1
    <3>2. QED
      BY <3>1, SealedIs
  <2>2. QED
    BY <2>1
<1>4. \A n \in DOMAIN s : ~Foreign(s, n) /\ Fits(s, n)
  BY <1>1, <1>2, <1>3, SealedIsTaken DEF AllTaken, Taken
<1>5. /\ TurnsOpen(s, Len(s)) = {} /\ OpsOpen(s, Len(s)) = {}
      /\ AnyDeclared(s, Len(s)) /\ SelectedBranch(s) = b
  BY <1>1, SealedLeavesNothing
<1> HIDE DEF s
<1>6. Verdict(s, b) = "ok"
  BY <1>4, <1>5 DEF Verdict
<1>7. QED
  BY <1>6 DEF s

-----------------------------------------------------------------------------
(* Theorems. *)

LEMMA InitIsInv ==
  ASSUME Init PROVE IInv
<1>1. /\ catalog = [run |-> NoRun, branch |-> Main] /\ log = [r \in Runs |-> <<>>]
      /\ owners = [r \in Runs |-> {}] /\ proc = [p \in Procs |-> Unopened]
  BY DEF Init
<1>2. /\ \A r \in Runs : log[r] = <<>> /\ log[r] \in Seq(Events(Procs))
      /\ \A p \in Procs : proc[p] = Unopened
  BY <1>1
<1>3. TypeOK
  <2>1. catalog \in [run : {NoRun} \cup Runs, branch : Nat]
    BY <1>1 DEF Main
  <2>2. \A r \in Runs : \A n \in DOMAIN log[r] : log[r][n] \in Events(Procs)
    BY <1>2
  <2>3. owners \in [Runs -> SUBSET Procs] /\ proc \in [Procs -> ProcRecord]
    BY <1>1, UnopenedIs
  <2>4. QED
    BY <2>1, <2>2, <2>3 DEF TypeOK
<1>4. \A r \in Runs : DOMAIN log[r] = {} /\ 1..Len(log[r]) = {}
  BY <1>2
<1>5. LogsAreSound
  <2>1. log \in [Runs -> Seq(Events(Procs))]
    BY <1>1
  <2>2. \A r \in Runs : LogIsSound(log[r], owners[r])
    BY <1>4 DEF LogIsSound, OneChild
  <2>3. QED
    BY <2>1, <2>2 DEF LogsAreSound
<1>6. \A p \in Procs : proc[p].at \notin Opening \cup Open
  BY <1>2 DEF Unopened, Opening, Open
<1>7. ProcsAreSound
  BY <1>6 DEF ProcsAreSound
<1>8. BranchesAreApart
  BY <1>6 DEF BranchesAreApart, Writing, Opening
<1>9. SealsOnlyTheDead /\ EffectsAreNotDenied /\ BranchHasOneWriter
  BY <1>4 DEF SealsOnlyTheDead, EffectsAreNotDenied, BranchHasOneWriter
<1>10. QED
  BY <1>3, <1>5, <1>7, <1>8, <1>9 DEF IInv

LEMMA NextKeeps ==
  ASSUME IInv, [Next]_vars PROVE IInv'
<1>1. ASSUME NEW p \in Procs, OpenSteps(p) PROVE IInv'
  <2>1. CASE StartFresh(p)
    BY <2>1, StartFreshKeeps
  <2>2. CASE OpenBound(p)
    BY <2>2, OpenBoundKeeps
  <2>3. CASE Read(p)
    BY <2>3, ReadKeeps
  <2>4. CASE Rebind(p)
    BY <2>4, RebindKeeps
  <2>5. CASE Restore(p)
    BY <2>5, RestoreKeeps
  <2>6. CASE AskOwners(p)
    BY <2>6, AskOwnersKeeps
  <2>7. CASE Plan(p)
    BY <2>7, PlanKeeps
  <2>8. CASE SealNext(p)
    BY <2>8, SealNextKeeps
  <2>9. CASE LoseRace(p)
    BY <2>9, LoseRaceKeeps
  <2>10. CASE EndSealing(p)
    BY <2>10, EndSealingKeeps
  <2>11. CASE Recheck(p)
    BY <2>11, RecheckKeeps
  <2>12. CASE Decline(p)
    BY <2>12, DeclineKeeps
  <2>13. CASE Fork(p)
    BY <2>13, ForkKeeps
  <2>14. CASE Select(p)
    BY <2>14, SelectKeeps
  <2>15. CASE Publish(p)
    BY <2>15, PublishKeeps
  <2>16. CASE RegisterOwner(p)
    BY <2>16, RegisterOwnerKeeps
  <2>17. QED
    BY <1>1, <2>1, <2>2, <2>3, <2>4, <2>5, <2>6, <2>7, <2>8, <2>9, <2>10, <2>11, <2>12,
       <2>13, <2>14, <2>15, <2>16 DEF OpenSteps
<1>2. ASSUME NEW p \in Procs, TurnSteps(p) PROVE IInv'
  <2>1. CASE CreateRun(p)
    BY <2>1, CreateRunKeeps
  <2>2. CASE DeclareBranch(p)
    BY <2>2, DeclareBranchKeeps
  <2>3. CASE BeginTurn(p)
    BY <2>3, BeginTurnKeeps
  <2>4. CASE IntendTool(p)
    BY <2>4, IntendToolKeeps
  <2>5. CASE StartTool(p)
    BY <2>5, StartToolKeeps
  <2>6. CASE CompleteTool(p)
    BY <2>6, CompleteToolKeeps
  <2>7. CASE InterruptTool(p)
    BY <2>7, InterruptToolKeeps
  <2>8. CASE CloseTurn(p)
    BY <2>8, CloseTurnKeeps
  <2>9. CASE Delegate(p)
    BY <2>9, DelegateKeeps
  <2>10. QED
    BY <1>2, <2>1, <2>2, <2>3, <2>4, <2>5, <2>6, <2>7, <2>8, <2>9 DEF TurnSteps
<1>3. CASE UNCHANGED vars
  <2>1. catalog' = catalog /\ log' = log /\ owners' = owners /\ proc' = proc
    BY <1>3 DEF vars
  <2>2. Dead' = Dead
    BY <2>1 DEF Dead, Alive
  <2>3. /\ TypeOK /\ LogsAreSound /\ ProcsAreSound /\ BranchesAreApart
        /\ SealsOnlyTheDead /\ EffectsAreNotDenied /\ BranchHasOneWriter
    BY DEF IInv
  <2>4. TypeOK' /\ LogsAreSound'
    BY <2>1, <2>3 DEF TypeOK, LogsAreSound
  <2>5. ProcsAreSound' /\ BranchesAreApart'
    BY <2>1, <2>2, <2>3 DEF ProcsAreSound, BranchesAreApart
  <2>6. SealsOnlyTheDead'
    BY <2>1, <2>3 DEF SealsOnlyTheDead, Alive
  <2>7. EffectsAreNotDenied' /\ BranchHasOneWriter'
    BY <2>1, <2>3 DEF EffectsAreNotDenied, BranchHasOneWriter
  <2>8. QED
    BY <2>4, <2>5, <2>6, <2>7 DEF IInv
<1>4. QED
  BY <1>1, <1>2, <1>3, ExitKeeps DEF Next

(* Logs and processes stay sound, each on its own and together, whatever        *)
(* processes open, recover and write the runs, and wherever each one stops.    *)
THEOREM Invariant == Spec => []IInv
<1>1. Init => IInv
  BY InitIsInv
<1>2. IInv /\ [Next]_vars => IInv'
  BY NextKeeps
<1>3. QED
  BY <1>1, <1>2, PTL DEF Spec

(* The catalog, the logs, the owners and the processes have the shape the store *)
(* gives them.                                                                 *)
THEOREM TypeCorrect == Spec => []TypeOK
<1>1. IInv => TypeOK
  BY DEF IInv
<1>2. QED
  BY <1>1, Invariant, PTL

(* Every history stays one that restore_conversation reads: closing events are *)
(* appended guarded by the sequence their plan was made for, and each process  *)
(* writes on from the tip of a branch of its own.                              *)
THEOREM StaysReadable == Spec => []HistoryStaysReadable
<1>1. IInv => HistoryStaysReadable
  <2>1. SUFFICES ASSUME IInv, NEW r \in Runs
                 PROVE  SealedUnseen(log[r]) \/ \A n \in DOMAIN log[r] : Readable(log[r], n)
    BY DEF HistoryStaysReadable, Readable
  <2>2. log[r] \in Seq(Events(Procs)) /\ LogIsSound(log[r], owners[r])
    <3>1. LogsAreSound
      BY <2>1 DEF IInv
    <3>2. QED
      BY <2>1, <3>1 DEF LogsAreSound
  <2>3. DOMAIN log[r] = 1..Len(log[r])
    BY <2>2
  <2>4. QED
    BY <2>2, <2>3 DEF LogIsSound
<1>2. QED
  BY <1>1, Invariant, PTL

(* recover_run_with_no_live_owner closes a turn it could see only if who began *)
(* it is dead.                                                                 *)
THEOREM OnlyTheDeadAreSealed == Spec => []SealsOnlyTheDead
<1>1. IInv => SealsOnlyTheDead
  BY DEF IInv
<1>2. QED
  BY <1>1, Invariant, PTL

(* apply_recovery never writes that a tool had no effect when the log says that *)
(* it started.                                                                 *)
THEOREM EffectsStand == Spec => []EffectsAreNotDenied
<1>1. IInv => EffectsAreNotDenied
  BY DEF IInv
<1>2. QED
  BY <1>1, Invariant, PTL

(* fork_branch_at gives each process that resumes a conversation a branch that *)
(* nobody else writes to.                                                      *)
THEOREM OneWriterPerBranch == Spec => []BranchHasOneWriter
<1>1. IInv => BranchHasOneWriter
  BY DEF IInv
<1>2. QED
  BY <1>1, Invariant, PTL

(* apply_recovery finishes what any crash left: the closing events it plans    *)
(* make a history that restore_conversation takes.                             *)
THEOREM CrashesAreRecoverable == Spec => []CrashIsRecoverable
<1>1. IInv => CrashIsRecoverable
  <2>1. SUFFICES ASSUME IInv, NEW r \in Runs,
                        Verdict(log[r], SelectedBranch(log[r])) = "unrecovered"
                 PROVE  Verdict(Sealed(log[r]), SelectedBranch(log[r])) = "ok"
    BY DEF CrashIsRecoverable
  <2>2. log[r] \in Seq(Events(Procs)) /\ LogIsSound(log[r], owners[r])
    <3>1. LogsAreSound
      BY <2>1 DEF IInv
    <3>2. QED
      BY <3>1 DEF LogsAreSound
  <2>3. QED
    BY <2>1, <2>2, SealedIsRestorable
<1>2. QED
  BY <1>1, Invariant, PTL
=============================================================================
