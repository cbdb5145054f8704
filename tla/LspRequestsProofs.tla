--------------------------- MODULE LspRequestsProofs ---------------------------
(***************************************************************************)
(* What the editor takes the servers of LspDocumentSync to have, they have:    *)
(* for any group of servers, any texts and any budget.                        *)
(*                                                                          *)
(* DocumentSyncState says what was delivered (flushed), what is queued and     *)
(* under which version (target); the manager says which version it sent last. *)
(* The invariant ties them: what is pending, or on its way, is what was last   *)
(* queued; it is newer than all that was sent; whoever a flush has passed has  *)
(* its text; so when the version that was sent reaches the target everyone     *)
(* has what was queued.  The one exception is a server that joins: between its *)
(* open and the change that follows it has the buffer already.                *)
(***************************************************************************)
EXTENDS LspDocumentSyncProofs

(* The places between an open of the tick and the change that follows it, where *)
(* a server may already have the buffer. *)
Joining == {"opening", "changing", "bumping", "queueing"}

Has(s, text) == server[s].text = text \/ (editor.at \in Joining /\ server[s].text = buffer)
AllHave(text) == \A s \in Servers : server[s].open => Has(s, text)

(* The book-keeping in itself. *)
SyncIsSound(st) ==
    /\ ~st.opened => st.target = NoVersion /\ st.flushed = NoText
    /\ st.target = NoVersion <=> st.queued = NoText
    /\ st.opened /\ ~st.modified /\ Loaded => st.flushed = buffer /\ st.target = NoVersion
    /\ st.opened /\ st.flushed = NoText => st.force \/ st.target # NoVersion
    /\ st.target \in Nat => st.target = 0 \/ st.target >= 2

(* What it takes for delivered, was. *)
SyncIsTrue(st) ==
    doc.version # 0 /\ editor.at # "noting" =>
        /\ st.target # NoVersion /\ doc.sent >= st.target => AllHave(st.queued)
        /\ st.target = NoVersion /\ st.flushed # NoText => AllHave(st.flushed)

(* did_open_sent and the manager's version, along the way of an open; what an *)
(* open of the tick returns to is the change.                                  *)
OpenedIsKnown ==
    /\ ~sync.opened => doc.version = 0 \/ (editor.at = "opening" /\ editor.first)
    /\ ~Loaded /\ editor.at = "idle" => ~sync.opened
    /\ editor.at \in {"claiming", "opening"} => (editor.first <=> ~sync.opened)
    /\ editor.at \in {"claiming", "opening"} /\ ~editor.first => editor.next = "changing"
    /\ editor.at = "claiming" /\ editor.first => doc.version = 0
    /\ editor.at = "opening" /\ editor.first => editor.claimed
    /\ editor.at \in {"bumping", "queueing", "noting"} => sync.opened
    /\ editor.next = "changing" =>
         /\ editor.at \in {"ensuring", "claiming", "opening", "changing"}
         /\ editor.at = "ensuring" => ~sync.opened

(* A change that was noted while the document was forgotten has no version. *)
TargetIsReal ==
    sync.target = 0 =>
        /\ doc.version = 0
        /\ editor.at \notin {"joining", "claiming", "opening", "changing"}

(* Nothing was sent before the claim: who has the document then has the buffer. *)
FirstClaim ==
    /\ server[Primary].at # "absent"
    /\ editor.at = "opening" /\ editor.claimed =>
         /\ NothingUnderWay /\ doc.sent = 0
         /\ \A s \in editor.todo : base[s] = Unopened
         /\ editor.tried \/ Primary \in editor.todo
         /\ \A s \in Servers : server[s].open => server[s].text = buffer
         /\ editor.version = 1
    /\ doc.version # 0 /\ doc.sent = 0 => editor.at = "opening" /\ editor.claimed

(* What was sent, what is on its way, what is pending, and what is being queued, *)
(* in the order of their versions.                                              *)
StrictlyNewer ==
    /\ doc.pending # NoChange => doc.sent < doc.pending.version
    /\ \A f \in Flushers : Sending(f) =>
         /\ doc.sent < flush[f].change.version
         /\ doc.pending # NoChange => flush[f].change.version < doc.pending.version
    /\ editor.at = "queueing" =>
         /\ editor.version >= 2 /\ doc.sent < editor.version
         /\ doc.pending # NoChange => doc.pending.version < editor.version
         /\ \A f \in Flushers : Sending(f) => flush[f].change.version < editor.version
    /\ editor.at = "noting" => doc.version = 0 \/ (doc.version >= 2 /\ doc.version = editor.version)

(* What is on its way is what was last queued ... *)
UnderWayIs(version, text) ==
    /\ doc.pending # NoChange => doc.pending.version = version /\ doc.pending.text = text
    /\ doc.pending = NoChange => \A f \in Flushers : Sending(f) =>
         flush[f].change.version = version /\ flush[f].change.text = text

QueuedIsNoted ==
    doc.version # 0 =>
        /\ editor.at # "noting" => UnderWayIs(sync.target, sync.queued)
        /\ editor.at = "noting" =>
             /\ UnderWayIs(doc.version, buffer)
             /\ doc.sent >= doc.version => AllHave(buffer)

(* ... and who is passed has it. *)
FlushProgress ==
    \A f \in Flushers : Sending(f) /\ ~flush[f].retry /\ doc.pending = NoChange =>
        \A s \in Servers \ flush[f].todo :
            server[s].open => Has(s, flush[f].change.text)

Bookkeeping ==
    /\ SyncIsSound(sync) /\ SyncIsTrue(sync) /\ OpenedIsKnown /\ TargetIsReal /\ FirstClaim
    /\ StrictlyNewer /\ QueuedIsNoted /\ FlushProgress

BInv == mishaps = {} => Bookkeeping

-----------------------------------------------------------------------------
(* The book-keeping's operators. *)

LEMMA SyncTypes ==
  ASSUME NEW st \in SyncState
  PROVE  /\ st.opened \in BOOLEAN /\ st.modified \in BOOLEAN /\ st.force \in BOOLEAN
         /\ st.flushed \in Texts \cup {NoText} /\ st.queued \in Texts \cup {NoText}
         /\ st.target \in Nat \cup {NoVersion}
         /\ NoVersion \notin Nat /\ NoText \notin Texts
  BY Markers DEF SyncState, NoVersion

LEMMA MoreTypes ==
  ASSUME IInv
  PROVE  /\ sync \in SyncState /\ buffer \in Texts \cup {NoText} /\ NoText \notin Texts
         /\ \A f \in Flushers : flush[f].sending => flush[f].change.text \in Texts
         /\ doc.pending # NoChange => doc.pending.text \in Texts /\ doc.pending.version \in Nat
         /\ Primary \in Servers
  BY Types, Markers, SyncAssumption DEF IInv, TypeOK, Change

LEMMA MarkFlushedIs ==
  ASSUME NEW st \in SyncState, NEW text, NEW version
  PROVE  LET r == MarkFlushed(st, text, version)
             caughtUp == st.target # NoVersion /\ st.target <= version
         IN  /\ r.flushed = text
             /\ r.target = IF caughtUp THEN NoVersion ELSE st.target
             /\ r.queued = IF caughtUp /\ st.queued = text THEN NoText ELSE st.queued
             /\ r.modified = (Loaded /\ (buffer # text \/ r.target # NoVersion))
             /\ r.opened = st.opened /\ r.force = st.force /\ r.later = st.later
<1> DEFINE caughtUp == st.target # NoVersion /\ st.target <= version
           target == IF caughtUp THEN NoVersion ELSE st.target
           queued == IF caughtUp /\ st.queued = text THEN NoText ELSE st.queued
           modified == Loaded /\ (buffer # text \/ target # NoVersion)
<1>1. MarkFlushed(st, text, version) =
         [st EXCEPT !.flushed = text, !.target = target, !.queued = queued, !.modified = modified]
  BY DEF MarkFlushed
<1> HIDE DEF modified, queued
<1>2. /\ MarkFlushed(st, text, version).flushed = text
      /\ MarkFlushed(st, text, version).target = target
      /\ MarkFlushed(st, text, version).queued = queued
      /\ MarkFlushed(st, text, version).modified = modified
      /\ MarkFlushed(st, text, version).opened = st.opened
      /\ MarkFlushed(st, text, version).force = st.force
      /\ MarkFlushed(st, text, version).later = st.later
  BY <1>1 DEF SyncState
<1>3. QED
  BY <1>2 DEF modified, queued

LEMMA MarkFlushedClears ==
  ASSUME NEW st \in SyncState, NEW text, NEW version \in Nat,
         st.target \in Nat, st.target <= version
  PROVE  /\ MarkFlushed(st, text, version).flushed = text
         /\ MarkFlushed(st, text, version).target = NoVersion
         /\ MarkFlushed(st, text, version).opened = st.opened
         /\ MarkFlushed(st, text, version).force = st.force
<1>1. st.target # NoVersion
  BY SyncTypes
<1>2. QED
  BY <1>1, MarkFlushedIs

LEMMA MarkFlushedLeaves ==
  ASSUME NEW st \in SyncState, NEW text, NEW version \in Nat,
         st.target = NoVersion \/ (st.target \in Nat /\ version < st.target)
  PROVE  /\ MarkFlushed(st, text, version).flushed = text
         /\ MarkFlushed(st, text, version).target = st.target
         /\ MarkFlushed(st, text, version).queued = st.queued
         /\ MarkFlushed(st, text, version).opened = st.opened
         /\ MarkFlushed(st, text, version).force = st.force
<1>1. CASE st.target = NoVersion
  BY <1>1, MarkFlushedIs
<1>2. CASE st.target \in Nat /\ version < st.target
  <2>1. ~(st.target <= version)
    BY <1>2
  <2>2. QED
    BY <2>1, MarkFlushedIs
<1>3. QED
  BY <1>1, <1>2

(* To mark as flushed what the servers have is sound, if it is what was queued. *)
LEMMA MarkIsSound ==
  ASSUME NEW st \in SyncState, SyncIsSound(st), NEW text \in Texts, NEW version \in Nat,
         st.opened,
         st.target # NoVersion /\ st.target <= version => text = st.queued
  PROVE  SyncIsSound(MarkFlushed(st, text, version))
  BY MarkFlushedIs, SyncTypes DEF SyncIsSound

(* What reconcile_document_sync_with_manager makes of a document that was opened. *)
LEMMA ReconciledIs ==
  ASSUME NEW st \in SyncState, st.opened, doc.version # 0, doc.sent \in Nat, doc.sent # 0,
         NEW text, text = IF st.queued # NoText THEN st.queued ELSE buffer
  PROVE  /\ st.target = NoVersion /\ (st.flushed # NoText \/ st.force) => Reconciled(st) = st
         /\ st.target # NoVersion /\ doc.sent < st.target =>
               Reconciled(st) \in {st, MarkFlushed(st, text, doc.sent)}
         /\ st.target # NoVersion /\ doc.sent >= st.target =>
               Reconciled(st) = MarkFlushed(st, text, doc.sent)
<1> DEFINE newest(x) == IF x.queued # NoText THEN x.queued ELSE buffer
           noticed == IF doc.sent > 0 THEN [st EXCEPT !.opened = TRUE] ELSE st
           seeded == IF doc.sent > 0 /\ noticed.flushed = NoText /\ ~noticed.force
                     THEN MarkFlushed(noticed, newest(noticed), doc.sent) ELSE noticed
           marked == MarkFlushed(st, text, doc.sent)
<1>1. noticed = st
  BY DEF SyncState
<1>2. newest(noticed) = text
  BY <1>1
<1>3. Reconciled(st) = IF seeded.target # NoVersion /\ doc.sent >= seeded.target
                       THEN MarkFlushed(seeded, newest(seeded), doc.sent) ELSE seeded
  BY DEF Reconciled
<1> HIDE DEF noticed, newest
<1>4. /\ seeded \in {st, marked}
      /\ st.flushed # NoText \/ st.force => seeded = st
  BY <1>1, <1>2
<1>5. newest(st) = text
  BY <1>1, <1>2
<1>6. marked = MarkFlushed(st, text, doc.sent) /\ NoVersion \notin Nat
      /\ (st.target # NoVersion => st.target \in Nat)
  BY SyncTypes
<1> HIDE DEF marked, seeded
<1>7. CASE st.target = NoVersion /\ (st.flushed # NoText \/ st.force)
  BY <1>3, <1>4, <1>6, <1>7
<1>8. CASE st.target # NoVersion /\ doc.sent < st.target
  <2>1. st.target \in Nat
    BY <1>6, <1>8
  <2>2. marked.target = st.target
    BY <1>6, <1>8, <2>1, MarkFlushedLeaves
  <2>3. seeded.target = st.target
    BY <1>4, <2>2
  <2>4. ~(doc.sent >= seeded.target)
    BY <1>8, <2>1, <2>3
  <2>5. QED
    BY <1>3, <1>4, <1>6, <1>8, <2>1, <2>4
<1>9. CASE st.target # NoVersion /\ doc.sent >= st.target
  <2>1. st.target \in Nat /\ st.target <= doc.sent /\ ~(doc.sent < st.target)
    BY <1>6, <1>9
  <2>2. marked.target = NoVersion
    BY <1>6, <2>1, MarkFlushedClears
  <2>3. CASE seeded = st
    BY <1>3, <1>5, <1>6, <1>9, <2>1, <2>3
  <2>4. CASE seeded = marked
    <3>1. Reconciled(st) = marked
      BY <1>3, <2>2, <2>4
    <3>2. QED
      BY <1>6, <1>9, <2>1, <3>1
  <2>5. QED
    BY <1>4, <2>3, <2>4
<1>10. QED
  <2>1. st.target # NoVersion => doc.sent < st.target \/ doc.sent >= st.target
    BY <1>6
  <2>2. QED
    BY <1>7, <1>8, <1>9, <2>1

(* It believes only what is so. *)
Believes(st) ==
    /\ st \in SyncState /\ SyncIsSound(st) /\ SyncIsTrue(st)
    /\ doc.version # 0 => st.opened
    /\ sync.opened <=> st.opened
    /\ doc.version = 0 => st = sync
    /\ st.target # sync.target =>
         /\ doc.version # 0 /\ st.target = NoVersion
         /\ sync.target # NoVersion /\ doc.sent >= sync.target
    /\ st.target = sync.target => st.queued = sync.queued
    /\ doc.version # 0 /\ st.target # NoVersion => doc.sent < st.target
    /\ st.force = sync.force

LEMMA ReconciledIsSound ==
  ASSUME IInv, Protocol, Bookkeeping, editor.at \in {"ensuring", "changing", "refreshing"}
  PROVE  Believes(Reconciled(sync))
<1>1. CASE doc.version = 0
  <2>1. Reconciled(sync) = sync
    BY <1>1 DEF Reconciled
  <2>2. QED
    BY <1>1, <2>1, MoreTypes DEF Bookkeeping, Believes
<1>2. CASE doc.version # 0
  <2> DEFINE text == IF sync.queued # NoText THEN sync.queued ELSE buffer
             marked == MarkFlushed(sync, text, doc.sent)
  <2>1. sync \in SyncState /\ doc.sent \in Nat /\ doc.sent # 0 /\ Loaded /\ buffer \in Texts
    BY <1>2, MoreTypes, Types DEF Bookkeeping, FirstClaim, IInv, EditorHasBuffer, Loaded
  <2>0. sync.opened
    BY <1>2 DEF Bookkeeping, OpenedIsKnown
  <2>2. /\ sync.target = NoVersion /\ (sync.flushed # NoText \/ sync.force) => Reconciled(sync) = sync
        /\ sync.target # NoVersion /\ doc.sent < sync.target => Reconciled(sync) \in {sync, marked}
        /\ sync.target # NoVersion /\ doc.sent >= sync.target => Reconciled(sync) = marked
    BY <1>2, <2>0, <2>1, ReconciledIs
  <2>3. /\ SyncIsSound(sync) /\ SyncIsTrue(sync)
        /\ sync.target # NoVersion => text = sync.queued /\ sync.queued \in Texts
        /\ sync.target = NoVersion => sync.flushed # NoText \/ sync.force
        /\ sync.target # NoVersion => sync.target \in Nat
    BY <2>0, <2>1, SyncTypes DEF Bookkeeping, SyncIsSound
  <2>4. CASE sync.target = NoVersion
    BY <1>2, <2>0, <2>1, <2>2, <2>3, <2>4 DEF Believes
  <2> HIDE DEF text
  <2>5. sync.target # NoVersion => marked \in SyncState /\ SyncIsSound(marked)
    BY <2>1, <2>3, <2>0, MarkFlushedType, MarkIsSound
  <2>6. CASE sync.target # NoVersion /\ doc.sent < sync.target
    <3>1. sync.target \in Nat /\ doc.sent < sync.target
      BY <2>1, <2>3, <2>6
    <3>2. /\ marked.target = sync.target /\ marked.queued = sync.queued
          /\ marked.opened = sync.opened /\ marked.force = sync.force
      BY <2>1, <3>1, MarkFlushedLeaves
    <3> HIDE DEF marked
    <3>3. SyncIsTrue(marked)
      BY <2>1, <2>3, <2>6, <3>2 DEF SyncIsTrue
    <3>4. QED
      BY <1>2, <2>0, <2>1, <2>2, <2>3, <2>5, <2>6, <3>2, <3>3 DEF Believes
  <2>7. CASE sync.target # NoVersion /\ doc.sent >= sync.target
    <3>1. sync.target \in Nat /\ sync.target <= doc.sent /\ text = sync.queued
      BY <2>1, <2>3, <2>7
    <3>2. /\ marked.flushed = sync.queued /\ marked.target = NoVersion
          /\ marked.opened = sync.opened /\ marked.force = sync.force
      BY <2>1, <2>3, <2>7, <3>1, MarkFlushedClears
    <3> HIDE DEF marked
    <3>3. SyncIsTrue(marked)
      BY <1>2, <2>3, <2>7, <3>2 DEF SyncIsTrue
    <3>4. QED
      BY <1>2, <2>0, <2>1, <2>2, <2>3, <2>5, <2>7, <3>2, <3>3 DEF Believes
  <2>8. QED
    BY <2>1, <2>3, <2>4, <2>6, <2>7
<1>3. QED
  BY <1>1, <1>2

-----------------------------------------------------------------------------
(* Every step keeps the books, until a mishap. *)

LEMMA UserBooks ==
  ASSUME IInv, Bookkeeping, User \/ Tick
  PROVE  Bookkeeping'
<1>1. /\ editor.at = "idle" /\ UNCHANGED <<doc, base, flush, server>>
      /\ sync \in SyncState
  BY MoreTypes DEF User, Edit, Reload, Unload, Load, Request, Tick, At
<1>0. sync.target # 0 \/ sync.opened
  BY <1>1, SyncTypes DEF Bookkeeping, SyncIsSound
<1>2. editor'.at \in {"idle", "flushing", "ensuring", "joining"}
      /\ editor'.next # "changing" /\ editor.next # "changing"
  <2>1. editor.next # "changing" /\ editor \in EditorState
    BY <1>1, Types DEF Bookkeeping, OpenedIsKnown
  <2>2. \/ editor' = editor \/ editor' = [editor EXCEPT !.at = "joining"]
        \/ editor' = [Idle EXCEPT !.at = "flushing", !.next = "closing"]
        \/ editor' = [Idle EXCEPT !.at = "ensuring"]
    BY DEF User, Edit, Reload, Unload, Load, Request, Tick, Goes
  <2>3. QED
    BY <1>1, <2>1, <2>2 DEF Idle, EditorState
<1>3. \A text : AllHave(text) => AllHave(text)'
  BY <1>1, <1>2 DEF AllHave, Has, Joining
<1>4. \A s \in Servers : \A text : Has(s, text) => Has(s, text)'
  BY <1>1, <1>2 DEF Has, Joining
<1>5. FirstClaim' /\ StrictlyNewer' /\ FlushProgress'
  BY <1>1, <1>2, <1>4 DEF Bookkeeping, FirstClaim, StrictlyNewer, FlushProgress, Sending, NothingUnderWay
<1>6. CASE Edit \/ Reload
  <2>1. /\ sync'.modified /\ (sync'.opened <=> sync.opened)
        /\ sync'.flushed # sync.flushed => sync'.flushed = NoText /\ sync'.force
        /\ sync.force => sync'.force
    BY <1>1, <1>6 DEF Edit, Reload, SyncState
  <2>2. sync'.target = sync.target /\ sync'.queued = sync.queued
    BY <1>1, <1>6 DEF Edit, Reload, SyncState
  <2>3. Loaded' /\ editor' = editor
    BY <1>6, Markers DEF Edit, Reload, Loaded
  <2>4. SyncIsSound(sync)'
    BY <2>1, <2>2, <2>3 DEF Bookkeeping, SyncIsSound
  <2>5. SyncIsTrue(sync)' /\ QueuedIsNoted' /\ TargetIsReal'
    BY <1>1, <1>3, <2>1, <2>2, <2>3 DEF Bookkeeping, SyncIsTrue, QueuedIsNoted, UnderWayIs, TargetIsReal, Sending
  <2>6. OpenedIsKnown'
    BY <1>1, <1>2, <2>1, <2>3 DEF Bookkeeping, OpenedIsKnown
  <2>7. QED
    BY <1>5, <2>4, <2>5, <2>6 DEF Bookkeeping
<1>7. CASE Unload \/ Load \/ Request
  <2>1. sync' = sync /\ (Load => ~sync.opened /\ Loaded') /\ (Unload => ~Loaded')
    BY <1>1, <1>7, Markers DEF Unload, Load, Request, Bookkeeping, OpenedIsKnown, Loaded
  <2>2. SyncIsSound(sync)'
    BY <1>7, <2>1 DEF Bookkeeping, SyncIsSound, Request, Loaded
  <2>3. SyncIsTrue(sync)' /\ QueuedIsNoted' /\ TargetIsReal'
    <3>1. editor'.at # "joining"
      BY <1>1, <1>7 DEF Unload, Load, Request, Idle
    <3>2. QED
      BY <1>1, <1>2, <1>3, <2>1, <3>1 DEF Bookkeeping, SyncIsTrue, QueuedIsNoted, UnderWayIs, TargetIsReal, Sending
  <2>4. OpenedIsKnown'
    <3>1. editor'.at = "idle" => Load
      BY <1>7 DEF Unload, Request, Idle
    <3>2. QED
      BY <1>1, <1>2, <2>1, <3>1 DEF Bookkeeping, OpenedIsKnown
  <2>5. QED
    BY <1>5, <2>2, <2>3, <2>4 DEF Bookkeeping
<1>8. CASE Tick
  <2>1. /\ Loaded /\ editor'.at = "joining" /\ buffer' = buffer
        /\ sync' = IF sync.opened /\ doc.version = 0 THEN NewSync ELSE sync
    BY <1>1, <1>8, Types DEF Tick, Goes, EditorState
  <2>2. CASE sync.opened /\ doc.version = 0
    BY <1>0, <1>1, <1>2, <1>5, <2>1, <2>2 DEF Bookkeeping, SyncIsSound, SyncIsTrue, QueuedIsNoted, TargetIsReal,
       OpenedIsKnown, NewSync, NoVersion
  <2>3. CASE ~(sync.opened /\ doc.version = 0)
    BY <1>0, <1>1, <1>2, <1>3, <1>5, <2>1, <2>3 DEF Bookkeeping, SyncIsSound, SyncIsTrue, QueuedIsNoted, UnderWayIs,
       TargetIsReal, OpenedIsKnown, Sending, Loaded
  <2>4. QED
    BY <2>2, <2>3
<1>9. QED
  BY <1>6, <1>7, <1>8 DEF User
(* A step of the task that leaves the maps alone, and believes what is so. *)
LEMMA WalkBooks ==
  ASSUME IInv, Bookkeeping, UNCHANGED <<buffer, doc, base, flush, server>>,
         editor.at \notin {"opening", "noting"}, editor'.at \notin {"opening", "queueing", "noting"},
         editor.at \in Joining => editor'.at \in Joining,
         SyncIsSound(sync'), SyncIsTrue(sync'),
         doc.version # 0 => UnderWayIs(sync'.target, sync'.queued),
         OpenedIsKnown', TargetIsReal'
  PROVE  Bookkeeping'
<1>1. \A text : AllHave(text) => AllHave(text)'
  BY DEF AllHave, Has
<1>2. \A s \in Servers : \A text : Has(s, text) => Has(s, text)'
  BY DEF Has
<1>3. FirstClaim' /\ StrictlyNewer' /\ FlushProgress'
  BY <1>2 DEF Bookkeeping, FirstClaim, StrictlyNewer, FlushProgress, Sending, NothingUnderWay
<1>4. SyncIsSound(sync)'
  BY DEF SyncIsSound, Loaded
<1>5. SyncIsTrue(sync)'
  BY <1>1 DEF SyncIsTrue
<1>6. QueuedIsNoted'
  BY DEF QueuedIsNoted, UnderWayIs, Sending
<1>7. QED
  BY <1>3, <1>4, <1>5, <1>6 DEF Bookkeeping

(* What is under way was queued after all that was delivered. *)
LEMMA BelievedUnderWay ==
  ASSUME IInv, Bookkeeping, NEW st, Believes(st), doc.version # 0, editor.at # "noting"
  PROVE  UnderWayIs(st.target, st.queued)
<1>1. UnderWayIs(sync.target, sync.queued)
  BY DEF Bookkeeping, QueuedIsNoted
<1>2. CASE st.target = sync.target
  BY <1>1, <1>2 DEF Believes
<1>3. CASE st.target # sync.target
  <2>1. sync.target \in Nat /\ doc.sent >= sync.target /\ doc.sent \in Nat
    BY <1>3, MoreTypes, SyncTypes, Types DEF Believes
  <2>2. doc.pending = NoChange
    <3>1. SUFFICES ASSUME doc.pending # NoChange PROVE FALSE
      OBVIOUS
    <3>2. doc.pending.version = sync.target /\ doc.sent < doc.pending.version
      BY <1>1, <3>1 DEF UnderWayIs, Bookkeeping, StrictlyNewer
    <3>3. QED
      BY <2>1, <3>2
  <2>3. \A f \in Flushers : ~Sending(f)
    <3>1. SUFFICES ASSUME NEW f \in Flushers, Sending(f) PROVE FALSE
      OBVIOUS
    <3>2. flush[f].change.version = sync.target /\ doc.sent < flush[f].change.version
      BY <1>1, <2>2, <3>1 DEF UnderWayIs, Bookkeeping, StrictlyNewer
    <3>3. QED
      BY <2>1, <3>2
  <2>4. QED
    BY <2>2, <2>3 DEF UnderWayIs
<1>4. QED
  BY <1>2, <1>3

LEMMA RetryBooks ==
  ASSUME IInv, Bookkeeping, RetryTimeComes
  PROVE  Bookkeeping'
<1>1. UNCHANGED <<buffer, editor, doc, base, flush, server>>
  BY DEF RetryTimeComes
<1>2. sync'.target = sync.target /\ sync'.queued = sync.queued /\ sync'.flushed = sync.flushed
  BY MoreTypes DEF RetryTimeComes, SyncState
<1>3. /\ sync'.opened <=> sync.opened
      /\ sync'.modified <=> sync.modified
      /\ sync'.force <=> sync.force
  BY MoreTypes DEF RetryTimeComes, SyncState
<1>4. SyncIsSound(sync)' /\ OpenedIsKnown'
  BY <1>1, <1>2, <1>3 DEF Bookkeeping, SyncIsSound, OpenedIsKnown, Loaded
<1>5. QED
  BY <1>1, <1>2, <1>4 DEF Bookkeeping, SyncIsTrue, TargetIsReal, FirstClaim, StrictlyNewer, UnderWayIs,
     QueuedIsNoted, FlushProgress, AllHave, Has, Sending, NothingUnderWay

LEMMA MoveBooks ==
  ASSUME IInv, Bookkeeping, Join \/ NothingToFlush
  PROVE  Bookkeeping'
<1>1. /\ UNCHANGED <<buffer, sync, doc, base, flush, server>>
      /\ editor \in EditorState
  BY Types DEF Join, NothingToFlush
<1>2. /\ SyncIsSound(sync) /\ SyncIsTrue(sync)
      /\ editor.at # "noting" => (doc.version # 0 => UnderWayIs(sync.target, sync.queued))
  BY DEF Bookkeeping, QueuedIsNoted
<1>3. CASE Join
  <2>1. /\ editor.at = "joining" /\ editor'.at \in {"changing", "ensuring", "claiming"}
        /\ editor'.at = "ensuring" => ~sync.opened
        /\ editor'.at = "claiming" => sync.opened /\ ~editor'.first
        /\ editor'.next = "changing"
    BY <1>3 DEF Join, At, Idle
  <2>2. OpenedIsKnown' /\ TargetIsReal'
    BY <1>1, <2>1 DEF Bookkeeping, OpenedIsKnown, TargetIsReal
  <2>3. QED
    BY <1>1, <1>2, <2>1, <2>2, WalkBooks DEF Joining
<1>4. CASE NothingToFlush
  <2>1. /\ editor.at = "flushing" /\ editor'.at = editor.next /\ editor'.next = "idle"
        /\ editor.next \in {"idle", "ensuring", "refreshing", "flushing", "closing"}
    BY <1>1, <1>4, ReturnsType DEF NothingToFlush, At, Returns, EditorState, Bookkeeping, OpenedIsKnown
  <2>2. editor.next = "idle" => Loaded
    BY <2>1 DEF IInv, EditorHasBuffer
  <2>3. OpenedIsKnown' /\ TargetIsReal'
    BY <1>1, <2>1, <2>2 DEF Bookkeeping, OpenedIsKnown, TargetIsReal, Loaded
  <2>4. QED
    BY <1>1, <1>2, <2>1, <2>3, WalkBooks DEF Joining
<1>5. QED
  BY <1>3, <1>4

LEMMA RefreshBooks ==
  ASSUME IInv, Bookkeeping, Protocol, Refresh
  PROVE  Bookkeeping'
<1>1. /\ UNCHANGED <<buffer, doc, base, flush, server>> /\ sync' = Reconciled(sync)
      /\ editor.at = "refreshing" /\ editor'.at = "idle" /\ editor'.next = editor.next
  BY Types DEF Refresh, At, Goes, EditorState
<1>2. Believes(sync')
  BY <1>1, ReconciledIsSound
<1>3. doc.version # 0 => UnderWayIs(sync'.target, sync'.queued)
  BY <1>1, <1>2, BelievedUnderWay
<1>4. Loaded
  BY <1>1 DEF IInv, EditorHasBuffer
<1>5. OpenedIsKnown'
  BY <1>1, <1>2, <1>4 DEF Bookkeeping, OpenedIsKnown, Loaded, Believes
<1>6. TargetIsReal'
  BY <1>1, <1>2 DEF Bookkeeping, TargetIsReal, Believes, NoVersion
<1>7. QED
  BY <1>1, <1>2, <1>3, <1>5, <1>6, WalkBooks DEF Believes, Joining

LEMMA EnsureBooks ==
  ASSUME IInv, Bookkeeping, Protocol, Ensure
  PROVE  Bookkeeping'
<1>1. /\ UNCHANGED <<buffer, doc, base, flush, server>> /\ sync' = Reconciled(sync)
      /\ editor.at = "ensuring" /\ editor \in EditorState
  BY Types DEF Ensure, At
<1>2. Believes(sync')
  BY <1>1, ReconciledIsSound
<1>3. doc.version # 0 => UnderWayIs(sync'.target, sync'.queued)
  BY <1>1, <1>2, BelievedUnderWay
<1>4. Loaded /\ editor.next # "closing"
  BY <1>1 DEF IInv, EditorHasBuffer
<1>5. \/ ~sync'.opened /\ editor' = [editor EXCEPT !.at = "claiming", !.first = TRUE]
      \/ sync'.opened /\ editor' = [editor EXCEPT !.at = "flushing"]
      \/ sync'.opened /\ editor' = [editor EXCEPT !.at = "bumping"]
      \/ /\ sync'.opened /\ ~sync'.modified
         /\ editor' = [Idle EXCEPT !.at = editor.next]
  BY DEF Ensure, PlanOf
<1>6. editor.next = "changing" => ~sync.opened
  BY <1>1 DEF Bookkeeping, OpenedIsKnown
<1>7. \/ ~sync'.opened /\ editor'.at = "claiming" /\ editor'.first /\ editor'.next = editor.next
      \/ sync'.opened /\ editor'.at \in {"flushing", "bumping"} /\ editor'.next = editor.next
      \/ /\ sync'.opened /\ editor'.next = "idle"
         /\ editor'.at \in {"idle", "ensuring", "refreshing", "flushing"}
  <2>1. sync'.opened => editor.next \in {"idle", "ensuring", "refreshing", "flushing"}
    BY <1>1, <1>2, <1>4, <1>6 DEF Believes, EditorState
  <2>2. QED
    BY <1>1, <1>5, <2>1, ReturnsType DEF EditorState
<1>8. OpenedIsKnown'
  BY <1>1, <1>2, <1>4, <1>6, <1>7 DEF Bookkeeping, OpenedIsKnown, Loaded, Believes
<1>9. TargetIsReal'
  <2>1. sync'.target = 0 => sync'.opened /\ doc.version = 0
    BY <1>2 DEF Bookkeeping, TargetIsReal, Believes, SyncIsSound, NoVersion
  <2>2. QED
    BY <1>1, <1>7, <2>1 DEF TargetIsReal
<1>10. QED
  BY <1>1, <1>2, <1>3, <1>7, <1>8, <1>9, WalkBooks DEF Believes, Joining
(* Where a document has no version and yet a change is on its way, nobody has it. *)
LEMMA NobodyOpen ==
  ASSUME IInv, Protocol, doc.version = 0, editor.at \notin ClosedPlaces
  PROVE  \A s \in Servers : ~server[s].open
<1>1. NobodyHasIt
  BY DEF Protocol, UnclaimedIsNew
<1>2. SUFFICES ASSUME NEW s \in Servers PROVE ~server[s].open
  OBVIOUS
<1>3. CASE server[s].at = "up"
  BY <1>1, <1>3 DEF Protocol, RecordedIsOpen, NobodyHasIt
<1>4. CASE server[s].at # "up"
  BY <1>4 DEF IInv, DeadHasNothing
<1>5. QED
  BY <1>3, <1>4

LEMMA StreamBooks ==
  ASSUME IInv, Bookkeeping, Protocol, StreamChanges
  PROVE  Bookkeeping'
<1> DEFINE st == IF NeedsReconcile(sync) THEN Reconciled(sync) ELSE sync
           clean == [st EXCEPT !.modified = FALSE, !.queued = NoText]
<1>1. /\ UNCHANGED <<buffer, doc, base, flush, server>>
      /\ editor.at = "changing" /\ editor \in EditorState
  BY Types DEF StreamChanges, At
<1>2. \/ /\ st.opened /\ sync' = st
         /\ editor' = [Idle EXCEPT !.at = "bumping", !.next = "refreshing"]
      \/ /\ editor' = [Idle EXCEPT !.at = "refreshing"]
         /\ \/ st.opened /\ NothingToSend(st) /\ sync' = clean
            \/ ~st.opened /\ sync' = st
            \/ st.opened /\ ~st.modified /\ sync' = st
            \/ st.opened /\ AlreadyQueued(st) /\ sync' = st
  BY DEF StreamChanges
<1>3. Believes(st)
  <2>1. CASE NeedsReconcile(sync)
    BY <1>1, <2>1, ReconciledIsSound
  <2>2. CASE ~NeedsReconcile(sync)
    <3>1. SyncIsSound(sync) /\ SyncIsTrue(sync) /\ (doc.version # 0 => sync.opened)
      BY <1>1 DEF Bookkeeping, OpenedIsKnown
    <3>2. sync \in SyncState /\ doc.version \in Nat /\ doc.sent \in Nat
          /\ (sync.target # NoVersion => sync.target \in Nat)
      BY MoreTypes, Types, SyncTypes
    <3>3. doc.version # 0 /\ sync.target # NoVersion => doc.sent < sync.target
      BY <2>2, <3>2 DEF NeedsReconcile
    <3>4. QED
      BY <2>2, <3>1, <3>2, <3>3 DEF Believes
  <2>3. QED
    BY <2>1, <2>2
<1> HIDE DEF st
<1>4. doc.version # 0 => UnderWayIs(st.target, st.queued)
  BY <1>1, <1>3, BelievedUnderWay
<1>5. Loaded /\ buffer # NoText
  BY <1>1 DEF IInv, EditorHasBuffer, Loaded
<1>6. CASE editor' = [Idle EXCEPT !.at = "bumping", !.next = "refreshing"]
  <2>1. editor'.at = "bumping" /\ editor'.next = "refreshing" /\ sync' = st /\ st.opened
    BY <1>2, <1>6 DEF Idle
  <2>2. OpenedIsKnown'
    BY <1>1, <1>3, <2>1 DEF Bookkeeping, OpenedIsKnown, Believes
  <2>3. TargetIsReal'
    BY <1>1, <1>3, <2>1 DEF Bookkeeping, TargetIsReal, Believes, NoVersion
  <2>4. QED
    BY <1>1, <1>3, <1>4, <2>1, <2>2, <2>3, WalkBooks DEF Believes, Joining
<1>7. CASE editor' = [Idle EXCEPT !.at = "refreshing"]
  <2>1. editor'.at = "refreshing" /\ editor'.next = "idle"
    BY <1>7 DEF Idle
  <2>2. /\ sync'.target = st.target /\ sync'.queued = st.queued /\ sync'.flushed = st.flushed
        /\ (sync'.opened <=> st.opened) /\ (sync'.force <=> st.force) /\ SyncIsSound(sync')
    <3>1. CASE sync' = st
      BY <1>3, <3>1 DEF Believes
    <3>2. CASE st.opened /\ NothingToSend(st) /\ sync' = clean
      <4>1. st \in SyncState /\ SyncIsSound(st)
        BY <1>3 DEF Believes
      <4>2. sync'.target = st.target /\ sync'.queued = NoText /\ sync'.flushed = st.flushed
        BY <3>2, <4>1 DEF SyncState
      <4>3. (sync'.opened <=> st.opened) /\ (sync'.force <=> st.force)
        BY <3>2, <4>1 DEF SyncState
      <4>4. st.target = NoVersion /\ st.flushed = buffer /\ st.queued = NoText
        BY <3>2, <4>1 DEF NothingToSend, SyncIsSound
      <4>5. SyncIsSound(sync')
        BY <4>1, <4>2, <4>3, <4>4 DEF SyncIsSound
      <4>6. QED
        BY <4>2, <4>3, <4>4, <4>5
    <3>3. QED
      BY <1>2, <3>1, <3>2, <2>1, <1>7 DEF Idle
(* Everybody has the buffer, or it is what is on its way. *)
  <2>3. \/ doc.version = 0
        \/ st.target = NoVersion /\ st.flushed = buffer
        \/ st.target # NoVersion /\ st.queued = buffer
    <3>1. SyncIsSound(st) /\ (doc.version # 0 => st.opened)
      BY <1>3 DEF Believes
    <3>2. CASE ~st.opened
      BY <3>1, <3>2
    <3>3. CASE st.opened /\ ~st.modified
      BY <1>5, <3>1, <3>3 DEF SyncIsSound
    <3>4. CASE NothingToSend(st)
      BY <3>4 DEF NothingToSend
    <3>5. CASE AlreadyQueued(st)
      BY <1>5, <3>1, <3>5 DEF AlreadyQueued, SyncIsSound
    <3>6. QED
      BY <1>2, <3>2, <3>3, <3>4, <3>5, <2>1 DEF Idle
  <2>4. SyncIsTrue(sync)'
    <3>1. CASE doc.version # 0 /\ st.target = NoVersion
      <4>1. AllHave(buffer)
        BY <1>1, <1>3, <1>5, <2>3, <3>1 DEF Believes, SyncIsTrue
      <4>2. AllHave(buffer)'
        BY <1>1, <4>1 DEF AllHave, Has
      <4>3. st.flushed = buffer
        BY <2>3, <3>1
      <4>4. QED
        BY <1>1, <2>2, <3>1, <4>2, <4>3 DEF SyncIsTrue
    <3>2. CASE doc.version # 0 /\ st.target # NoVersion
      <4>1. doc.sent < st.target /\ doc.sent \in Nat /\ st.target \in Nat
        BY <1>3, <3>2, Types, SyncTypes DEF Believes
      <4>2. ~(doc.sent >= st.target)
        BY <4>1
      <4>3. QED
        BY <1>1, <2>2, <3>2, <4>2 DEF SyncIsTrue
    <3>3. CASE doc.version = 0
      BY <1>1, <3>3 DEF SyncIsTrue
    <3>4. QED
      BY <3>1, <3>2, <3>3
  <2>5. FlushProgress'
    <3>1. CASE doc.version = 0
      <4>1. \A s \in Servers : ~server[s].open
        BY <1>1, <3>1, NobodyOpen DEF ClosedPlaces
      <4>2. QED
        BY <1>1, <4>1 DEF FlushProgress
    <3>2. CASE doc.version # 0
      <4>1. SUFFICES ASSUME NEW f \in Flushers, Sending(f), ~flush[f].retry, doc.pending = NoChange,
                            NEW s \in Servers \ flush[f].todo, server[s].open
                     PROVE  server[s].text = flush[f].change.text
        BY <1>1 DEF FlushProgress, Has, Sending
      <4>2. flush[f].change.version = st.target /\ flush[f].change.text = st.queued
            /\ flush[f].change.version \in Nat /\ NoVersion \notin Nat
        BY <1>4, <3>2, <4>1, Types DEF UnderWayIs, Sending, NoVersion
      <4>3. st.queued = buffer
        BY <2>3, <3>2, <4>2
      <4>4. Has(s, flush[f].change.text)
        BY <4>1 DEF Bookkeeping, FlushProgress
      <4>5. QED
        BY <4>2, <4>3, <4>4 DEF Has
    <3>3. QED
      BY <3>1, <3>2
  <2>6. FirstClaim' /\ StrictlyNewer'
    BY <1>1, <2>1 DEF Bookkeeping, FirstClaim, StrictlyNewer, Sending, NothingUnderWay
  <2>7. SyncIsSound(sync)' /\ QueuedIsNoted'
    BY <1>1, <1>4, <2>1, <2>2 DEF SyncIsSound, Loaded, QueuedIsNoted, UnderWayIs, Sending
  <2>8. OpenedIsKnown'
    BY <1>1, <1>3, <2>1, <2>2 DEF Bookkeeping, OpenedIsKnown, Believes
  <2>9. TargetIsReal'
    BY <1>1, <1>3, <2>1, <2>2 DEF Bookkeeping, TargetIsReal, Believes, NoVersion
  <2>10. QED
    BY <2>4, <2>5, <2>6, <2>7, <2>8, <2>9 DEF Bookkeeping
<1>8. QED
  BY <1>2, <1>6, <1>7

LEMMA NoteBooks ==
  ASSUME IInv, Bookkeeping, Protocol, NoteQueued
  PROVE  Bookkeeping'
<1>1. /\ UNCHANGED <<buffer, doc, base, flush, server>>
      /\ editor.at = "noting" /\ sync \in SyncState
  BY MoreTypes DEF NoteQueued, At
<1>2. /\ sync'.target = doc.version /\ sync'.queued = buffer /\ sync'.flushed = sync.flushed
  BY <1>1 DEF NoteQueued, MarkQueued, SyncState
<1>3. sync'.modified /\ sync'.opened
  BY <1>1 DEF NoteQueued, MarkQueued, SyncState, Bookkeeping, OpenedIsKnown
<1>4. editor'.at \in {"refreshing", "flushing"} /\ editor'.next # "changing"
  <2>1. editor.next # "changing" /\ editor \in EditorState
    BY <1>1, Types DEF Bookkeeping, OpenedIsKnown
  <2>2. QED
    BY <1>1, <2>1, ReturnsType DEF NoteQueued, Returns, Goes, EditorState
<1>5. Loaded /\ buffer # NoText /\ doc.version \in Nat /\ NoVersion \notin Nat
  BY <1>1, Types DEF IInv, EditorHasBuffer, Loaded, NoVersion
<1>6. doc.version = 0 \/ doc.version >= 2
  BY <1>1 DEF Bookkeeping, StrictlyNewer
<1>7. SyncIsSound(sync)'
  BY <1>2, <1>3, <1>5, <1>6 DEF SyncIsSound
<1>8. /\ \A text : AllHave(text) => AllHave(text)'
      /\ \A s \in Servers : \A text : Has(s, text) => Has(s, text)'
  BY <1>1 DEF AllHave, Has, Joining
<1>9. SyncIsTrue(sync)' /\ QueuedIsNoted'
  BY <1>1, <1>2, <1>4, <1>5, <1>8 DEF Bookkeeping, SyncIsTrue, QueuedIsNoted, UnderWayIs, Sending
<1>10. FirstClaim' /\ StrictlyNewer' /\ FlushProgress'
  BY <1>1, <1>4, <1>8 DEF Bookkeeping, FirstClaim, StrictlyNewer, FlushProgress, Sending, NothingUnderWay
<1>11. OpenedIsKnown' /\ TargetIsReal'
  BY <1>1, <1>2, <1>3, <1>4 DEF Bookkeeping, OpenedIsKnown, TargetIsReal
<1>12. QED
  BY <1>7, <1>9, <1>10, <1>11 DEF Bookkeeping
LEMMA ClaimBooks ==
  ASSUME IInv, Bookkeeping, Protocol, Claim, mishaps' = {}
  PROVE  Bookkeeping'
<1>1. /\ ~Forgetting /\ editor.at = "claiming" /\ UNCHANGED <<buffer, sync, base, flush, server>>
  BY DEF Claim, Mishap, At
<1>2. /\ Max2(doc.version, 1) = IF doc.version = 0 THEN 1 ELSE doc.version
      /\ Max2(doc.sent, 1) = IF doc.sent = 0 THEN 1 ELSE doc.sent
  BY Types DEF Max2
<1>3. /\ doc'.version = (IF doc.version = 0 THEN 1 ELSE doc.version)
      /\ doc'.sent = doc.sent /\ doc'.pending = doc.pending
  <2>1. doc' = [doc EXCEPT !.version = Max2(doc.version, 1)] /\ doc \in Manager
    BY Types DEF Claim
  <2>2. QED
    BY <1>2, <2>1 DEF Manager
<1>4. /\ editor'.at = "opening" /\ editor'.todo = Group /\ editor'.next = editor.next
      /\ editor'.version = (IF doc.version = 0 \/ doc.sent = 0 THEN 1 ELSE doc.sent)
      /\ editor'.claimed <=> doc.version = 0
      /\ editor'.first <=> editor.first
  <2>1. /\ editor' = [editor EXCEPT !.at = "opening", !.todo = Group, !.claimed = doc.version = 0,
                                    !.version = IF doc.version = 0 THEN 1 ELSE Max2(doc.sent, 1)]
        /\ editor \in EditorState
    BY Types DEF Claim
  <2>2. QED
    BY <1>2, <2>1 DEF EditorState
<1>5. /\ \A text : AllHave(text) => AllHave(text)'
      /\ \A s \in Servers : \A text : Has(s, text) => Has(s, text)'
  BY <1>1, <1>4 DEF AllHave, Has, Joining
<1>6. doc.version = 0 =>
        /\ NothingUnderWay /\ doc.sent = 0 /\ NobodyHasIt
        /\ \A s \in Servers : ~server[s].open
  BY <1>1, NobodyOpen DEF Protocol, UnclaimedIsNew, ClosedPlaces
<1>7. SyncIsSound(sync)' /\ SyncIsTrue(sync)'
  BY <1>1, <1>3, <1>4, <1>5, <1>6 DEF Bookkeeping, SyncIsSound, SyncIsTrue, Loaded, AllHave
<1>8. OpenedIsKnown' /\ TargetIsReal'
  BY <1>1, <1>4 DEF Bookkeeping, OpenedIsKnown, TargetIsReal
<1>9. FirstClaim'
  BY <1>1, <1>3, <1>4, <1>6, MoreTypes DEF Bookkeeping, FirstClaim, NothingUnderWay, Sending, NobodyHasIt, Group
<1>10. StrictlyNewer' /\ QueuedIsNoted' /\ FlushProgress'
  <2>1. StrictlyNewer'
    BY <1>1, <1>3, <1>4 DEF Bookkeeping, StrictlyNewer, Sending
  <2>2. FlushProgress'
    BY <1>1, <1>3, <1>5 DEF Bookkeeping, FlushProgress, Sending
  <2>3. QueuedIsNoted'
    <3>1. UnderWayIs(sync.target, sync.queued)
      BY <1>1, <1>6 DEF Bookkeeping, QueuedIsNoted, UnderWayIs, NothingUnderWay
    <3>2. QED
      BY <1>1, <1>3, <1>4, <3>1 DEF QueuedIsNoted, UnderWayIs, Sending
  <2>4. QED
    BY <2>1, <2>2, <2>3
<1>11. QED
  BY <1>7, <1>8, <1>9, <1>10 DEF Bookkeeping

(* An open goes on: whoever is opened gets the buffer. *)
LEMMA OpeningBooks ==
  ASSUME IInv, Bookkeeping, UNCHANGED <<buffer, sync, doc, flush>>,
         editor.at = "opening", editor'.at = "opening", editor'.version = editor.version,
         editor'.next = editor.next, editor'.claimed <=> editor.claimed, editor'.first <=> editor.first,
         editor'.todo \subseteq editor.todo,
         editor.claimed => editor'.tried /\ \A s \in editor'.todo : base'[s] = base[s],
         \A s \in Servers : server'[s].at = server[s].at,
         \A s \in Servers : server'[s].open =>
             server'[s].text = buffer \/ (server[s].open /\ server'[s].text = server[s].text)
  PROVE  Bookkeeping'
<1>1. /\ \A text : AllHave(text) => AllHave(text)'
      /\ \A s \in Servers : \A text : server'[s].open /\ (server[s].open => Has(s, text)) => Has(s, text)'
  BY DEF AllHave, Has, Joining
<1>2. SyncIsSound(sync)' /\ SyncIsTrue(sync)' /\ OpenedIsKnown' /\ TargetIsReal'
  BY <1>1 DEF Bookkeeping, SyncIsSound, SyncIsTrue, OpenedIsKnown, TargetIsReal, Loaded
<1>3. FirstClaim'
  BY MoreTypes DEF Bookkeeping, FirstClaim, NothingUnderWay, Sending
<1>4. StrictlyNewer' /\ QueuedIsNoted' /\ FlushProgress'
  BY <1>1 DEF Bookkeeping, StrictlyNewer, QueuedIsNoted, UnderWayIs, FlushProgress, Sending
<1>5. QED
  BY <1>2, <1>3, <1>4 DEF Bookkeeping

LEMMA OpenBooks ==
  ASSUME IInv, Bookkeeping, Protocol, NEW s \in Servers,
         FindOpen(s) \/ OpenIsRefused(s) \/ (OpenOn(s) /\ mishaps' = {})
  PROVE  Bookkeeping'
<1>1. /\ UNCHANGED <<buffer, sync, doc, flush>> /\ editor.at = "opening" /\ s \in editor.todo
      /\ editor \in EditorState
  BY Types DEF FindOpen, OpenIsRefused, OpenOn, At
<1>2. /\ editor'.at = "opening" /\ editor'.version = editor.version /\ editor'.next = editor.next
      /\ editor'.claimed <=> editor.claimed
      /\ editor'.first <=> editor.first
      /\ editor'.todo = editor.todo \ {s}
  <2>1. \/ editor' = [editor EXCEPT !.todo = editor.todo \ {s}]
        \/ editor' = [editor EXCEPT !.todo = editor.todo \ {s}, !.tried = TRUE]
        \/ editor' = [editor EXCEPT !.todo = editor.todo \ {s}, !.tried = TRUE, !.delivered = TRUE]
    BY DEF FindOpen, OpenIsRefused, OpenOn
  <2>2. QED
    BY <1>1, <2>1 DEF EditorState
<1>3. editor.claimed => base[s] = Unopened
  BY <1>1 DEF Bookkeeping, FirstClaim
<1>4. editor.claimed => editor'.tried
  BY <1>1, <1>3 DEF FindOpen, OpenIsRefused, OpenOn, EditorState
<1>5. \A o \in Servers \ {s} : base'[o] = base[o]
  BY Types DEF FindOpen, OpenIsRefused, OpenOn
<1>6. /\ \A o \in Servers : server'[o].at = server[o].at
      /\ \A o \in Servers : server'[o].open =>
           server'[o].text = buffer \/ (server[o].open /\ server'[o].text = server[o].text)
  <2>1. CASE UNCHANGED server
    BY <2>1
  <2>2. CASE OpenOn(s)
    <3> DEFINE m == Opened(server[s], buffer, editor.version)
    <3>1. Reaches(s, m)
      BY <2>2 DEF OpenOn
    <3>2. m.at = server[s].at /\ m.text = buffer
      BY Types DEF Opened, ServerState
    <3> HIDE DEF m
    <3>3. QED
      BY <3>1, <3>2, Reached
  <2>3. QED
    BY <2>1, <2>2 DEF FindOpen, OpenIsRefused
<1>7. editor'.todo \subseteq Servers \ {s}
  BY <1>2, Types
<1>8. QED
  BY <1>1, <1>2, <1>4, <1>5, <1>6, <1>7, OpeningBooks
LEMMA EndOpeningBooks ==
  ASSUME IInv, Bookkeeping, Protocol, EndOpening, mishaps' = {}
  PROVE  Bookkeeping'
<1> DEFINE refused == editor.tried /\ ~editor.delivered
           gone == refused /\ editor.claimed
           sent == IF editor.delivered /\ doc.sent = 0 THEN editor.version ELSE doc.sent
<1>1. /\ ~Forgetting /\ doc.version # 0 /\ editor.at = "opening" /\ editor.todo = {}
      /\ UNCHANGED <<buffer, base, flush, server>> /\ editor \in EditorState /\ sync \in SyncState
  BY MoreTypes, Types DEF EndOpening, Mishap, Forgotten, At
<1>2. /\ doc'.version = (IF gone THEN 0 ELSE doc.version) /\ doc'.pending = doc.pending
      /\ doc'.sent = sent
  BY Types DEF EndOpening, Manager
<1>3. Loaded /\ buffer \in Texts /\ editor.next # "closing"
  BY <1>1, MoreTypes DEF IInv, EditorHasBuffer, Loaded
<1>4. /\ editor'.at = editor.next /\ editor'.next = "idle"
      /\ editor'.at \in {"idle", "ensuring", "changing", "refreshing", "flushing"}
  BY <1>1, <1>3, ReturnsType DEF EndOpening, Returns, EditorState
<1>5. \/ sync' = sync
      \/ refused /\ sync' = [sync EXCEPT !.later = TRUE]
      \/ ~refused /\ editor.first /\ sync' = MarkOpenFlushed(sync, buffer, sent)
  BY DEF EndOpening
<1>6. ~refused /\ editor.first => sync' = MarkOpenFlushed(sync, buffer, sent)
  BY DEF EndOpening
<1>7. /\ FirstClaim /\ OpenedIsKnown /\ SyncIsSound(sync) /\ SyncIsTrue(sync) /\ TargetIsReal
      /\ StrictlyNewer /\ QueuedIsNoted /\ FlushProgress
  BY DEF Bookkeeping
<1>8. sync.target # 0
  BY <1>1, <1>7 DEF TargetIsReal
<1>9. \A st : st = [sync EXCEPT !.later = TRUE] \/ st = sync =>
        /\ st.target = sync.target /\ st.queued = sync.queued /\ st.flushed = sync.flushed
  BY <1>1 DEF SyncState
<1>10. \A st : st = [sync EXCEPT !.later = TRUE] \/ st = sync =>
        /\ st.opened <=> sync.opened
        /\ st.modified <=> sync.modified
        /\ st.force <=> sync.force
  BY <1>1 DEF SyncState
(* No server took it: the document is unclaimed again. *)
<1>11. CASE gone
  <2>1. /\ NothingUnderWay /\ doc.sent = 0 /\ \A s \in Servers : ~server[s].open
    BY <1>1, <1>7, <1>11, Types DEF FirstClaim, Protocol, ClaimIsFirst, RecordedIsOpen, NobodyHasIt,
       ClosedPlaces, IInv, DeadHasNothing
  <2>2. doc'.version = 0 /\ doc'.sent = 0 /\ NothingUnderWay'
    BY <1>1, <1>2, <1>11, <2>1 DEF NothingUnderWay, Sending
  <2>3. sync' = sync \/ sync' = [sync EXCEPT !.later = TRUE]
    BY <1>5, <1>11
  <2>4. SyncIsSound(sync)' /\ SyncIsTrue(sync)' /\ TargetIsReal'
    BY <1>1, <1>7, <1>8, <1>9, <1>10, <2>2, <2>3 DEF SyncIsSound, SyncIsTrue, TargetIsReal, Loaded
  <2>5. OpenedIsKnown'
    <3>1. editor'.at = "ensuring" => editor'.next # "changing"
      BY <1>4
    <3>2. QED
      BY <1>1, <1>3, <1>4, <2>2, <3>1 DEF OpenedIsKnown, Loaded
  <2>6. FirstClaim' /\ StrictlyNewer' /\ QueuedIsNoted' /\ FlushProgress'
    BY <1>1, <1>4, <1>7, <2>2 DEF FirstClaim, StrictlyNewer, QueuedIsNoted, FlushProgress, NothingUnderWay
  <2>7. QED
    BY <2>4, <2>5, <2>6 DEF Bookkeeping
(* Every server that was there has it. *)
<1>12. CASE ~gone /\ editor.claimed
  <2>1. /\ NothingUnderWay /\ doc.sent = 0 /\ editor.tried /\ editor.version = 1
        /\ \A s \in Servers : server[s].open => server[s].text = buffer
    BY <1>1, <1>7, <1>12 DEF FirstClaim
  <2>2. ~refused /\ editor.delivered
    BY <1>12, <2>1
  <2>3. /\ doc'.version # 0 /\ doc'.sent = 1 /\ NothingUnderWay' /\ AllHave(buffer)'
        /\ sent = 1
    BY <1>1, <1>2, <1>12, <2>1, <2>2 DEF NothingUnderWay, Sending, AllHave, Has
  <2>4. FirstClaim' /\ StrictlyNewer' /\ QueuedIsNoted' /\ FlushProgress'
    BY <1>1, <1>4, <1>7, <2>3 DEF FirstClaim, StrictlyNewer, QueuedIsNoted, UnderWayIs, FlushProgress,
       NothingUnderWay
  <2>5. CASE editor.first
    <3> DEFINE st == [sync EXCEPT !.opened = TRUE]
    <3>1. ~sync.opened
      BY <1>1, <1>7, <2>5 DEF OpenedIsKnown
    <3>2. st \in SyncState
      BY <1>1 DEF SyncState
    <3>3. sync.target = NoVersion /\ sync.queued = NoText /\ sync.flushed = NoText
      BY <1>7, <3>1 DEF SyncIsSound
    <3>4. st.target = NoVersion /\ st.queued = NoText
      BY <1>1, <3>3 DEF SyncState
    <3>5. st.opened
      BY <1>1 DEF SyncState
    <3>6. sync' = MarkFlushed(st, buffer, sent) /\ sent \in Nat
      BY <1>6, <2>2, <2>3, <2>5 DEF MarkOpenFlushed
    <3> HIDE DEF st
    <3>7. sync'.flushed = buffer /\ sync'.target = NoVersion /\ sync'.queued = NoText
      BY <3>2, <3>4, <3>6, MarkFlushedLeaves
    <3>12. sync'.opened
      <4>1. sync'.opened = st.opened
        BY <3>2, <3>4, <3>6, MarkFlushedLeaves
      <4>2. QED
        BY <3>5, <4>1
    <3>8. SyncIsSound(sync)'
      BY <1>1, <1>3, <3>7, <3>12 DEF SyncIsSound, Loaded, NoVersion
    <3>9. SyncIsTrue(sync)'
      BY <1>1, <2>3, <3>7 DEF SyncIsTrue
    <3>10. OpenedIsKnown' /\ TargetIsReal'
      BY <1>1, <1>3, <1>4, <3>7, <3>12 DEF OpenedIsKnown, TargetIsReal, Loaded, NoVersion
    <3>11. QED
      BY <2>4, <3>8, <3>9, <3>10 DEF Bookkeeping
  <2>6. CASE ~editor.first
    <3>1. sync' = sync /\ sync.opened /\ editor'.at = "changing"
      BY <1>1, <1>4, <1>5, <1>7, <2>2, <2>6 DEF OpenedIsKnown
    <3>2. sync.target # NoVersion => sync.target \in Nat /\ sync.target >= 2
      BY <1>1, <1>7, <1>8, SyncTypes DEF SyncIsSound
    <3>3. ~(sync.target # NoVersion /\ 1 >= sync.target)
      BY <3>2
    <3>4. \A text : AllHave(text)'
      BY <1>1, <2>1, <3>1 DEF AllHave, Has, Joining
    <3>5. SyncIsTrue(sync)'
      BY <3>1, <3>4 DEF SyncIsTrue
    <3>6. SyncIsSound(sync)' /\ OpenedIsKnown' /\ TargetIsReal'
      BY <1>1, <1>4, <1>7, <1>8, <3>1 DEF SyncIsSound, OpenedIsKnown, TargetIsReal, Loaded
    <3>7. QED
      BY <2>4, <3>5, <3>6 DEF Bookkeeping
  <2>7. QED
    BY <2>5, <2>6
(* A server that joined a document that is known. *)
<1>13. CASE ~editor.claimed
  <2>1. doc.sent # 0 /\ ~editor.first /\ sync.opened /\ editor'.at = "changing"
    BY <1>1, <1>4, <1>7, <1>13 DEF FirstClaim, OpenedIsKnown
  <2>2. /\ doc'.version = doc.version /\ doc'.sent = doc.sent /\ doc'.pending = doc.pending
    BY <1>2, <1>13, <2>1
  <2>3. sync' = sync \/ sync' = [sync EXCEPT !.later = TRUE]
    BY <1>5, <2>1
  <2>4. /\ \A text : AllHave(text) => AllHave(text)'
        /\ \A s \in Servers : \A text : Has(s, text) => Has(s, text)'
    BY <1>1, <2>1 DEF AllHave, Has, Joining
  <2>5. SyncIsSound(sync)' /\ SyncIsTrue(sync)'
    BY <1>1, <1>7, <1>9, <1>10, <2>1, <2>2, <2>3, <2>4 DEF SyncIsSound, SyncIsTrue, Loaded
  <2>6. OpenedIsKnown' /\ TargetIsReal'
    BY <1>1, <1>4, <1>8, <1>9, <1>10, <2>1, <2>3 DEF OpenedIsKnown, TargetIsReal
  <2>7. FirstClaim' /\ StrictlyNewer' /\ FlushProgress'
    BY <1>1, <1>7, <2>1, <2>2, <2>4 DEF FirstClaim, StrictlyNewer, FlushProgress, Sending, NothingUnderWay
  <2>8. QueuedIsNoted'
    BY <1>1, <1>7, <1>9, <2>1, <2>2, <2>3 DEF QueuedIsNoted, UnderWayIs, Sending
  <2>9. QED
    BY <2>5, <2>6, <2>7, <2>8 DEF Bookkeeping
<1>14. QED
  BY <1>11, <1>12, <1>13

LEMMA BumpBooks ==
  ASSUME IInv, Bookkeeping, Protocol, Bump, mishaps' = {}
  PROVE  Bookkeeping'
<1>1. /\ ~Forgetting /\ doc.version # 0 /\ editor.at = "bumping"
      /\ UNCHANGED <<buffer, sync, base, flush, server>> /\ doc.version \in Nat
  BY Types DEF Bump, Mishap, Forgotten, At
<1>2. /\ doc'.version = doc.version + 1 /\ doc'.pending = doc.pending /\ doc'.sent = doc.sent
      /\ editor'.at = "queueing" /\ editor'.version = doc.version + 1 /\ editor'.next = editor.next
  BY Types DEF Bump, Manager, EditorState
<1>3. /\ \A text : AllHave(text) => AllHave(text)'
      /\ \A s \in Servers : \A text : Has(s, text) => Has(s, text)'
  BY <1>1, <1>2 DEF AllHave, Has, Joining
<1>4. StrictlyNewer'
  BY <1>1, <1>2, Types DEF Bookkeeping, StrictlyNewer, Protocol, VersionsGrow, IsNewest, Sending
<1>5. FirstClaim' /\ FlushProgress'
  BY <1>1, <1>2, <1>3 DEF Bookkeeping, FirstClaim, FlushProgress, Sending, NothingUnderWay
<1>6. SyncIsSound(sync)' /\ SyncIsTrue(sync)'
  BY <1>1, <1>2, <1>3 DEF Bookkeeping, SyncIsSound, SyncIsTrue, Loaded
<1>7. OpenedIsKnown' /\ TargetIsReal' /\ QueuedIsNoted'
  BY <1>1, <1>2 DEF Bookkeeping, OpenedIsKnown, TargetIsReal, QueuedIsNoted, UnderWayIs, Sending
<1>8. QED
  BY <1>4, <1>5, <1>6, <1>7 DEF Bookkeeping

LEMMA QueueBooks ==
  ASSUME IInv, Bookkeeping, Protocol, Queue, mishaps' = {}
  PROVE  Bookkeeping'
<1>1. /\ ~Forgetting /\ doc.version = editor.version /\ editor.at = "queueing"
      /\ UNCHANGED <<buffer, sync, flush, server>>
      /\ buffer \in Texts
  BY MoreTypes DEF Queue, Mishap, At, IInv, EditorHasBuffer, Loaded
<1>2. /\ doc'.version = doc.version /\ doc'.sent = doc.sent
      /\ doc'.pending = [text |-> buffer, version |-> editor.version]
      /\ doc'.pending.version = editor.version /\ doc'.pending.text = buffer
      /\ editor'.at = "noting" /\ editor'.version = editor.version /\ editor'.next = editor.next
  BY Types DEF Queue, Manager, EditorState, Goes
<1>3. /\ editor.version >= 2 /\ doc.sent < editor.version /\ doc.sent \in Nat /\ editor.version \in Nat
  BY <1>1, Types DEF Bookkeeping, StrictlyNewer
<1>4. doc'.pending # NoChange
  BY <1>2, <1>3 DEF NoChange
<1>5. StrictlyNewer'
  BY <1>1, <1>2, <1>3, <1>4 DEF Bookkeeping, StrictlyNewer, Sending
<1>6. FirstClaim' /\ FlushProgress'
  BY <1>1, <1>2, <1>4 DEF Bookkeeping, FirstClaim, FlushProgress
<1>7. SyncIsSound(sync)' /\ SyncIsTrue(sync)'
  BY <1>1, <1>2 DEF Bookkeeping, SyncIsSound, SyncIsTrue, Loaded
<1>8. OpenedIsKnown' /\ TargetIsReal'
  BY <1>1, <1>2 DEF Bookkeeping, OpenedIsKnown, TargetIsReal
<1>9. QueuedIsNoted'
  <2>1. ~(doc'.sent >= doc'.version)
    BY <1>1, <1>2, <1>3
  <2>2. QED
    BY <1>1, <1>2, <1>4, <2>1 DEF QueuedIsNoted, UnderWayIs
<1>10. QED
  BY <1>5, <1>6, <1>7, <1>8, <1>9 DEF Bookkeeping
LEMMA TakeBooks ==
  ASSUME IInv, Bookkeeping, Protocol, NEW f \in Flushers, Take(f)
  PROVE  Bookkeeping'
<1>1. /\ UNCHANGED <<buffer, sync, editor, base, server>>
      /\ doc.pending # NoChange /\ doc'.version = doc.version /\ doc'.sent = doc.sent
      /\ doc'.pending = NoChange
  BY Types DEF Take, Manager
<1>2. /\ flush'[f].sending /\ flush'[f].change = doc.pending /\ flush'[f].todo = Group
      /\ ~flush'[f].orphan
      /\ \A g \in Flushers \ {f} : flush'[g] = flush[g]
  BY Types DEF Take, NoFlush
<1>3. \A g \in Flushers \ {f} : ~Sending(g) /\ ~Sending(g)'
  <2>1. \A g \in Flushers \ {f} : g = Other(f)
    BY DEF Other, Flushers
  <2>2. QED
    BY <1>2, <2>1 DEF Take, GateIsFree, Sending
<1>4. SyncIsSound(sync)' /\ SyncIsTrue(sync)' /\ OpenedIsKnown' /\ TargetIsReal'
  BY <1>1 DEF Bookkeeping, SyncIsSound, SyncIsTrue, OpenedIsKnown, TargetIsReal, Loaded, AllHave, Has
<1>5. FirstClaim'
  BY <1>1 DEF Bookkeeping, FirstClaim, NothingUnderWay
<1>6. StrictlyNewer'
  BY <1>1, <1>2, <1>3 DEF Bookkeeping, StrictlyNewer
<1>7. QueuedIsNoted'
  BY <1>1, <1>2, <1>3 DEF Bookkeeping, QueuedIsNoted, UnderWayIs, AllHave, Has
<1>8. FlushProgress'
  BY <1>1, <1>2, <1>3 DEF FlushProgress, Group, IInv, DeadHasNothing
<1>9. QED
  BY <1>4, <1>5, <1>6, <1>7, <1>8 DEF Bookkeeping

(* While something is on its way, it is newer than what is taken for delivered. *)
LEMMA UnderWayIsNewer ==
  ASSUME IInv, Bookkeeping, NEW f \in Flushers, Sending(f), doc.version # 0
  PROVE  /\ editor.at # "noting" => sync.target \in Nat /\ doc.sent < sync.target /\ sync.target # NoVersion
         /\ editor.at = "noting" => doc.sent < doc.version
<1>1. /\ doc.sent < flush[f].change.version /\ flush[f].change.version \in Nat
      /\ doc.pending # NoChange => doc.sent < doc.pending.version /\ doc.pending.version \in Nat
  BY Types DEF Bookkeeping, StrictlyNewer, Sending
<1>2. /\ editor.at # "noting" => UnderWayIs(sync.target, sync.queued)
      /\ editor.at = "noting" => UnderWayIs(doc.version, buffer)
  BY DEF Bookkeeping, QueuedIsNoted
<1>3. CASE doc.pending = NoChange
  BY <1>1, <1>2, <1>3 DEF UnderWayIs, NoVersion
<1>4. CASE doc.pending # NoChange
  BY <1>1, <1>2, <1>4 DEF UnderWayIs, NoVersion
<1>5. QED
  BY <1>3, <1>4

LEMMA SendBooks ==
  ASSUME IInv, Bookkeeping, Protocol, NEW f \in Flushers, NEW s \in Servers, Send(f, s), mishaps' = {}
  PROVE  Bookkeeping'
<1> DEFINE change == flush[f].change
           opened == Opened(server[s], change.text, change.version)
           changed == Changed(server[s], base[s], change)
<1>1. /\ UNCHANGED <<buffer, sync, editor, doc>> /\ ~Forgetting /\ Sending(f)
      /\ s \in flush[f].todo
  BY DEF Send, Mishap, Sending
<1>2. /\ change \in Change /\ change.text \in Texts /\ change.version \in Nat
      /\ server[s] \in ServerState
  BY <1>1, FlushHasIts, Types DEF Sending
<1>3. doc.version # 0 /\ doc.version \in Nat /\ doc.sent \in Nat
  BY <1>1, Types DEF Protocol, UnclaimedIsNew, NothingUnderWay
<1>4. /\ flush'[f].sending /\ flush'[f].change = change /\ flush'[f].orphan = flush[f].orphan
      /\ flush'[f].todo = flush[f].todo \ {s}
      /\ \A g \in Flushers \ {f} : flush'[g] = flush[g]
  <2>1. /\ flush' = [flush EXCEPT ![f] = [flush[f] EXCEPT !.todo = flush[f].todo \ {s}, !.synced = TRUE]]
        /\ flush[f] \in FlushState /\ flush[f].sending
    BY <1>1, Types DEF Send, Sending
  <2>2. QED
    BY <2>1, Types DEF FlushState
<1>5. flush'[f].retry <=> flush[f].retry
  <2>1. /\ flush' = [flush EXCEPT ![f] = [flush[f] EXCEPT !.todo = flush[f].todo \ {s}, !.synced = TRUE]]
        /\ flush[f] \in FlushState
    BY Types DEF Send
  <2>2. QED
    BY <2>1, Types DEF FlushState
<1>6. \A g \in Flushers : Sending(g)' <=> Sending(g)
  BY <1>1, <1>4 DEF Sending
<1>7. /\ opened.text = change.text /\ opened.at = server[s].at
      /\ changed.text = change.text /\ changed.at = server[s].at
  BY <1>2, MessageTypes
<1>8. \/ Reaches(s, opened)
      \/ Reaches(s, changed)
      \/ base[s] = change.text /\ UNCHANGED server
  BY <1>2, Types DEF Send
<1> HIDE DEF change, opened, changed
<1>9. /\ \A o \in Servers \ {s} : server'[o] = server[o]
      /\ server'[s].at = server[s].at
      /\ server'[s].open => server'[s].text = change.text
  <2>1. server[s].at # "up" => ~server[s].open
    BY DEF IInv, DeadHasNothing
  <2>2. CASE Reaches(s, opened)
    BY <1>7, <2>1, <2>2, Reached
  <2>3. CASE Reaches(s, changed)
    BY <1>7, <2>1, <2>3, Reached
  <2>4. CASE base[s] = change.text /\ UNCHANGED server
    BY <1>2, <2>4 DEF IInv, BaselineIsServerText
  <2>5. QED
    BY <1>8, <2>2, <2>3, <2>4
(* Nothing is taken for delivered. *)
<1>10. /\ editor.at # "noting" => sync.target # NoVersion /\ ~(doc.sent >= sync.target)
       /\ editor.at = "noting" => ~(doc.sent >= doc.version)
  <2>1. /\ editor.at # "noting" => sync.target \in Nat /\ doc.sent < sync.target /\ sync.target # NoVersion
        /\ editor.at = "noting" => doc.sent < doc.version
    BY <1>1, <1>3, UnderWayIsNewer
  <2>2. QED
    BY <1>3, <2>1
<1>11. SyncIsSound(sync)' /\ SyncIsTrue(sync)' /\ OpenedIsKnown' /\ TargetIsReal'
  BY <1>1, <1>10 DEF Bookkeeping, SyncIsSound, SyncIsTrue, OpenedIsKnown, TargetIsReal, Loaded
<1>12. FirstClaim'
  BY <1>1, <1>9, MoreTypes DEF Bookkeeping, FirstClaim, NothingUnderWay
<1>13. StrictlyNewer'
  BY <1>1, <1>4, <1>6 DEF Bookkeeping, StrictlyNewer, change
<1>14. QueuedIsNoted'
  BY <1>1, <1>4, <1>6, <1>10 DEF Bookkeeping, QueuedIsNoted, UnderWayIs, change
<1>15. \A g \in Flushers : Sending(g) => g = f
  BY <1>1, Types DEF Protocol, OneFlush, Flushers
<1>16. FlushProgress'
  <2>1. SUFFICES ASSUME ~flush[f].retry, doc.pending = NoChange,
                        NEW o \in Servers, o \notin flush'[f].todo, server'[o].open
                 PROVE  server'[o].text = change.text \/ (editor.at \in Joining /\ server'[o].text = buffer)
    BY <1>1, <1>4, <1>5, <1>6, <1>15 DEF FlushProgress, Has
  <2>2. CASE o = s
    BY <1>9, <2>1, <2>2
  <2>3. CASE o # s
    <3>1. server'[o] = server[o] /\ o \notin flush[f].todo
      BY <1>4, <1>9, <2>1, <2>3
    <3>2. Has(o, change.text)
      BY <1>1, <2>1, <3>1 DEF Bookkeeping, FlushProgress, change
    <3>3. QED
      BY <3>1, <3>2 DEF Has
  <2>4. QED
    BY <2>2, <2>3
<1>17. QED
  BY <1>11, <1>12, <1>13, <1>14, <1>16 DEF Bookkeeping

LEMMA SendFailsBooks ==
  ASSUME IInv, Bookkeeping, NEW f \in Flushers, NEW s \in Servers, SendFails(f, s)
  PROVE  Bookkeeping'
<1> DEFINE retry == flush[f].retry \/ server[s].at = "up"
<1>1. UNCHANGED <<buffer, sync, editor, doc, base, server>>
  BY DEF SendFails
<1>2. /\ flush' = [flush EXCEPT ![f] = [flush[f] EXCEPT !.todo = flush[f].todo \ {s}, !.retry = retry]]
      /\ flush[f] \in FlushState
  BY Types DEF SendFails
<1>3. flush'[f].retry <=> retry
  BY <1>2, Types DEF FlushState
<1> HIDE DEF retry
<1>4. /\ flush'[f].change = flush[f].change /\ flush'[f].todo = flush[f].todo \ {s}
      /\ flush'[f].sending = flush[f].sending /\ flush'[f].orphan = flush[f].orphan
      /\ \A g \in Flushers \ {f} : flush'[g] = flush[g]
  BY <1>2, Types DEF FlushState
<1>5. \A g \in Flushers : (Sending(g)' <=> Sending(g)) /\ flush'[g].change = flush[g].change
  BY <1>4 DEF Sending
<1>6. SyncIsSound(sync)' /\ SyncIsTrue(sync)' /\ OpenedIsKnown' /\ TargetIsReal'
  BY <1>1 DEF Bookkeeping, SyncIsSound, SyncIsTrue, OpenedIsKnown, TargetIsReal, Loaded, AllHave, Has
<1>7. FirstClaim' /\ StrictlyNewer' /\ QueuedIsNoted'
  BY <1>1, <1>5 DEF Bookkeeping, FirstClaim, NothingUnderWay, StrictlyNewer, QueuedIsNoted, UnderWayIs,
     AllHave, Has
<1>8. FlushProgress'
  <2>1. ~flush'[f].retry => ~flush[f].retry /\ ~server[s].open
    BY <1>3 DEF retry, IInv, DeadHasNothing
  <2>2. \A o, text : Has(o, text)' <=> Has(o, text)
    BY <1>1 DEF Has
  <2>3. SUFFICES ASSUME NEW g \in Flushers, Sending(g), ~flush'[g].retry, doc.pending = NoChange,
                        NEW o \in Servers, o \notin flush'[g].todo, server[o].open
                 PROVE  Has(o, flush[g].change.text)
    BY <1>1, <1>5, <2>2 DEF FlushProgress
  <2>4. ~flush[g].retry /\ o \notin flush[g].todo
    BY <1>4, <2>1, <2>3
  <2>5. QED
    BY <2>3, <2>4 DEF Bookkeeping, FlushProgress
<1>9. QED
  BY <1>6, <1>7, <1>8 DEF Bookkeeping
LEMMA EndFlushBooks ==
  ASSUME IInv, Bookkeeping, Protocol, NEW f \in Flushers, EndFlush(f), mishaps' = {}
  PROVE  Bookkeeping'
<1> DEFINE x == flush[f]
           mine == f = "editor"
           sent == x.synced /\ ~x.retry
<1>1. /\ UNCHANGED <<buffer, base, server>> /\ ~Forgetting /\ Sending(f) /\ x.todo = {}
      /\ ~(mine /\ editor.next = "closing" /\ x.retry)
  BY DEF EndFlush, Sending
<1>2. \A g \in Flushers \ {f} : ~Sending(g)
  BY <1>1, Types DEF Protocol, OneFlush, Flushers
<1>3. /\ x.change.version \in Nat /\ x.change.text \in Texts /\ doc.sent \in Nat /\ doc.version # 0
      /\ doc.version \in Nat
  BY <1>1, Types, MoreTypes DEF Protocol, UnclaimedIsNew, NothingUnderWay, Sending
<1>4. /\ doc'.version = doc.version
      /\ \/ doc'.pending = doc.pending /\ doc'.sent = doc.sent /\ ~sent
         \/ doc'.pending = doc.pending /\ doc'.sent = x.change.version /\ sent
         \/ doc'.pending = x.change /\ doc.pending = NoChange /\ doc'.sent = doc.sent /\ ~sent
  BY Types DEF EndFlush, Manager
<1>5. /\ ~flush'[f].sending /\ \A g \in Flushers \ {f} : flush'[g] = flush[g]
  BY Types DEF EndFlush, NoFlush
<1>6. \A g \in Flushers : ~Sending(g)'
  BY <1>2, <1>5 DEF Sending
<1>7. /\ ~mine => editor' = editor
      /\ mine => /\ editor.at = "flushing" /\ editor'.at = editor.next /\ editor'.next = "idle"
                 /\ editor.next \in {"idle", "ensuring", "refreshing", "flushing", "closing"}
  <2>1. editor \in EditorState
    BY Types
  <2>2. mine => editor.at = "flushing" /\ editor.next # "changing"
    BY <1>1 DEF Sending, IInv, EditorAwaitsFlush, Bookkeeping, OpenedIsKnown
  <2>3. /\ ~mine => editor' = editor
        /\ mine => editor' = [Idle EXCEPT !.at = editor.next]
    BY <1>1 DEF EndFlush
  <2>4. QED
    BY <2>1, <2>2, <2>3, ReturnsType DEF EditorState
<1>8. sync' = IF mine /\ editor.next # "closing" /\ sent
              THEN MarkOpenFlushed(sync, x.change.text, x.change.version) ELSE sync
  BY <1>1 DEF EndFlush
<1>9. /\ SyncIsSound(sync) /\ SyncIsTrue(sync) /\ OpenedIsKnown /\ TargetIsReal /\ FirstClaim
      /\ StrictlyNewer /\ QueuedIsNoted /\ FlushProgress
  BY DEF Bookkeeping
<1>10. /\ doc.sent < x.change.version
       /\ doc.pending # NoChange => x.change.version < doc.pending.version /\ doc.pending.version \in Nat
       /\ mine => doc.pending = NoChange
       /\ editor.at = "queueing" => x.change.version < editor.version
  BY <1>1, <1>9, Types DEF StrictlyNewer, Protocol, OneFlush
<1>11. mine /\ editor.next # "closing" => Loaded
  BY <1>7 DEF IInv, EditorHasBuffer
<1> HIDE DEF x, sent, mine
(* What was sent reached everyone. *)
<1>12. sent /\ doc.pending = NoChange => AllHave(x.change.text)
  BY <1>1, <1>9 DEF FlushProgress, AllHave, sent, x
<1>13. \A text : AllHave(text) => AllHave(text)'
  BY <1>1, <1>7 DEF AllHave, Has, Joining
<1>14. doc.pending = NoChange =>
         /\ editor.at # "noting" => sync.target = x.change.version /\ sync.queued = x.change.text
         /\ editor.at = "noting" => doc.version = x.change.version /\ buffer = x.change.text
  BY <1>1, <1>3, <1>9 DEF QueuedIsNoted, UnderWayIs, x
<1>15. doc.pending # NoChange =>
         /\ editor.at # "noting" => sync.target = doc.pending.version
         /\ editor.at = "noting" => doc.version = doc.pending.version
  BY <1>3, <1>9 DEF QueuedIsNoted, UnderWayIs
<1>16. StrictlyNewer'
  BY <1>3, <1>4, <1>6, <1>7, <1>9, <1>10 DEF StrictlyNewer
<1>17. FirstClaim'
  <2>1. ~(editor'.at = "opening" /\ editor'.claimed)
    BY <1>1, <1>7, <1>9 DEF FirstClaim, NothingUnderWay
  <2>2. doc.sent # 0 /\ doc'.sent # 0
    <3>1. editor.at # "opening" \/ ~editor.claimed
      BY <1>1, <1>9 DEF FirstClaim, NothingUnderWay
    <3>2. doc.sent # 0
      BY <1>3, <1>9, <3>1 DEF FirstClaim
    <3>3. QED
      BY <1>3, <1>4, <1>10, <3>2
  <2>3. QED
    BY <1>1, <1>9, <2>1, <2>2 DEF FirstClaim
<1>18. FlushProgress'
  BY <1>6 DEF FlushProgress
<1>19. sync.opened
  <2>1. ~(editor.at = "opening" /\ editor.first)
    BY <1>1, <1>9 DEF OpenedIsKnown, FirstClaim, NothingUnderWay
  <2>2. QED
    BY <1>3, <1>9, <2>1 DEF OpenedIsKnown
<1>20. editor'.at = "idle" => Loaded \/ (editor' = editor)
  BY <1>7, <1>11
(* The editor marks as flushed what was queued last. *)
<1>21. CASE mine /\ editor.next # "closing" /\ sent
  <2>1. /\ doc.pending = NoChange /\ editor.at = "flushing" /\ doc'.pending = NoChange
        /\ doc'.sent = x.change.version
    BY <1>4, <1>7, <1>10, <1>21
  <2>2. sync.target = x.change.version /\ sync.queued = x.change.text
    BY <1>14, <2>1
  <2>3. /\ sync \in SyncState /\ [sync EXCEPT !.opened = TRUE] = sync
    BY <1>19, MoreTypes DEF SyncState
  <2>4. sync' = MarkFlushed(sync, x.change.text, x.change.version)
    BY <1>8, <1>21, <2>3 DEF MarkOpenFlushed
  <2>5. sync'.flushed = x.change.text /\ sync'.target = NoVersion
    BY <1>3, <2>2, <2>3, <2>4, MarkFlushedClears
  <2>6. SyncIsSound(sync')
    BY <1>3, <1>9, <1>19, <2>2, <2>3, <2>4, MarkIsSound
  <2>7. sync'.opened
    <3>1. sync'.opened = sync.opened
      BY <1>3, <2>2, <2>3, <2>4, MarkFlushedClears
    <3>2. QED
      BY <1>19, <3>1
  <2>8. SyncIsSound(sync)' /\ SyncIsTrue(sync)'
    BY <1>1, <1>12, <1>13, <1>21, <2>1, <2>5, <2>6 DEF SyncIsSound, SyncIsTrue, Loaded
  <2>9. OpenedIsKnown' /\ TargetIsReal'
    BY <1>1, <1>7, <1>11, <1>21, <2>5, <2>7 DEF OpenedIsKnown, TargetIsReal, Loaded, NoVersion
  <2>10. QueuedIsNoted'
    BY <1>6, <1>7, <1>21, <2>1 DEF QueuedIsNoted, UnderWayIs
  <2>11. QED
    BY <1>16, <1>17, <1>18, <2>8, <2>9, <2>10 DEF Bookkeeping
<1>22. CASE ~(mine /\ editor.next # "closing" /\ sent)
  <2>1. sync' = sync
    BY <1>8, <1>22
  <2>2. OpenedIsKnown' /\ TargetIsReal'
    <3>1. sync.target # 0
      BY <1>3, <1>9 DEF TargetIsReal
    <3>2. editor'.at = "idle" => Loaded' \/ editor' = editor
      BY <1>1, <1>20 DEF Loaded
    <3>3. QED
      BY <1>1, <1>4, <1>7, <1>9, <1>19, <2>1, <3>1, <3>2 DEF OpenedIsKnown, TargetIsReal, Loaded
  <2>3. SyncIsTrue(sync)'
    <3>1. SUFFICES ASSUME editor'.at # "noting"
                   PROVE  /\ sync.target # NoVersion /\ doc'.sent >= sync.target => AllHave(sync.queued)
                          /\ sync.target = NoVersion /\ sync.flushed # NoText => AllHave(sync.flushed)
      BY <1>4, <1>13, <2>1 DEF SyncIsTrue
    <3>2. editor.at # "noting"
      BY <1>7, <3>1
    <3>3. CASE doc'.sent = doc.sent
      BY <1>3, <1>9, <3>2, <3>3 DEF SyncIsTrue
    <3>4. CASE doc'.sent = x.change.version /\ sent
      <4>1. CASE doc.pending = NoChange
        BY <1>3, <1>12, <1>14, <3>2, <3>4, <4>1 DEF NoVersion
      <4>2. CASE doc.pending # NoChange
        <5>1. sync.target = doc.pending.version /\ doc.pending.version \in Nat /\ doc'.sent < sync.target
              /\ doc'.sent \in Nat
          BY <1>3, <1>10, <1>15, <3>2, <3>4, <4>2
        <5>2. ~(doc'.sent >= sync.target) /\ sync.target # NoVersion
          BY <5>1 DEF NoVersion
        <5>3. QED
          BY <5>2
      <4>3. QED
        BY <4>1, <4>2
    <3>5. QED
      BY <1>4, <3>3, <3>4
  <2>4. QueuedIsNoted'
    <3>1. editor'.at = "noting" <=> editor.at = "noting"
      BY <1>7
    <3>2. CASE editor.at # "noting"
      BY <1>4, <1>6, <1>14, <1>15, <1>9, <1>3, <2>1, <3>1, <3>2 DEF QueuedIsNoted, UnderWayIs
    <3>3. CASE editor.at = "noting"
      <4>1. UnderWayIs(doc.version, buffer)'
        BY <1>1, <1>3, <1>4, <1>6, <1>9, <1>14, <3>3 DEF QueuedIsNoted, UnderWayIs
      <4>2. doc'.sent >= doc.version => AllHave(buffer)
        <5>1. CASE doc'.sent = doc.sent
          BY <1>3, <1>9, <3>3, <5>1 DEF QueuedIsNoted
        <5>2. CASE doc'.sent = x.change.version /\ sent
          <6>1. CASE doc.pending = NoChange
            BY <1>12, <1>14, <3>3, <5>2, <6>1
          <6>2. CASE doc.pending # NoChange
            <7>1. ~(doc'.sent >= doc.version)
              BY <1>3, <1>10, <1>15, <3>3, <5>2, <6>2
            <7>2. QED
              BY <7>1
          <6>3. QED
            BY <6>1, <6>2
        <5>3. QED
          BY <1>4, <5>1, <5>2
      <4>3. QED
        BY <1>1, <1>4, <1>13, <3>1, <3>3, <4>1, <4>2 DEF QueuedIsNoted
    <3>4. QED
      BY <3>2, <3>3
  <2>5. SyncIsSound(sync)'
    BY <1>1, <1>9, <2>1 DEF SyncIsSound, Loaded
  <2>6. QED
    BY <1>16, <1>17, <1>18, <2>2, <2>3, <2>4, <2>5 DEF Bookkeeping
<1>23. QED
  BY <1>21, <1>22
(* What may happen to a server takes documents away from it only. *)
LEMMA FewerHave ==
  ASSUME IInv, Bookkeeping, UNCHANGED <<buffer, sync, editor, doc, flush>>,
         \A s \in Servers : server'[s].open => server[s].open /\ server'[s].text = server[s].text,
         server'[Primary].at # "absent",
         \A s \in Servers : base[s] = Unopened => base'[s] = Unopened
  PROVE  Bookkeeping'
<1>1. /\ \A text : AllHave(text) => AllHave(text)'
      /\ \A s \in Servers : \A text : server'[s].open => (Has(s, text) => Has(s, text)')
  BY DEF AllHave, Has
<1>2. FirstClaim'
  BY Types DEF Bookkeeping, FirstClaim, NothingUnderWay, Sending
<1>3. SyncIsSound(sync)' /\ SyncIsTrue(sync)' /\ OpenedIsKnown' /\ TargetIsReal'
  BY <1>1 DEF Bookkeeping, SyncIsSound, SyncIsTrue, OpenedIsKnown, TargetIsReal, Loaded
<1>4. StrictlyNewer' /\ QueuedIsNoted' /\ FlushProgress'
  BY <1>1 DEF Bookkeeping, StrictlyNewer, QueuedIsNoted, UnderWayIs, FlushProgress, Sending
<1>5. QED
  BY <1>2, <1>3, <1>4 DEF Bookkeeping

LEMMA ServerBooks ==
  ASSUME IInv, Bookkeeping, NEW s \in Servers,
         StartRestart(s) \/ RestartFails(s) \/ Respawn(s) \/ StartLate(s) \/ Die(s)
  PROVE  Bookkeeping'
<1>1. UNCHANGED <<buffer, sync, editor, doc, flush>>
  BY DEF StartRestart, RestartFails, Respawn, StartLate, Die
<1>2. \A o \in Servers : base[o] = Unopened => base'[o] = Unopened
  BY Types DEF StartRestart, RestartFails, Respawn, StartLate, Die
<1>3. server[Primary].at # "absent" /\ Primary \in Servers
  BY MoreTypes DEF Bookkeeping, FirstClaim
<1>4. \/ UNCHANGED server
      \/ /\ \A o \in Servers \ {s} : server'[o] = server[o]
         /\ ~server'[s].open /\ server'[s].at # "absent"
  <2>1. CASE StartRestart(s) \/ RestartFails(s)
    BY <2>1 DEF StartRestart, RestartFails
  <2>2. CASE Respawn(s)
    BY <2>2, Types DEF Respawn, NewServer
  <2>3. CASE StartLate(s)
    BY <2>3, Types DEF StartLate, NewServer
  <2>4. CASE Die(s)
    <3>1. server' = [server EXCEPT ![s] = [NewServer EXCEPT !.at = "down", !.sound = server[s].sound]]
      BY <2>4 DEF Die
    <3>2. QED
      BY <3>1, Types DEF NewServer
  <2>5. QED
    BY <2>1, <2>2, <2>3, <2>4
<1>5. QED
  BY <1>1, <1>2, <1>3, <1>4, FewerHave

LEMMA CloseBooks ==
  ASSUME IInv, Bookkeeping, Protocol, CloseOnServers
  PROVE  Bookkeeping'
<1>1. /\ UNCHANGED <<buffer, sync, doc, base, flush>> /\ editor.at = "closing"
      /\ editor'.at = "unclaiming" /\ editor'.next = editor.next
  BY Types DEF CloseOnServers, At, Goes, EditorState
<1>2. \A s \in Servers : Closed(server[s]).at = server[s].at /\ ~Closed(server[s]).open
  BY Types DEF Closed, ServerState
<1>3. \A s \in Servers : \/ server'[s] = server[s]
                         \/ server'[s] = Closed(server[s])
  BY DEF CloseOnServers
<1>4. \A s \in Servers : /\ server'[s].at = server[s].at
                         /\ server'[s].open => server'[s] = server[s]
  BY <1>2, <1>3
<1>5. /\ \A text : AllHave(text) => AllHave(text)'
      /\ \A s \in Servers : \A text : server'[s].open => (Has(s, text) => Has(s, text)')
  BY <1>1, <1>4 DEF AllHave, Has, Joining
<1>6. FirstClaim'
  BY <1>1, <1>4, MoreTypes DEF Bookkeeping, FirstClaim
<1>7. SyncIsSound(sync)' /\ SyncIsTrue(sync)' /\ OpenedIsKnown' /\ TargetIsReal'
  BY <1>1, <1>5 DEF Bookkeeping, SyncIsSound, SyncIsTrue, OpenedIsKnown, TargetIsReal, Loaded
<1>8. StrictlyNewer' /\ QueuedIsNoted' /\ FlushProgress'
  BY <1>1, <1>4, <1>5 DEF Bookkeeping, StrictlyNewer, QueuedIsNoted, UnderWayIs, FlushProgress, Sending
<1>9. QED
  BY <1>6, <1>7, <1>8 DEF Bookkeeping

LEMMA CloseMapsBooks ==
  ASSUME IInv, Bookkeeping, Protocol, CloseVersion \/ CloseSent \/ CloseRest
  PROVE  Bookkeeping'
<1>1. /\ UNCHANGED <<buffer, server>> /\ editor.at \in ClosedPlaces
      /\ editor'.at \in {"unsending", "forgetting", "idle"} /\ editor'.next = editor.next
      /\ editor'.at = "idle" => sync' = NewSync
      /\ editor'.at # "idle" => sync' = sync
  BY Types DEF CloseVersion, CloseSent, CloseRest, At, Goes, EditorState, ClosedPlaces
<1>2. doc'.version = 0 /\ NothingUnderWay'
  <2>1. NothingUnderWay /\ (editor.at \in {"unsending", "forgetting"} => doc.version = 0)
    BY <1>1 DEF Protocol, CloseIsQuiet, ClosingPlaces, ClosedPlaces
  <2>2. CASE CloseVersion \/ CloseSent
    BY <2>1, <2>2, Types DEF CloseVersion, CloseSent, Unclaimed, Unsent, At, Manager, NothingUnderWay, Sending
  <2>3. CASE CloseRest
    BY <2>1, <2>3, Dropped DEF CloseRest, At
  <2>4. QED
    BY <2>2, <2>3
<1>3. SyncIsSound(sync)'
  BY <1>1 DEF Bookkeeping, SyncIsSound, NewSync, NoVersion, Loaded
<1>4. SyncIsTrue(sync)' /\ TargetIsReal' /\ QueuedIsNoted'
  BY <1>1, <1>2 DEF SyncIsTrue, TargetIsReal, QueuedIsNoted
<1>5. OpenedIsKnown'
  BY <1>1, <1>2 DEF Bookkeeping, OpenedIsKnown, NewSync, ClosedPlaces
<1>6. FirstClaim' /\ StrictlyNewer' /\ FlushProgress'
  BY <1>1, <1>2, MoreTypes DEF Bookkeeping, FirstClaim, StrictlyNewer, FlushProgress, NothingUnderWay
<1>7. QED
  BY <1>3, <1>4, <1>5, <1>6 DEF Bookkeeping

LEMMA ForgetBooks ==
  ASSUME IInv, Bookkeeping, Protocol, NEW s \in Servers,
         ForgetVersion(s) \/ ForgetSent(s) \/ ForgetRest(s)
  PROVE  Bookkeeping'
<1>1. UNCHANGED <<buffer, sync, editor, base, server>>
  BY DEF ForgetVersion, ForgetSent, ForgetRest
<1>2. /\ doc'.version = 0 /\ doc'.sent \in {0, doc.sent}
      /\ \/ doc'.pending = doc.pending /\ UNCHANGED flush
         \/ NothingUnderWay'
  <2>1. CASE ForgetVersion(s) \/ ForgetSent(s)
    BY <2>1, Types DEF ForgetVersion, ForgetSent, Moves, Unclaimed, Unsent, Manager, Protocol,
       ForgettingIsQuiet
  <2>2. CASE ForgetRest(s)
    BY <2>2, Dropped DEF ForgetRest, Moves, Protocol, ForgettingIsQuiet
  <2>3. QED
    BY <2>1, <2>2
<1>3. SyncIsSound(sync)' /\ SyncIsTrue(sync)' /\ OpenedIsKnown' /\ TargetIsReal' /\ QueuedIsNoted'
  BY <1>1, <1>2 DEF Bookkeeping, SyncIsSound, SyncIsTrue, OpenedIsKnown, TargetIsReal, QueuedIsNoted, Loaded
<1>4. FirstClaim'
  BY <1>1, <1>2 DEF Bookkeeping, FirstClaim, NothingUnderWay, Sending
<1>5. StrictlyNewer'
  BY <1>1, <1>2, Types DEF Bookkeeping, StrictlyNewer, NothingUnderWay, Sending
<1>6. FlushProgress'
  BY <1>1, <1>2 DEF Bookkeeping, FlushProgress, NothingUnderWay, Sending, Has
<1>7. QED
  BY <1>3, <1>4, <1>5, <1>6 DEF Bookkeeping

LEMMA BooksStep == IInv /\ PInv /\ BInv /\ [Next]_vars => BInv'
<1> SUFFICES ASSUME IInv, PInv, BInv, [Next]_vars, mishaps' = {} PROVE Bookkeeping'
  BY DEF BInv
<1>1. Protocol /\ Bookkeeping
  BY MishapsStay DEF PInv, BInv
<1>2. CASE User \/ Tick
  BY <1>1, <1>2, UserBooks
<1>3. CASE Editing
  BY <1>1, <1>3, MoveBooks, RetryBooks, EnsureBooks, StreamBooks, RefreshBooks, ClaimBooks, EndOpeningBooks,
     OpenBooks, BumpBooks, QueueBooks, NoteBooks, CloseBooks, CloseMapsBooks DEF Editing
<1>4. ASSUME NEW f \in Flushers, Flushing(f) PROVE Bookkeeping'
  BY <1>1, <1>4, TakeBooks, EndFlushBooks, SendBooks, SendFailsBooks DEF Flushing
<1>5. ASSUME NEW s \in Servers, Restarting(s) \/ StartLate(s) \/ Die(s) PROVE Bookkeeping'
  BY <1>1, <1>5, ServerBooks, ForgetBooks DEF Restarting
<1>6. CASE UNCHANGED vars
  BY <1>1, <1>6 DEF vars, Bookkeeping, SyncIsSound, SyncIsTrue, OpenedIsKnown, TargetIsReal, FirstClaim,
     StrictlyNewer, UnderWayIs, QueuedIsNoted, FlushProgress, AllHave, Has, Sending, NothingUnderWay, Loaded
<1>7. QED
  BY <1>2, <1>3, <1>4, <1>5, <1>6 DEF Next

LEMMA BooksInit == Init => BInv
<1> SUFFICES ASSUME Init PROVE Bookkeeping
  BY DEF BInv
<1>1. /\ editor.at = "idle" /\ editor.next = "idle" /\ doc.version = 0 /\ doc.sent = 0
      /\ doc.pending = NoChange /\ \A f \in Flushers : ~flush[f].sending
      /\ server[Primary].at # "absent" /\ buffer \in Texts
  BY SyncAssumption DEF Init, Idle, NewManager, NewServer, NoFlush
<1>2. /\ sync.target = NoVersion /\ sync.queued = NoText /\ sync.flushed = NoText /\ ~sync.opened
  BY DEF Init, NewSync
<1>3. QED
  BY <1>1, <1>2 DEF Bookkeeping, SyncIsSound, SyncIsTrue, OpenedIsKnown, TargetIsReal, FirstClaim,
     StrictlyNewer, QueuedIsNoted, FlushProgress, Sending, NoVersion

LEMMA BooksInvariant == Spec => []BInv
<1>1. IInv /\ PInv /\ BInv /\ [Next]_vars => BInv'
  BY BooksStep
<1>2. QED
  BY BooksInit, <1>1, Invariant, ProtocolInvariant, PTL DEF Spec

(* When ensure_lsp_document_synced finds nothing to do, whoever was opened the *)
(* document has the buffer: a request is never answered from an older text, except *)
(* where the properties say that something went wrong for good                    *)
(* (lsp_integration, document_sync_request_plan and                              *)
(* reconcile_document_sync_with_manager).                                         *)
THEOREM RequestsAreCurrent == Spec => []RequestsSeeCurrentText
<1>1. ASSUME IInv, PInv, BInv PROVE RequestsSeeCurrentText
  <2> DEFINE st == Reconciled(sync)
  <2>1. SUFFICES ASSUME editor.at = "ensuring", PlanOf(st) = "nothing", mishaps = {},
                        NEW s \in Servers, base[s] # Unopened, server[s].at = "up"
                 PROVE  server[s].open /\ server[s].text = buffer
    BY DEF RequestsSeeCurrentText, Synced, At
  <2>2. Protocol /\ Bookkeeping
    BY <1>1, <2>1 DEF PInv, BInv
  <2>3. Believes(st)
    BY <1>1, <2>1, <2>2, ReconciledIsSound
  <2> HIDE DEF st
  <2>4. server[s].open
    BY <2>1, <2>2 DEF Protocol, RecordedIsOpen, ClosedPlaces
  <2>5. doc.version # 0
    BY <1>1, <2>1, <2>2, <2>4, NobodyOpen DEF ClosedPlaces
  <2>6. st.opened /\ ~st.modified
    BY <2>1 DEF PlanOf
  <2>7. Loaded /\ buffer # NoText
    BY <1>1, <2>1 DEF IInv, EditorHasBuffer, Loaded
  <2>8. st.flushed = buffer /\ st.target = NoVersion
    BY <2>3, <2>6, <2>7 DEF Believes, SyncIsSound
  <2>9. AllHave(buffer)
    BY <2>1, <2>3, <2>5, <2>7, <2>8 DEF Believes, SyncIsTrue
  <2>10. QED
    BY <2>1, <2>4, <2>9 DEF AllHave, Has, Joining
<1>2. QED
  BY <1>1, Invariant, ProtocolInvariant, BooksInvariant, PTL
==============================================================================
