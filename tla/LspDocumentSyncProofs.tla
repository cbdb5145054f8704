------------------------- MODULE LspDocumentSyncProofs -------------------------
(***************************************************************************)
(* Theorems about LspDocumentSync, for any group of servers, any texts and   *)
(* any budget.  The editor's task is one sequential program, so what it may  *)
(* assume of the buffer follows from its place (Editing needs a loaded       *)
(* buffer until the close); the servers are told apart by whether they are   *)
(* alive, because a message to a dead one changes nothing but the record of  *)
(* what it was sent.                                                         *)
(*                                                                          *)
(* That the messages fit needs an invariant over all the maps of the manager, *)
(* in the second half: what server_documents records is open, nothing is on   *)
(* its way during a close or while a document is forgotten, a claim comes      *)
(* before everything else, and the versions that the servers have are older    *)
(* than those on their way.  It holds until something goes wrong that the code *)
(* does not make good (mishaps), as the property says.                        *)
(***************************************************************************)
EXTENDS LspDocumentSync, TLAPS

(* The places of the editor's task on its way to a close. *)
ClosingPlaces == {"closing", "unclaiming", "unsending", "forgetting"}

(* The buffer is loaded wherever the task sends it. *)
EditorHasBuffer ==
    /\ editor.at \in {"joining", "ensuring", "claiming", "opening", "changing", "bumping",
                      "queueing", "noting", "refreshing"} => Loaded
    /\ editor.at = "flushing" /\ editor.next # "closing" => Loaded
    /\ editor.next = "closing" => editor.at = "flushing"

(* The task waits for a flush of its own. *)
EditorAwaitsFlush == flush["editor"].sending => editor.at = "flushing"

(* A flush under way has a change. *)
FlushHasChange == \A f \in Flushers : flush[f].sending => flush[f].change \in Change

(* A server that is not alive has no document. *)
DeadHasNothing == \A s \in Servers : server[s].at # "up" => ~server[s].open

IInv ==
    /\ TypeOK /\ EditorHasBuffer /\ EditorAwaitsFlush
    /\ FlushHasChange /\ DeadHasNothing /\ BaselineIsServerText
-----------------------------------------------------------------------------
(* Helpers: what the book-keeping of the editor and the messages to a server    *)
(* are made of.                                                                *)

LEMMA Markers == NoText \notin Texts /\ Unopened \notin Texts /\ Unknown \notin Texts
  BY SyncAssumption

LEMMA Max2Type == ASSUME NEW a \in Nat, NEW b \in Nat PROVE Max2(a, b) \in Nat
  BY DEF Max2

LEMMA IdleType == Idle \in EditorState
  BY DEF Idle, EditorState

LEMMA NewSyncType == NewSync \in SyncState
  BY DEF NewSync, SyncState

LEMMA MarkFlushedType ==
  ASSUME NEW st \in SyncState, NEW text \in Texts \cup {NoText}, NEW version
  PROVE  MarkFlushed(st, text, version) \in SyncState
<1> DEFINE caughtUp == st.target # NoVersion /\ st.target <= version
           target == IF caughtUp THEN NoVersion ELSE st.target
           queued == IF caughtUp /\ st.queued = text THEN NoText ELSE st.queued
           modified == Loaded /\ (buffer # text \/ target # NoVersion)
<1>1. /\ target \in Nat \cup {NoVersion} /\ queued \in Texts \cup {NoText}
      /\ modified \in BOOLEAN
  BY DEF SyncState
<1>2. MarkFlushed(st, text, version) =
         [st EXCEPT !.flushed = text, !.target = target, !.queued = queued, !.modified = modified]
  BY DEF MarkFlushed
<1> HIDE DEF target, queued, modified
<1>3. QED
  BY <1>1, <1>2 DEF SyncState

LEMMA MarkOpenFlushedType ==
  ASSUME NEW st \in SyncState, NEW text \in Texts \cup {NoText}, NEW version
  PROVE  MarkOpenFlushed(st, text, version) \in SyncState
<1>1. [st EXCEPT !.opened = TRUE] \in SyncState
  BY DEF SyncState
<1>2. QED
  BY <1>1, MarkFlushedType DEF MarkOpenFlushed

LEMMA ReconciledType ==
  ASSUME NEW st \in SyncState, buffer \in Texts \cup {NoText}
  PROVE  Reconciled(st) \in SyncState
<1> DEFINE newest(x) == IF x.queued # NoText THEN x.queued ELSE buffer
           noticed == IF doc.sent > 0 THEN [st EXCEPT !.opened = TRUE] ELSE st
           seeded == IF doc.sent > 0 /\ noticed.flushed = NoText /\ ~noticed.force
                     THEN MarkFlushed(noticed, newest(noticed), doc.sent) ELSE noticed
<1>1. noticed \in SyncState
  BY DEF SyncState
<1>2. ASSUME NEW x \in SyncState PROVE newest(x) \in Texts \cup {NoText}
  BY DEF SyncState
<1> HIDE DEF noticed, newest
<1>3. seeded \in SyncState
  BY <1>1, <1>2, MarkFlushedType
<1> HIDE DEF seeded
<1>4. MarkFlushed(seeded, newest(seeded), doc.sent) \in SyncState
  BY <1>2, <1>3, MarkFlushedType
<1>5. Reconciled(st) \in {st, seeded, MarkFlushed(seeded, newest(seeded), doc.sent)}
  BY DEF Reconciled, seeded, noticed, newest
<1>6. QED
  BY <1>3, <1>4, <1>5

LEMMA MessageTypes ==
  ASSUME NEW sv \in ServerState, NEW text \in Texts, NEW version \in Nat, NEW from,
         NEW change \in Change
  PROVE  /\ Opened(sv, text, version) \in ServerState
         /\ Opened(sv, text, version).at = sv.at /\ Opened(sv, text, version).text = text
         /\ Changed(sv, from, change) \in ServerState
         /\ Changed(sv, from, change).at = sv.at /\ Changed(sv, from, change).text = change.text
         /\ Changed(sv, from, change).open = sv.open
         /\ Closed(sv) \in ServerState /\ Closed(sv).at = sv.at /\ ~Closed(sv).open
<1>1. change.text \in Texts /\ change.version \in Nat
  BY DEF Change
<1>2. (sv.sound /\ sv.open /\ change.version >= sv.version /\ from \in {Unknown, sv.text}) \in BOOLEAN
  OBVIOUS
<1>3. QED
  BY <1>1, <1>2 DEF Opened, Changed, Closed, ServerState

LEMMA NewServerTypes ==
  ASSUME NEW sound \in BOOLEAN
  PROVE  /\ NewServer \in ServerState /\ ~NewServer.open
         /\ [NewServer EXCEPT !.sound = sound] \in ServerState
         /\ ~[NewServer EXCEPT !.sound = sound].open
         /\ [NewServer EXCEPT !.at = "down", !.sound = sound] \in ServerState
         /\ ~[NewServer EXCEPT !.at = "down", !.sound = sound].open
         /\ [NewServer EXCEPT !.at = "absent"] \in ServerState
         /\ ~[NewServer EXCEPT !.at = "absent"].open
  BY DEF NewServer, ServerState

LEMMA SpendsType ==
  ASSUME left \in [edits : Nat, crashes : Nat, faults : Nat, starts : Nat],
         NEW what \in {"edits", "crashes", "faults", "starts"}, Spends(what)
  PROVE  left' \in [edits : Nat, crashes : Nat, faults : Nat, starts : Nat]
<1>1. left[what] \in Nat /\ left[what] > 0 /\ left[what] - 1 \in Nat
  BY DEF Spends
<1>2. left' = [left EXCEPT ![what] = left[what] - 1]
  BY DEF Spends
<1>3. QED
  BY <1>1, <1>2

LEMMA MishapType ==
  ASSUME mishaps \subseteq Mishaps, NEW m \in Mishaps, NEW happens, Mishap(m, happens)
  PROVE  mishaps' \subseteq Mishaps
  BY DEF Mishap

-----------------------------------------------------------------------------
(* Types. *)

LEMMA FlushHasIts ==
  ASSUME IInv, NEW f \in Flushers, flush[f].sending
  PROVE  flush[f].change \in Change /\ flush[f].change.text \in Texts /\ flush[f].change.version \in Nat
  BY DEF IInv, FlushHasChange, Change

LEMMA NoFlushType ==
  /\ NoFlush \in FlushState
  /\ \A c \in Change, todo \in SUBSET Servers :
        /\ [NoFlush EXCEPT !.sending = TRUE, !.change = c, !.todo = todo] \in FlushState
        /\ [NoFlush EXCEPT !.sending = TRUE, !.change = c, !.todo = todo].change = c
  BY DEF NoFlush, FlushState

LEMMA PendingIsChange ==
  ASSUME IInv, doc.pending # NoChange
  PROVE  doc.pending \in Change
  BY DEF IInv, TypeOK, Manager

(* A message to a server leaves a server. *)
LEMMA ReachesType ==
  ASSUME server \in [Servers -> ServerState], NEW s \in Servers, NEW m \in ServerState, Reaches(s, m)
  PROVE  server' \in [Servers -> ServerState]
  BY DEF Reaches

LEMMA UserTypes == IInv /\ (User \/ Tick) => TypeOK'
<1> SUFFICES ASSUME IInv, User \/ Tick PROVE TypeOK'
  OBVIOUS
<1>1. TypeOK
  BY DEF IInv
<1> USE <1>1 DEF TypeOK
<1>2. CASE Edit
  <2>1. left' \in [edits : Nat, crashes : Nat, faults : Nat, starts : Nat]
    BY <1>2, SpendsType DEF Edit
  <2>2. sync' \in SyncState
    BY <1>2 DEF Edit, SyncState
  <2>3. QED
    BY <1>2, <2>1, <2>2 DEF Edit
<1>3. CASE Reload
  <2>1. left' \in [edits : Nat, crashes : Nat, faults : Nat, starts : Nat]
    BY <1>3, SpendsType DEF Reload
  <2>2. sync' \in SyncState
    BY <1>3 DEF Reload, SyncState
  <2>3. QED
    BY <1>3, <2>1, <2>2 DEF Reload
<1>4. CASE Unload
  <2>1. left' \in [edits : Nat, crashes : Nat, faults : Nat, starts : Nat]
    BY <1>4, SpendsType DEF Unload
  <2>2. editor' \in EditorState
    BY <1>4, IdleType DEF Unload, EditorState
  <2>3. QED
    BY <1>4, <2>1, <2>2 DEF Unload
<1>5. CASE Load
  BY <1>5 DEF Load
<1>6. CASE Request
  <2>1. editor' \in EditorState
    BY <1>6, IdleType DEF Request, EditorState
  <2>2. QED
    BY <1>6, <2>1 DEF Request
<1>7. CASE Tick
  <2>1. editor' \in EditorState
    BY <1>7 DEF Tick, Goes, EditorState
  <2>2. QED
    BY <1>7, <2>1, NewSyncType DEF Tick
<1>8. QED
  BY <1>2, <1>3, <1>4, <1>5, <1>6, <1>7 DEF User

(* What Returns makes of the editor. *)
LEMMA ReturnsType ==
  ASSUME editor \in EditorState
  PROVE  /\ [Idle EXCEPT !.at = editor.next] \in EditorState
         /\ [Idle EXCEPT !.at = editor.next].at = editor.next
         /\ [Idle EXCEPT !.at = editor.next].next = "idle"
  BY IdleType DEF EditorState, Idle

LEMMA EditingTypes == IInv /\ Editing => TypeOK'
<1> SUFFICES ASSUME IInv, Editing PROVE TypeOK'
  OBVIOUS
<1>1. TypeOK
  BY DEF IInv
<1> USE <1>1 DEF TypeOK
<1>2. CASE Join
  <2>1. editor' \in EditorState
    BY <1>2, IdleType DEF Join, EditorState
  <2>2. QED
    BY <1>2, <2>1 DEF Join
<1>3. CASE RetryTimeComes
  <2>1. sync' \in SyncState
    BY <1>3 DEF RetryTimeComes, SyncState
  <2>2. QED
    BY <1>3, <2>1 DEF RetryTimeComes
<1>4. CASE Ensure
  <2>1. sync' \in SyncState
    BY <1>4, ReconciledType DEF Ensure
  <2>2. editor' \in EditorState
    <3> HIDE DEF TypeOK
    <3>1. \/ editor' = [editor EXCEPT !.at = "claiming", !.first = TRUE]
          \/ editor' = [editor EXCEPT !.at = "flushing"]
          \/ editor' = [editor EXCEPT !.at = "bumping"]
          \/ editor' = [Idle EXCEPT !.at = editor.next]
      BY <1>4 DEF Ensure
    <3>2. editor \in EditorState
      BY DEF TypeOK
    <3>3. QED
      BY <3>1, <3>2, ReturnsType DEF EditorState
  <2>3. QED
    BY <1>4, <2>1, <2>2 DEF Ensure
<1>5. CASE StreamChanges
  <2> DEFINE st == IF NeedsReconcile(sync) THEN Reconciled(sync) ELSE sync
             clean == [st EXCEPT !.modified = FALSE, !.queued = NoText]
  <2>1. st \in SyncState
    BY ReconciledType
  <2>2. clean \in SyncState
    BY ZenonT(40), <2>1 DEF SyncState
  <2>3. sync' \in {st, clean}
    BY <1>5 DEF StreamChanges
  <2>4. editor' \in EditorState
    <3>1. \/ editor' = [Idle EXCEPT !.at = "bumping", !.next = "refreshing"]
          \/ editor' = [Idle EXCEPT !.at = "refreshing"]
      BY <1>5 DEF StreamChanges
    <3>2. [Idle EXCEPT !.at = "refreshing"] \in EditorState
      BY IdleType DEF EditorState
    <3>3. [Idle EXCEPT !.at = "bumping", !.next = "refreshing"] \in EditorState
      <4> DEFINE bumping == [Idle EXCEPT !.at = "bumping"]
      <4>1. bumping \in EditorState
        BY IdleType DEF EditorState
      <4>2. [Idle EXCEPT !.at = "bumping", !.next = "refreshing"] = [bumping EXCEPT !.next = "refreshing"]
        OBVIOUS
      <4> HIDE DEF bumping
      <4>3. QED
        BY <4>1, <4>2 DEF EditorState
    <3>4. QED
      BY <3>1, <3>2, <3>3
  <2> HIDE DEF st, clean
  <2>5. QED
    BY <1>5, <2>1, <2>2, <2>3, <2>4 DEF StreamChanges
<1>6. CASE Refresh
  <2>1. sync' \in SyncState
    BY <1>6, ReconciledType DEF Refresh
  <2>2. editor' \in EditorState
    BY <1>6 DEF Refresh, Goes, EditorState
  <2>3. QED
    BY <1>6, <2>1, <2>2 DEF Refresh
<1>7. CASE Claim
  <2>1. doc.sent \in Nat /\ doc.version \in Nat /\ 0 \in Nat /\ 1 \in Nat
    BY DEF Manager
  <2>2. Max2(doc.sent, 1) \in Nat /\ Max2(doc.version, 1) \in Nat
    BY <2>1, Max2Type
  <2>3. Group \in SUBSET Servers /\ (doc.version = 0) \in BOOLEAN
    BY DEF Group
  <2>4. editor' \in EditorState
    BY <1>7, <2>1, <2>2, <2>3 DEF Claim, EditorState
  <2>5. doc' \in Manager
    BY <1>7, <2>2 DEF Claim, Manager
  <2>6. mishaps' \subseteq Mishaps
    BY <1>7, MishapType DEF Claim, Mishaps
  <2>7. QED
    BY <1>7, <2>4, <2>5, <2>6 DEF Claim
<1>8. CASE EndOpening
  <2> DEFINE sent == IF editor.delivered /\ doc.sent = 0 THEN editor.version ELSE doc.sent
             refused == editor.tried /\ ~editor.delivered
             version == IF refused /\ editor.claimed THEN 0 ELSE doc.version
  <2>1. sent \in Nat /\ version \in Nat
    BY DEF Manager, EditorState
  <2>2. doc' = [doc EXCEPT !.version = version, !.sent = sent]
    BY <1>8 DEF EndOpening
  <2>3. sync' \in {sync, [sync EXCEPT !.later = TRUE], MarkOpenFlushed(sync, buffer, sent)}
    BY <1>8 DEF EndOpening
  <2>4. editor' \in EditorState
    BY <1>8, ReturnsType DEF EndOpening, Returns
  <2>5. mishaps' \subseteq Mishaps
    BY <1>8, MishapType DEF EndOpening, Mishaps
  <2> HIDE DEF sent, version
  <2>6. doc' \in Manager
    BY <2>1, <2>2 DEF Manager
  <2>7. [sync EXCEPT !.later = TRUE] \in SyncState /\ MarkOpenFlushed(sync, buffer, sent) \in SyncState
    BY MarkOpenFlushedType DEF SyncState
  <2>8. QED
    BY <1>8, <2>3, <2>4, <2>5, <2>6, <2>7 DEF EndOpening
<1>9. ASSUME NEW s \in Servers, FindOpen(s) PROVE TypeOK'
  <2>1. editor' \in EditorState
    BY <1>9 DEF FindOpen, EditorState
  <2>2. QED
    BY <1>9, <2>1 DEF FindOpen
<1>10. ASSUME NEW s \in Servers, OpenOn(s) PROVE TypeOK'
  <2>1. buffer \in Texts
    BY <1>10 DEF OpenOn, IInv, EditorHasBuffer, At, Loaded
  <2>2. editor' \in EditorState /\ editor.version \in Nat
    BY <1>10 DEF OpenOn, EditorState
  <2>3. Opened(server[s], buffer, editor.version) \in ServerState
    BY <2>1, <2>2 DEF Opened, ServerState
  <2>4. server' \in [Servers -> ServerState]
    BY <1>10, <2>3, ReachesType DEF OpenOn
  <2>5. mishaps' \subseteq Mishaps
    BY <1>10, MishapType DEF OpenOn, Mishaps
  <2>6. base' \in [Servers -> Texts \cup {Unopened, Unknown}]
    BY <1>10, <2>1 DEF OpenOn
  <2>7. QED
    BY <1>10, <2>2, <2>4, <2>5, <2>6 DEF OpenOn, Accepts
<1>11. ASSUME NEW s \in Servers, OpenIsRefused(s) PROVE TypeOK'
  <2>1. editor' \in EditorState
    BY <1>11 DEF OpenIsRefused, EditorState
  <2>2. left' \in [edits : Nat, crashes : Nat, faults : Nat, starts : Nat]
    BY <1>11, SpendsType DEF OpenIsRefused, Refuses
  <2>3. QED
    BY <1>11, <2>1, <2>2 DEF OpenIsRefused
<1>12. CASE Bump
  <2>1. doc.version + 1 \in Nat
    BY DEF Manager
  <2>2. doc' \in Manager
    BY <1>12, <2>1 DEF Bump, Manager
  <2>3. editor' \in EditorState
    BY <1>12, <2>1 DEF Bump, EditorState
  <2>4. mishaps' \subseteq Mishaps
    BY <1>12, MishapType DEF Bump, Mishaps
  <2>5. QED
    BY <1>12, <2>2, <2>3, <2>4 DEF Bump
<1>13. CASE Queue
  <2>1. buffer \in Texts /\ editor.version \in Nat
    BY <1>13 DEF Queue, IInv, EditorHasBuffer, At, Loaded, EditorState
  <2>2. [text |-> buffer, version |-> editor.version] \in Change
    BY <2>1 DEF Change
  <2>3. doc' \in Manager
    BY <1>13, <2>2 DEF Queue, Manager
  <2>4. editor' \in EditorState
    BY <1>13 DEF Queue, Goes, EditorState
  <2>5. mishaps' \subseteq Mishaps
    BY <1>13, MishapType DEF Queue, Mishaps
  <2>6. base' \in [Servers -> Texts \cup {Unopened, Unknown}]
    BY <1>13 DEF Queue
  <2>7. QED
    BY <1>13, <2>3, <2>4, <2>5, <2>6 DEF Queue
<1>14. CASE NoteQueued
  <2> DEFINE marked == MarkQueued(sync, buffer, doc.version)
  <2>1. marked \in SyncState
    BY DEF MarkQueued, SyncState, Manager
  <2>2. sync' = [marked EXCEPT !.force = marked.force /\ editor.next # "refreshing"]
    BY <1>14 DEF NoteQueued
  <2> HIDE DEF marked
  <2>3. sync' \in SyncState
    BY <2>1, <2>2 DEF SyncState
  <2>4. editor' \in EditorState
    BY <1>14, ReturnsType DEF NoteQueued, Returns, Goes, EditorState
  <2>5. QED
    BY <1>14, <2>3, <2>4 DEF NoteQueued
<1>15. CASE NothingToFlush
  BY <1>15, ReturnsType DEF NothingToFlush, Returns
<1>16. CASE CloseOnServers
  <2>1. editor' \in EditorState
    BY <1>16 DEF CloseOnServers, Goes, EditorState
  <2>2. server' \in [Servers -> ServerState]
    <3>1. \A s \in Servers : Closed(server[s]) \in ServerState
      BY ZenonT(40) DEF Closed, ServerState
    <3>2. PICK deaf \in SUBSET Servers :
             server' = [s \in Servers |->
               IF base[s] # Unopened /\ server[s].at = "up" /\ s \notin deaf
               THEN Closed(server[s]) ELSE server[s]]
      BY <1>16 DEF CloseOnServers, Group
    <3>3. QED
      BY <3>1, <3>2
  <2>3. left' \in [edits : Nat, crashes : Nat, faults : Nat, starts : Nat]
    BY <1>16, SpendsType DEF CloseOnServers
  <2>4. mishaps' \subseteq Mishaps
    BY <1>16, MishapType DEF CloseOnServers, Mishaps
  <2>5. QED
    BY <1>16, <2>1, <2>2, <2>3, <2>4 DEF CloseOnServers
<1>17. CASE CloseVersion \/ CloseSent
  <2>1. editor' \in EditorState
    BY <1>17 DEF CloseVersion, CloseSent, Goes, EditorState
  <2>2. doc' \in Manager
    BY <1>17 DEF CloseVersion, CloseSent, Unclaimed, Unsent, Manager
  <2>3. QED
    BY <1>17, <2>1, <2>2 DEF CloseVersion, CloseSent
<1>18. CASE CloseRest
  <2>1. editor' \in EditorState
    BY <1>18 DEF CloseRest, Goes, EditorState
  <2>2. doc' \in Manager
    BY <1>18 DEF CloseRest, DropDebouncer, Manager
  <2>3. flush' \in [Flushers -> FlushState]
    BY <1>18 DEF CloseRest, DropDebouncer, FlushState
  <2>4. base' \in [Servers -> Texts \cup {Unopened, Unknown}]
    BY <1>18 DEF CloseRest
  <2>5. QED
    BY <1>18, <2>1, <2>2, <2>3, <2>4, NewSyncType DEF CloseRest
<1>19. QED
  BY <1>2, <1>3, <1>4, <1>5, <1>6, <1>7, <1>8, <1>9, <1>10, <1>11, <1>12, <1>13, <1>14, <1>15,
     <1>16, <1>17, <1>18 DEF Editing

LEMMA FlushingTypes == IInv /\ (\E f \in Flushers : Flushing(f)) => TypeOK'
<1> SUFFICES ASSUME IInv, NEW f \in Flushers, Flushing(f) PROVE TypeOK'
  OBVIOUS
<1>1. TypeOK
  BY DEF IInv
<1> USE <1>1 DEF TypeOK
<1>2. CASE Take(f)
  <2>1. doc.pending \in Change
    BY <1>2, PendingIsChange DEF Take
  <2>2. Group \in SUBSET Servers
    BY DEF Group
  <2>3. flush' \in [Flushers -> FlushState]
    BY <1>2, <2>1, <2>2, NoFlushType DEF Take
  <2>4. doc' \in Manager
    BY <1>2 DEF Take, Manager
  <2>5. QED
    BY <1>2, <2>3, <2>4 DEF Take
<1>3. CASE EndFlush(f)
  <2>1. flush[f].sending
    BY <1>3 DEF EndFlush
  <2>2. flush[f].change \in Change /\ flush[f].change.text \in Texts
        /\ flush[f].change.version \in Nat
    BY <2>1, FlushHasIts
  <2> DEFINE change == flush[f].change
  <2>3. doc' \in {doc, [doc EXCEPT !.pending = change], [doc EXCEPT !.sent = change.version]}
    BY <1>3 DEF EndFlush
  <2>4. sync' \in {sync, NewSync, MarkOpenFlushed(sync, change.text, change.version)}
    BY <1>3 DEF EndFlush
  <2>5. editor' \in {editor, Idle, [Idle EXCEPT !.at = editor.next]}
    BY <1>3 DEF EndFlush
  <2>6. mishaps' \subseteq mishaps \cup {"close cut short", "used while forgotten"}
    BY <1>3 DEF EndFlush
  <2>7. MarkOpenFlushed(sync, change.text, change.version) \in SyncState
    BY <2>2, MarkOpenFlushedType
  <2>8. flush' = [flush EXCEPT ![f] = NoFlush]
        /\ UNCHANGED <<buffer, base, server, restart, left>>
    BY <1>3 DEF EndFlush
  <2> HIDE DEF change
  <2>9. doc' \in Manager
    BY <2>2, <2>3 DEF Manager, change
  <2>10. flush' \in [Flushers -> FlushState]
    BY <2>8, NoFlushType
  <2>11. editor' \in EditorState
    BY <2>5, IdleType, ReturnsType
  <2>12. sync' \in SyncState
    BY <2>4, <2>7, NewSyncType
  <2>13. mishaps' \subseteq Mishaps
    BY <2>6 DEF Mishaps
  <2>14. QED
    BY <2>8, <2>9, <2>10, <2>11, <2>12, <2>13
<1>4. ASSUME NEW s \in Servers, Send(f, s) PROVE TypeOK'
  <2> DEFINE change == flush[f].change
  <2>1. change \in Change /\ change.text \in Texts /\ change.version \in Nat
    BY <1>4, FlushHasIts DEF Send
  <2>2. server[s] \in ServerState
    OBVIOUS
  <2>3. /\ Opened(server[s], change.text, change.version) \in ServerState
        /\ Changed(server[s], base[s], change) \in ServerState
    BY <2>1, <2>2, MessageTypes
  <2>4. \/ Reaches(s, Opened(server[s], change.text, change.version))
        \/ Reaches(s, Changed(server[s], base[s], change))
        \/ UNCHANGED server
    BY <1>4 DEF Send
  <2>5. base' = [base EXCEPT ![s] = change.text]
    BY <1>4 DEF Send
  <2> HIDE DEF change
  <2>6. server' \in [Servers -> ServerState]
    BY <2>3, <2>4, ReachesType
  <2>7. base' \in [Servers -> Texts \cup {Unopened, Unknown}]
    BY <2>1, <2>5
  <2>8. flush' \in [Flushers -> FlushState]
    <3>1. flush[f] \in FlushState /\ flush[f].todo \ {s} \in SUBSET Servers
      BY DEF FlushState
    <3>2. [flush[f] EXCEPT !.todo = flush[f].todo \ {s}, !.synced = TRUE] \in FlushState
      BY <3>1 DEF FlushState
    <3>3. flush' = [flush EXCEPT ![f] =
                       [flush[f] EXCEPT !.todo = flush[f].todo \ {s}, !.synced = TRUE]]
      BY <1>4 DEF Send
    <3>4. QED
      BY <3>2, <3>3
  <2>9. mishaps' \subseteq Mishaps
    BY <1>4, MishapType DEF Send, Mishaps
  <2>10. QED
    BY <1>4, <2>6, <2>7, <2>8, <2>9 DEF Send, Accepts
<1>5. ASSUME NEW s \in Servers, SendFails(f, s) PROVE TypeOK'
  <2>1. left' \in [edits : Nat, crashes : Nat, faults : Nat, starts : Nat]
    BY <1>5, SpendsType DEF SendFails, Refuses
  <2> DEFINE retry == flush[f].retry \/ server[s].at = "up"
  <2>2. flush[f] \in FlushState /\ flush[f].todo \ {s} \in SUBSET Servers
        /\ retry \in BOOLEAN
    BY DEF FlushState
  <2>3. flush' = [flush EXCEPT ![f] =
                     [flush[f] EXCEPT !.todo = flush[f].todo \ {s}, !.retry = retry]]
    BY <1>5 DEF SendFails
  <2> HIDE DEF retry
  <2>4. [flush[f] EXCEPT !.todo = flush[f].todo \ {s}, !.retry = retry] \in FlushState
    BY <2>2 DEF FlushState
  <2>5. flush' \in [Flushers -> FlushState]
    BY <2>3, <2>4
  <2>6. UNCHANGED <<buffer, sync, editor, doc, base, server, restart, mishaps>>
    BY <1>5 DEF SendFails
  <2>7. QED
    BY <2>1, <2>5, <2>6
<1>6. QED
  BY <1>2, <1>3, <1>4, <1>5 DEF Flushing

LEMMA ServerTypes ==
  IInv /\ (\E s \in Servers : Restarting(s) \/ StartLate(s) \/ Die(s)) => TypeOK'
<1> SUFFICES ASSUME IInv, NEW s \in Servers, Restarting(s) \/ StartLate(s) \/ Die(s)
             PROVE  TypeOK'
  OBVIOUS
<1>1. TypeOK
  BY DEF IInv
<1> USE <1>1 DEF TypeOK
<1>2. server[s].sound \in BOOLEAN
  BY DEF ServerState
<1>3. CASE StartRestart(s)
  BY <1>3 DEF StartRestart, Moves, Restarts
<1>4. CASE RestartFails(s)
  <2>1. left' \in [edits : Nat, crashes : Nat, faults : Nat, starts : Nat]
    BY <1>4, SpendsType DEF RestartFails
  <2>2. QED
    BY <1>4, <2>1 DEF RestartFails, Moves, Restarts
<1>5. CASE Respawn(s)
  <2>1. server' \in [Servers -> ServerState]
    BY <1>2, <1>5, NewServerTypes DEF Respawn
  <2>2. base' \in [Servers -> Texts \cup {Unopened, Unknown}]
    BY <1>5 DEF Respawn
  <2>3. restart' \in [Servers -> Restarts]
    BY <1>5 DEF Respawn, Moves, Restarts
  <2>4. QED
    BY <1>5, <2>1, <2>2, <2>3 DEF Respawn
<1>6. CASE ForgetVersion(s) \/ ForgetSent(s)
  <2>1. doc' \in Manager
    BY <1>6 DEF ForgetVersion, ForgetSent, Unclaimed, Unsent, Manager
  <2>2. QED
    BY <1>6, <2>1 DEF ForgetVersion, ForgetSent, Moves, Restarts
<1>7. CASE ForgetRest(s)
  <2>1. doc' \in Manager
    BY <1>7 DEF ForgetRest, DropDebouncer, Manager
  <2>2. flush' \in [Flushers -> FlushState]
    BY <1>7 DEF ForgetRest, DropDebouncer, FlushState
  <2>3. QED
    BY <1>7, <2>1, <2>2 DEF ForgetRest, Moves, Restarts
<1>8. CASE StartLate(s)
  <2>1. left' \in [edits : Nat, crashes : Nat, faults : Nat, starts : Nat]
    BY <1>8, SpendsType DEF StartLate
  <2>2. QED
    BY <1>2, <1>8, <2>1, NewServerTypes DEF StartLate
<1>9. CASE Die(s)
  <2>1. left' \in [edits : Nat, crashes : Nat, faults : Nat, starts : Nat]
    BY <1>9, SpendsType DEF Die
  <2>2. QED
    BY <1>2, <1>9, <2>1, NewServerTypes DEF Die
<1>10. QED
  BY <1>3, <1>4, <1>5, <1>6, <1>7, <1>8, <1>9 DEF Restarting

LEMMA TypeStep == IInv /\ [Next]_vars => TypeOK'
<1> SUFFICES ASSUME IInv, [Next]_vars PROVE TypeOK'
  OBVIOUS
<1>1. CASE Next
  BY <1>1, UserTypes, EditingTypes, FlushingTypes, ServerTypes DEF Next
<1>2. CASE UNCHANGED vars
  BY <1>2 DEF vars, IInv, TypeOK
<1>3. QED
  BY <1>1, <1>2

-----------------------------------------------------------------------------
(* The editor's task, its buffer and its flush. *)

(* A step that leaves the buffer, and moves the task to nothing but a place that needs it. *)
LEMMA EditorStep == IInv /\ [Next]_vars => EditorHasBuffer'
<1> SUFFICES ASSUME IInv, [Next]_vars PROVE EditorHasBuffer'
  OBVIOUS
<1> USE DEF EditorHasBuffer, At, Loaded
<1>1. /\ EditorHasBuffer /\ EditorAwaitsFlush /\ TypeOK /\ editor \in EditorState
      /\ buffer \in Texts \cup {NoText} /\ NoText \notin Texts
  BY Markers DEF IInv, TypeOK
<1>2. /\ [Idle EXCEPT !.at = editor.next].at = editor.next
      /\ [Idle EXCEPT !.at = editor.next].next = "idle"
      /\ Idle.at = "idle" /\ Idle.next = "idle"
  BY <1>1, ReturnsType DEF Idle
<1>3. ASSUME NEW place, Goes(place), editor.at # "flushing"
      PROVE  editor'.at = place /\ editor'.next = editor.next /\ editor'.next # "closing"
  BY <1>1, <1>3 DEF Goes, EditorState
<1>4. CASE Edit \/ Reload \/ Load
  BY <1>1, <1>4 DEF Edit, Reload, Load
<1>5. CASE Unload \/ Request
  BY <1>1, <1>5 DEF Unload, Request, Idle
<1>6. CASE Tick \/ Refresh
  BY <1>1, <1>3, <1>6 DEF Tick, Refresh
<1>7. CASE Join
  BY <1>1, <1>7 DEF Join, Idle
<1>8. CASE Ensure
  <2>1. \/ editor' = [editor EXCEPT !.at = "claiming", !.first = TRUE]
        \/ editor' = [editor EXCEPT !.at = "flushing"]
        \/ editor' = [editor EXCEPT !.at = "bumping"]
        \/ editor' = [Idle EXCEPT !.at = editor.next]
    BY <1>8 DEF Ensure
  <2>2. buffer' = buffer /\ editor.at = "ensuring"
    BY <1>8 DEF Ensure
  <2>3. QED
    BY <1>1, <1>2, <2>1, <2>2 DEF EditorState
<1>9. CASE StreamChanges
  <2>1. \/ editor' = [Idle EXCEPT !.at = "bumping", !.next = "refreshing"]
        \/ editor' = [Idle EXCEPT !.at = "refreshing"]
    BY <1>9 DEF StreamChanges
  <2>2. QED
    BY <1>1, <1>9, <2>1 DEF StreamChanges, Idle
<1>10. CASE Claim \/ \E s \in Servers : FindOpen(s) \/ OpenOn(s) \/ OpenIsRefused(s)
  BY <1>1, <1>10 DEF Claim, FindOpen, OpenOn, OpenIsRefused, EditorState
<1>11. CASE EndOpening
  BY <1>1, <1>2, <1>11 DEF EndOpening, Returns
<1>12. CASE Bump
  BY <1>1, <1>12 DEF Bump, EditorState
<1>13. CASE Queue
  BY <1>1, <1>3, <1>13 DEF Queue
<1>14. CASE NoteQueued
  <2>1. Returns \/ Goes("flushing")
    BY <1>14 DEF NoteQueued
  <2>2. QED
    BY <1>1, <1>2, <1>3, <1>14, <2>1 DEF NoteQueued, Returns
<1>15. CASE NothingToFlush
  BY <1>1, <1>2, <1>15 DEF NothingToFlush, Returns
<1>16. CASE CloseOnServers
  <2>1. editor.at = "closing" /\ Goes("unclaiming") /\ buffer' = buffer
    BY <1>16 DEF CloseOnServers
  <2>2. QED
    BY <1>1, <1>3, <2>1
<1>17. CASE CloseVersion \/ CloseSent \/ CloseRest
  BY <1>1, <1>3, <1>17 DEF CloseVersion, CloseSent, CloseRest
<1>18. CASE RetryTimeComes \/ \E s \in Servers : Restarting(s) \/ StartLate(s) \/ Die(s)
  BY <1>1, <1>18 DEF RetryTimeComes, Restarting, StartRestart, RestartFails, Respawn, ForgetVersion,
                     ForgetSent, ForgetRest, StartLate, Die
<1>19. ASSUME NEW f \in Flushers, Flushing(f) PROVE EditorHasBuffer'
  <2>1. CASE EndFlush(f)
    <3>1. f = "editor" => flush["editor"].sending
      BY <2>1 DEF EndFlush
    <3>2. \/ f # "editor" /\ editor' = editor
          \/ f = "editor" /\ editor' \in {Idle, [Idle EXCEPT !.at = editor.next]}
      BY <2>1 DEF EndFlush
    <3>3. buffer' = buffer
      BY <2>1 DEF EndFlush
    <3>4. QED
      BY <1>1, <1>2, <3>1, <3>2, <3>3 DEF EditorAwaitsFlush
  <2>2. CASE ~EndFlush(f)
    BY <1>1, <1>19, <2>2 DEF Flushing, Take, Send, SendFails
  <2>3. QED
    BY <2>1, <2>2
<1>20. CASE UNCHANGED vars
  BY <1>1, <1>20 DEF vars
<1>21. QED
  BY <1>4, <1>5, <1>6, <1>7, <1>8, <1>9, <1>10, <1>11, <1>12, <1>13, <1>14, <1>15, <1>16, <1>17,
     <1>18, <1>19, <1>20 DEF Next, User, Editing

(* Nothing but the task's own steps moves it, and while its flush is under way    *)
(* none of them is enabled but the end of that flush.                          *)
LEMMA EditorAwaitsStep == IInv /\ [Next]_vars => EditorAwaitsFlush'
<1> SUFFICES ASSUME IInv, [Next]_vars PROVE EditorAwaitsFlush'
  OBVIOUS
<1> USE DEF EditorAwaitsFlush
<1>1. /\ EditorAwaitsFlush /\ flush \in [Flushers -> FlushState] /\ "editor" \in Flushers
      /\ ~NoFlush.sending
  BY DEF IInv, TypeOK, Flushers, NoFlush
<1>2. CASE User \/ Tick \/ RetryTimeComes
  BY <1>1, <1>2 DEF User, Edit, Reload, Unload, Load, Request, Tick, RetryTimeComes, At
<1>3. CASE Editing
  <2>1. CASE CloseRest
    BY <1>1, <2>1 DEF CloseRest, At, DropDebouncer, FlushState
  <2>2. CASE CloseOnServers
    <3>1. editor.at = "closing" /\ flush' = flush
      BY <2>2 DEF CloseOnServers, At
    <3>2. QED
      BY <1>1, <3>1
  <2>3. CASE ~CloseRest /\ ~CloseOnServers /\ ~RetryTimeComes
    BY <1>1, <1>3, <2>3 DEF Editing, Join, Ensure, StreamChanges, Refresh, Claim, EndOpening,
         FindOpen, OpenOn, OpenIsRefused, Bump, Queue, NoteQueued, NothingToFlush, CloseVersion,
         CloseSent, At
  <2>4. QED
    BY <1>2, <2>1, <2>2, <2>3
<1>4. ASSUME NEW f \in Flushers, Flushing(f) PROVE EditorAwaitsFlush'
  <2>1. CASE Take(f)
    BY <1>1, <2>1 DEF Take, At, NoFlush
  <2>2. CASE EndFlush(f)
    <3>1. flush' = [flush EXCEPT ![f] = NoFlush] /\ (f # "editor" => editor' = editor)
      BY <2>2 DEF EndFlush
    <3>2. QED
      BY <1>1, <3>1
  <2>3. ASSUME NEW s \in Servers, Send(f, s) \/ SendFails(f, s) PROVE EditorAwaitsFlush'
    <3>1. /\ editor' = editor
          /\ \E x \in FlushState : flush' = [flush EXCEPT ![f] = x] /\ x.sending = flush[f].sending
      <4>1. flush \in [Flushers -> FlushState] /\ flush[f] \in FlushState
        BY <1>1
      <4>2. CASE Send(f, s)
        <5> DEFINE x == [flush[f] EXCEPT !.todo = @ \ {s}, !.synced = TRUE]
        <5>1. x \in FlushState /\ x.sending = flush[f].sending
          BY <4>1 DEF FlushState
        <5>2. editor' = editor /\ flush' = [flush EXCEPT ![f] = x]
          BY <4>2 DEF Send
        <5>3. QED
          BY <5>1, <5>2
      <4>3. CASE SendFails(f, s)
        <5> DEFINE retry == flush[f].retry \/ server[s].at = "up"
                   x == [flush[f] EXCEPT !.todo = @ \ {s}, !.retry = retry]
        <5>1. editor' = editor /\ flush' = [flush EXCEPT ![f] = x]
          BY <4>3 DEF SendFails
        <5>2. retry \in BOOLEAN
          OBVIOUS
        <5> HIDE DEF retry
        <5>3. x \in FlushState /\ x.sending = flush[f].sending
          BY <4>1, <5>2 DEF FlushState
        <5>4. QED
          BY <5>1, <5>3
      <4>4. QED
        BY <2>3, <4>2, <4>3
    <3>2. flush'["editor"].sending = flush["editor"].sending
      BY <1>1, <3>1
    <3>3. QED
      BY <1>1, <3>1, <3>2
  <2>4. QED
    BY <1>4, <2>1, <2>2, <2>3 DEF Flushing
<1>5. ASSUME NEW s \in Servers, Restarting(s) \/ StartLate(s) \/ Die(s) PROVE EditorAwaitsFlush'
  BY <1>1, <1>5 DEF Restarting, StartRestart, RestartFails, Respawn, ForgetVersion, ForgetSent,
                    ForgetRest, StartLate, Die, DropDebouncer, FlushState
<1>6. CASE UNCHANGED vars
  BY <1>1, <1>6 DEF vars
<1>7. QED
  BY <1>2, <1>3, <1>4, <1>5, <1>6 DEF Next

(* What a notification to one server makes of its flush. *)
LEMMA SendFlush ==
  ASSUME flush \in [Flushers -> FlushState], NEW f \in Flushers, NEW s \in Servers,
         Send(f, s) \/ SendFails(f, s)
  PROVE  \E record \in FlushState :
            /\ flush' = [flush EXCEPT ![f] = record]
            /\ record.sending = flush[f].sending /\ record.change = flush[f].change
<1> DEFINE retry == flush[f].retry \/ server[s].at = "up"
           sent == [flush[f] EXCEPT !.todo = flush[f].todo \ {s}, !.synced = TRUE]
           failed == [flush[f] EXCEPT !.todo = flush[f].todo \ {s}, !.retry = retry]
<1>1. flush[f] \in FlushState /\ flush[f].todo \ {s} \in SUBSET Servers /\ retry \in BOOLEAN
  BY DEF FlushState
<1>2. flush' = [flush EXCEPT ![f] = sent] \/ flush' = [flush EXCEPT ![f] = failed]
  <2>1. CASE Send(f, s)
    BY <2>1 DEF Send
  <2>2. CASE SendFails(f, s)
    BY <2>2 DEF SendFails
  <2>3. QED
    BY <2>1, <2>2
<1> HIDE DEF retry
<1>3. /\ sent \in FlushState /\ sent.sending = flush[f].sending /\ sent.change = flush[f].change
      /\ failed \in FlushState /\ failed.sending = flush[f].sending
      /\ failed.change = flush[f].change
  BY <1>1 DEF FlushState
<1> HIDE DEF sent, failed
<1>4. QED
  BY <1>2, <1>3

LEMMA FlushStep == IInv /\ [Next]_vars => FlushHasChange'
<1> SUFFICES ASSUME IInv, [Next]_vars PROVE FlushHasChange'
  OBVIOUS
<1> USE DEF FlushHasChange
<1>1. FlushHasChange /\ flush \in [Flushers -> FlushState] /\ ~NoFlush.sending
  BY DEF IInv, TypeOK, NoFlush
<1>2. CASE UNCHANGED flush
  BY <1>1, <1>2
<1>3. ASSUME NEW f \in Flushers, Take(f) PROVE FlushHasChange'
  <2>1. doc.pending \in Change
    BY <1>3, PendingIsChange DEF Take
  <2>2. flush'[f].change = doc.pending /\ \A g \in Flushers \ {f} : flush'[g] = flush[g]
    BY <1>1, <1>3 DEF Take, NoFlush
  <2>3. QED
    BY <1>1, <2>1, <2>2
<1>4. ASSUME NEW f \in Flushers, EndFlush(f) PROVE FlushHasChange'
  <2>1. flush' = [flush EXCEPT ![f] = NoFlush]
    BY <1>4 DEF EndFlush
  <2>2. QED
    BY <1>1, <2>1
<1>5. ASSUME NEW f \in Flushers, NEW s \in Servers, Send(f, s) \/ SendFails(f, s)
      PROVE  FlushHasChange'
  <2>1. \A g \in Flushers : /\ flush'[g].sending = flush[g].sending
                            /\ flush'[g].change = flush[g].change
    <3>1. \E record \in FlushState :
            /\ flush' = [flush EXCEPT ![f] = record]
            /\ record.sending = flush[f].sending /\ record.change = flush[f].change
      BY <1>1, <1>5, SendFlush
    <3>2. QED
      BY <1>1, <3>1
  <2>2. QED
    BY <1>1, <2>1
<1>6. CASE DropDebouncer
  <2>1. \A g \in Flushers : /\ flush'[g].sending = flush[g].sending
                            /\ flush'[g].change = flush[g].change
    <3> SUFFICES ASSUME NEW g \in Flushers
                 PROVE  /\ flush'[g].sending = flush[g].sending
                        /\ flush'[g].change = flush[g].change
      OBVIOUS
    <3>1. flush[g] \in FlushState /\ flush'[g] = [flush[g] EXCEPT !.orphan = flush[g].sending]
      BY <1>1, <1>6 DEF DropDebouncer
    <3>2. QED
      BY <3>1 DEF FlushState
  <2>2. QED
    BY <1>1, <2>1
<1>7. \/ UNCHANGED flush \/ DropDebouncer
      \/ \E f \in Flushers : Take(f) \/ EndFlush(f) \/ \E s \in Servers : Send(f, s) \/ SendFails(f, s)
  BY DEF Next, User, Tick, Edit, Reload, Unload, Load, Request, Editing, Join, RetryTimeComes,
         Ensure, StreamChanges, Refresh, Claim, EndOpening, FindOpen, OpenOn, OpenIsRefused, Bump,
         Queue, NoteQueued, NothingToFlush, CloseOnServers, CloseVersion, CloseSent, CloseRest,
         Flushing, Restarting, StartRestart, RestartFails, Respawn, ForgetVersion, ForgetSent,
         ForgetRest, StartLate, Die, vars
<1>8. QED
  BY <1>2, <1>3, <1>4, <1>5, <1>6, <1>7

-----------------------------------------------------------------------------
(* What the manager recorded and what the servers have. *)

(* What is to hold of a server and of the text recorded for it. *)
Agrees(sv, text) ==
    /\ sv.at # "up" => ~sv.open
    /\ sv.open /\ text \in Texts => sv.text = text

LEMMA AgreeIsBoth ==
  (DeadHasNothing /\ BaselineIsServerText) <=> \A s \in Servers : Agrees(server[s], base[s])
  BY DEF DeadHasNothing, BaselineIsServerText, Agrees

(* A text that is recorded as soon as the server was sent it. *)
LEMMA ReachedAgrees ==
  ASSUME IInv, NEW s \in Servers, NEW text \in Texts, NEW m \in ServerState,
         m.at = server[s].at, m.text = text, Reaches(s, m), base' = [base EXCEPT ![s] = text]
  PROVE  \A o \in Servers : Agrees(server'[o], base'[o])
<1>1. /\ server \in [Servers -> ServerState] /\ base \in [Servers -> Texts \cup {Unopened, Unknown}]
      /\ \A o \in Servers : Agrees(server[o], base[o])
  BY AgreeIsBoth DEF IInv, TypeOK
<1>2. base'[s] = text /\ \A o \in Servers \ {s} : base'[o] = base[o] /\ server'[o] = server[o]
  BY <1>1 DEF Reaches
<1>3. Agrees(server'[s], base'[s])
  <2>1. CASE server[s].at = "up"
    <3>1. server'[s] = m
      BY <1>1, <2>1 DEF Reaches
    <3>2. QED
      BY <1>2, <2>1, <3>1 DEF Agrees
  <2>2. CASE server[s].at # "up"
    BY <1>1, <2>2 DEF Reaches, Agrees
  <2>3. QED
    BY <2>1, <2>2
<1>4. QED
  BY <1>1, <1>2, <1>3

LEMMA AgreeStep == IInv /\ [Next]_vars => \A s \in Servers : Agrees(server'[s], base'[s])
<1> SUFFICES ASSUME IInv, [Next]_vars PROVE \A s \in Servers : Agrees(server'[s], base'[s])
  OBVIOUS
<1>1. /\ server \in [Servers -> ServerState] /\ base \in [Servers -> Texts \cup {Unopened, Unknown}]
      /\ \A s \in Servers : Agrees(server[s], base[s])
      /\ Unopened \notin Texts /\ Unknown \notin Texts
  BY AgreeIsBoth, Markers DEF IInv, TypeOK
<1>2. CASE UNCHANGED <<server, base>>
  BY <1>1, <1>2
<1>3. ASSUME NEW s \in Servers, FindOpen(s) PROVE \A o \in Servers : Agrees(server'[o], base'[o])
  BY <1>1, <1>3 DEF FindOpen, Agrees
<1>4. ASSUME NEW s \in Servers, OpenOn(s) PROVE \A o \in Servers : Agrees(server'[o], base'[o])
  <2>1. buffer \in Texts /\ editor.version \in Nat /\ server[s] \in ServerState
    BY <1>4 DEF OpenOn, IInv, TypeOK, EditorHasBuffer, At, Loaded, EditorState
  <2> DEFINE m == Opened(server[s], buffer, editor.version)
  <2>2. m \in ServerState /\ m.at = server[s].at /\ m.text = buffer
    BY <2>1 DEF Opened, ServerState
  <2>3. Reaches(s, m) /\ base' = [base EXCEPT ![s] = buffer]
    BY <1>4 DEF OpenOn
  <2> HIDE DEF m
  <2>4. QED
    BY <2>1, <2>2, <2>3, ReachedAgrees
<1>5. CASE Queue
  <2>1. server' = server /\ \A s \in Servers : base'[s] \in {base[s], Unknown}
    BY <1>5 DEF Queue
  <2>2. QED
    BY <1>1, <2>1 DEF Agrees
<1>6. ASSUME NEW f \in Flushers, NEW s \in Servers, Send(f, s)
      PROVE  \A o \in Servers : Agrees(server'[o], base'[o])
  <2> DEFINE change == flush[f].change
  <2>1. change \in Change /\ change.text \in Texts /\ change.version \in Nat
        /\ server[s] \in ServerState
    BY <1>6, FlushHasIts DEF Send, IInv, TypeOK
  <2>2. /\ base' = [base EXCEPT ![s] = change.text]
        /\ \/ Reaches(s, Opened(server[s], change.text, change.version))
           \/ Reaches(s, Changed(server[s], base[s], change))
           \/ base[s] = change.text /\ UNCHANGED server
    BY <1>6 DEF Send
  <2> HIDE DEF change
  <2>3. /\ Opened(server[s], change.text, change.version) \in ServerState
        /\ Opened(server[s], change.text, change.version).at = server[s].at
        /\ Opened(server[s], change.text, change.version).text = change.text
        /\ Changed(server[s], base[s], change) \in ServerState
        /\ Changed(server[s], base[s], change).at = server[s].at
        /\ Changed(server[s], base[s], change).text = change.text
    BY <2>1, MessageTypes
  <2>4. CASE base[s] = change.text /\ UNCHANGED server
    BY <1>1, <2>2, <2>4
  <2>5. QED
    BY <2>1, <2>2, <2>3, <2>4, ReachedAgrees
<1>7. CASE CloseOnServers
  <2>1. base' = base
    BY <1>7 DEF CloseOnServers
  <2>2. \A s \in Servers : server'[s] \in {server[s], Closed(server[s])}
    BY <1>7 DEF CloseOnServers
  <2>3. \A s \in Servers : ~Closed(server[s]).open
    BY <1>1 DEF Closed, ServerState
  <2>4. QED
    BY <1>1, <2>1, <2>2, <2>3 DEF Agrees
<1>8. CASE CloseRest
  BY <1>1, <1>8 DEF CloseRest, Agrees
<1>9. ASSUME NEW s \in Servers, StartLate(s) \/ Die(s) \/ Respawn(s)
      PROVE  \A o \in Servers : Agrees(server'[o], base'[o])
  <2>1. server[s].sound \in BOOLEAN
    BY <1>1 DEF ServerState
  <2>2. ~server'[s].open
    <3>1. server'[s] \in {NewServer, [NewServer EXCEPT !.sound = server[s].sound],
                           [NewServer EXCEPT !.at = "down", !.sound = server[s].sound]}
      BY <1>1, <1>9 DEF StartLate, Die, Respawn
    <3>2. QED
      BY <2>1, <3>1, NewServerTypes
  <2>3. \A o \in Servers \ {s} : server'[o] = server[o] /\ base'[o] = base[o]
    BY <1>1, <1>9 DEF StartLate, Die, Respawn
  <2>4. QED
    BY <1>1, <2>2, <2>3 DEF Agrees
<1>10. \/ UNCHANGED <<server, base>> \/ Queue \/ CloseOnServers \/ CloseRest
       \/ \E s \in Servers : \/ FindOpen(s) \/ OpenOn(s) \/ StartLate(s) \/ Die(s) \/ Respawn(s)
                           \/ \E f \in Flushers : Send(f, s)
  <2>1. User \/ Tick \/ RetryTimeComes \/ UNCHANGED vars => UNCHANGED <<server, base>>
    BY DEF User, Tick, Edit, Reload, Unload, Load, Request, RetryTimeComes, vars
  <2>2. CASE Editing
    <3>1. ASSUME Join \/ RetryTimeComes \/ Ensure \/ StreamChanges \/ Refresh \/ Claim \/ EndOpening
          PROVE  UNCHANGED <<server, base>>
      BY <3>1 DEF Join, RetryTimeComes, Ensure, StreamChanges, Refresh, Claim, EndOpening
    <3>2. ASSUME \/ \E s \in Servers : OpenIsRefused(s)
                 \/ Bump \/ NoteQueued \/ NothingToFlush \/ CloseVersion \/ CloseSent
          PROVE  UNCHANGED <<server, base>>
      BY <3>2 DEF OpenIsRefused, Bump, NoteQueued, NothingToFlush, CloseVersion, CloseSent
    <3>3. QED
      BY <2>2, <3>1, <3>2 DEF Editing
  <2>3. ASSUME NEW f \in Flushers, Flushing(f)
        PROVE  UNCHANGED <<server, base>> \/ \E s \in Servers : Send(f, s)
    BY <2>3 DEF Flushing, Take, EndFlush, SendFails
  <2>4. ASSUME NEW s \in Servers, Restarting(s) \/ StartLate(s) \/ Die(s)
        PROVE  UNCHANGED <<server, base>> \/ StartLate(s) \/ Die(s) \/ Respawn(s)
    BY <2>4 DEF Restarting, StartRestart, RestartFails, ForgetVersion, ForgetSent, ForgetRest
  <2>5. QED
    BY <2>1, <2>2, <2>3, <2>4 DEF Next
<1>11. QED
  BY <1>2, <1>3, <1>4, <1>5, <1>6, <1>7, <1>8, <1>9, <1>10

-----------------------------------------------------------------------------
(* The theorems. *)

LEMMA InvInit == Init => IInv
<1> SUFFICES ASSUME Init PROVE IInv
  OBVIOUS
<1>1. NewManager \in Manager /\ NoFlush \in FlushState /\ ~NoFlush.sending
  BY DEF NewManager, Manager, NoFlush, FlushState
<1>2. NewServer \in ServerState /\ [NewServer EXCEPT !.at = "absent"] \in ServerState
      /\ ~NewServer.open /\ ~[NewServer EXCEPT !.at = "absent"].open
  BY NewServerTypes
<1>3. TypeOK
  BY <1>1, <1>2, IdleType, NewSyncType, SyncAssumption DEF Init, TypeOK, Restarts
<1>4. EditorHasBuffer /\ EditorAwaitsFlush /\ FlushHasChange
  BY <1>1 DEF Init, EditorHasBuffer, EditorAwaitsFlush, FlushHasChange, Idle, Flushers
<1>5. DeadHasNothing /\ BaselineIsServerText
  BY <1>2 DEF Init, DeadHasNothing, BaselineIsServerText
<1>6. QED
  BY <1>3, <1>4, <1>5 DEF IInv

LEMMA InvStep == IInv /\ [Next]_vars => IInv'
<1> SUFFICES ASSUME IInv, [Next]_vars PROVE IInv'
  OBVIOUS
<1>1. (DeadHasNothing /\ BaselineIsServerText)'
  BY AgreeStep DEF DeadHasNothing, BaselineIsServerText, Agrees
<1>2. QED
  BY <1>1, TypeStep, EditorStep, EditorAwaitsStep, FlushStep DEF IInv

LEMMA Invariant == Spec => []IInv
  BY InvInit, InvStep, PTL DEF Spec

(* The manager's maps, the editor's book-keeping and the servers have their types *)
(* in every reachable state: no version goes below zero, and every open and every *)
(* change that reaches a server carries a text.                                *)
THEOREM TypeCorrect == Spec => []TypeOK
<1>1. IInv => TypeOK
  BY DEF IInv
<1>2. QED
  BY <1>1, Invariant, PTL

(* The text that incremental edits are computed from is the one the live server *)
(* has, through crashes, restarts, refused notifications, late servers and closes *)
(* in any order, and whatever was forgotten by halves (lsp/notifications.rs,    *)
(* server_documents).                                                          *)
THEOREM BaselineHolds == Spec => []BaselineIsServerText
<1>1. IInv => BaselineIsServerText
  BY DEF IInv
<1>2. QED
  BY <1>1, Invariant, PTL

-----------------------------------------------------------------------------
(* What the messages have to fit.                                             *)

(* A flush that is still the document's: its gate is in the maps. *)
Sending(f) == flush[f].sending /\ ~flush[f].orphan

(* Nothing is on its way to the servers. *)
NothingUnderWay == doc.pending = NoChange /\ \A f \in Flushers : ~Sending(f)

NobodyHasIt == \A s \in Servers : base[s] = Unopened

(* The places of a close behind its messages. *)
ClosedPlaces == {"unclaiming", "unsending", "forgetting"}

(* What server_documents records is open, until the servers are told to close. *)
RecordedIsOpen ==
    \A s \in Servers :
        /\ server[s].at = "absent" => base[s] = Unopened
        /\ server[s].at = "up" =>
             (server[s].open <=> base[s] # Unopened /\ editor.at \notin ClosedPlaces)

(* An open and a flush count on servers that were started. *)
TodoIsThere ==
    /\ editor.at = "opening" => \A s \in editor.todo : server[s].at # "absent"
    /\ \A f \in Flushers : flush[f].sending => \A s \in flush[f].todo : server[s].at # "absent"

(* A close waits for its flush, and the flush for the others of the document. *)
CloseIsQuiet ==
    /\ editor.at \in ClosingPlaces => NothingUnderWay
    /\ editor.at \in {"unsending", "forgetting"} => doc.version = 0
    /\ editor.at = "forgetting" => doc.sent = 0

(* A document is only forgotten if no server has it any more. *)
ForgettingIsQuiet ==
    /\ Forgetting => NobodyHasIt
    /\ \A s \in Servers :
          /\ restart[s] \in {"unsending", "forgetting"} => doc.version = 0
          /\ restart[s] = "forgetting" => doc.sent = 0

(* A document without a version starts from nothing. *)
UnclaimedIsNew ==
    doc.version = 0 =>
        /\ editor.at \notin ClosedPlaces => NobodyHasIt
        /\ ~Forgetting => NothingUnderWay
        /\ ~Forgetting /\ editor.at # "unsending" => doc.sent = 0

ClaimIsFirst ==
    editor.at = "opening" /\ editor.claimed /\ ~editor.delivered =>
        NobodyHasIt /\ NothingUnderWay /\ doc.sent = 0

(* The gate lets one flush in, and the editor waits for its own. *)
OneFlush ==
    Sending("editor") => ~Sending("timer") /\ doc.pending = NoChange

(* Whatever the servers have, and whatever an open is about to tell them, is not *)
(* newer than n. *)
IsNewest(n) ==
    /\ n >= 1 /\ doc.sent <= n
    /\ editor.at = "opening" => editor.version <= n
    /\ \A s \in Servers : server[s].open => server[s].version <= n

(* The versions in order: the servers', the one that is sent, the pending one, *)
(* and that of the document.                                                  *)
VersionsGrow ==
    /\ doc.version # 0 => IsNewest(doc.version)
    /\ doc.pending # NoChange =>
         /\ IsNewest(doc.pending.version)
         /\ doc.version # 0 => doc.pending.version <= doc.version
    /\ \A f \in Flushers : Sending(f) =>
         /\ IsNewest(flush[f].change.version)
         /\ doc.version # 0 => flush[f].change.version <= doc.version
         /\ doc.pending # NoChange => flush[f].change.version <= doc.pending.version
    /\ editor.at = "queueing" => editor.version >= 1 /\ doc.version \in {0, editor.version}

Protocol ==
    /\ RecordedIsOpen /\ TodoIsThere /\ CloseIsQuiet /\ ForgettingIsQuiet
    /\ UnclaimedIsNew /\ ClaimIsFirst /\ OneFlush /\ VersionsGrow
    /\ \A s \in Servers : server[s].sound

PInv == mishaps = {} => Protocol

-----------------------------------------------------------------------------
(* Helpers. *)

LEMMA Types ==
  ASSUME IInv
  PROVE  /\ doc \in Manager /\ doc.version \in Nat /\ doc.sent \in Nat
         /\ doc.pending # NoChange =>
               doc.pending \in Change /\ doc.pending.version \in Nat /\ doc.pending.text \in Texts
         /\ editor \in EditorState /\ editor.version \in Nat /\ editor.todo \subseteq Servers
         /\ flush \in [Flushers -> FlushState]
         /\ \A f \in Flushers : flush[f].sending =>
               flush[f].change \in Change /\ flush[f].change.version \in Nat
         /\ \A f \in Flushers : flush[f].todo \subseteq Servers
         /\ server \in [Servers -> ServerState] /\ restart \in [Servers -> Restarts]
         /\ base \in [Servers -> Texts \cup {Unopened, Unknown}]
         /\ \A s \in Servers : server[s] \in ServerState /\ server[s].version \in Nat
         /\ Unopened \notin Texts \cup {Unknown} /\ "editor" \in Flushers /\ "timer" \in Flushers
<1>1. TypeOK /\ FlushHasChange
  BY DEF IInv
<1>2. /\ doc.pending # NoChange => doc.pending \in Change
      /\ \A f \in Flushers : flush[f].sending => flush[f].change \in Change
  BY <1>1 DEF TypeOK, Manager, FlushHasChange
<1>3. Unopened \notin Texts /\ Unopened # Unknown
  BY Markers DEF Unopened, Unknown
<1>4. /\ doc.pending # NoChange => doc.pending.version \in Nat /\ doc.pending.text \in Texts
      /\ \A f \in Flushers : flush[f].sending => flush[f].change.version \in Nat
  BY <1>2 DEF Change
<1>5. \A s \in Servers : server[s] \in ServerState /\ server[s].version \in Nat
  BY <1>1 DEF TypeOK, ServerState
<1>6. editor.todo \subseteq Servers /\ \A f \in Flushers : flush[f].todo \subseteq Servers
  BY <1>1 DEF TypeOK, EditorState, FlushState
<1>7. QED
  BY <1>1, <1>2, <1>3, <1>4, <1>5, <1>6 DEF TypeOK, Manager, EditorState, Flushers

LEMMA MishapsStay == [Next]_vars => mishaps \subseteq mishaps'
<1>1. ASSUME NEW m, NEW happens, Mishap(m, happens) PROVE mishaps \subseteq mishaps'
  BY <1>1 DEF Mishap
<1>2. QED
  BY ZenonT(40), <1>1 DEF Next, User, Tick, Edit, Reload, Unload, Load, Request, Editing, Join, RetryTimeComes,
         Ensure, StreamChanges, Refresh, Claim, EndOpening, FindOpen, OpenOn, OpenIsRefused, Bump,
         Queue, NoteQueued, NothingToFlush, CloseOnServers, CloseVersion, CloseSent, CloseRest,
         Flushing, Take, EndFlush, Send, SendFails, Restarting, StartRestart, RestartFails, Respawn,
         ForgetVersion, ForgetSent, ForgetRest, StartLate, Die, vars

(* Steps of the editor's task that send nothing and leave the maps alone. *)
LEMMA EditorMoves ==
  ASSUME Protocol, UNCHANGED <<doc, base, flush, server, restart>>,
         editor.at \notin ClosedPlaces,
         editor'.at \notin {"opening", "queueing"} \cup ClosedPlaces,
         editor'.at = "closing" => NothingUnderWay
  PROVE  Protocol'
  BY DEF Protocol, RecordedIsOpen, TodoIsThere, CloseIsQuiet, ForgettingIsQuiet, UnclaimedIsNew,
         ClaimIsFirst, OneFlush, VersionsGrow, IsNewest, NothingUnderWay, Sending, NobodyHasIt,
         Forgetting, ClosingPlaces, ClosedPlaces

LEMMA OpeningGoesOn ==
  ASSUME Protocol, UNCHANGED <<doc, flush, server, restart>>,
         editor.at = "opening", editor'.at = "opening", editor'.version = editor.version,
         editor'.claimed = editor.claimed, editor'.todo \subseteq editor.todo,
         editor.delivered => editor'.delivered,
         \A s \in Servers : base'[s] = Unopened <=> base[s] = Unopened
  PROVE  Protocol'
  BY DEF Protocol, RecordedIsOpen, TodoIsThere, CloseIsQuiet, ForgettingIsQuiet, UnclaimedIsNew,
         ClaimIsFirst, OneFlush, VersionsGrow, IsNewest, NothingUnderWay, Sending, NobodyHasIt,
         Forgetting, ClosingPlaces, ClosedPlaces

LEMMA UserKeeps ==
  ASSUME IInv, Protocol, User \/ Tick
  PROVE  Protocol'
<1>1. CASE Edit \/ Reload \/ Load
  <2>1. UNCHANGED <<editor, doc, base, flush, server, restart>>
    BY <1>1 DEF Edit, Reload, Load
  <2>2. editor.at = "idle"
    BY <1>1 DEF Edit, Reload, Load, At
  <2>3. QED
    BY <2>1, <2>2, EditorMoves DEF ClosedPlaces
<1>2. CASE Unload \/ Request
  <2>1. /\ UNCHANGED <<doc, base, flush, server, restart>>
        /\ editor.at = "idle" /\ editor'.at \in {"flushing", "ensuring"}
    BY <1>2 DEF Unload, Request, At, Idle
  <2>2. QED
    BY <2>1, EditorMoves DEF ClosedPlaces
<1>3. CASE Tick
  <2>1. /\ UNCHANGED <<doc, base, flush, server, restart>>
        /\ editor.at = "idle" /\ editor'.at = "joining"
    BY <1>3, Types DEF Tick, At, Goes, EditorState
  <2>2. QED
    BY <2>1, EditorMoves DEF ClosedPlaces
<1>4. QED
  BY <1>1, <1>2, <1>3 DEF User

LEMMA TaskKeeps ==
  ASSUME IInv, Protocol,
         \/ Join \/ RetryTimeComes \/ Ensure \/ StreamChanges \/ Refresh \/ NoteQueued
         \/ NothingToFlush
  PROVE  Protocol'
<1>0. /\ editor \in EditorState /\ Flushers = {"editor", "timer"}
      /\ [Idle EXCEPT !.at = editor.next].at = editor.next
  BY Types, ReturnsType DEF Flushers
<1>1. CASE Join
  <2>1. /\ UNCHANGED <<doc, base, flush, server, restart>> /\ editor.at = "joining"
        /\ editor'.at \in {"changing", "ensuring", "claiming"}
    BY <1>1 DEF Join, At, Idle
  <2>2. QED
    BY <2>1, EditorMoves DEF ClosedPlaces
<1>2. CASE RetryTimeComes
  <2>1. UNCHANGED <<editor, doc, base, flush, server, restart>>
    BY <1>2 DEF RetryTimeComes
  <2>2. QED
    BY <2>1 DEF Protocol, RecordedIsOpen, TodoIsThere, CloseIsQuiet, ForgettingIsQuiet,
         UnclaimedIsNew, ClaimIsFirst, OneFlush, VersionsGrow, IsNewest, NothingUnderWay, Sending,
         NobodyHasIt, Forgetting
<1>3. CASE Ensure
  <2>1. /\ UNCHANGED <<doc, base, flush, server, restart>> /\ editor.at = "ensuring"
        /\ \/ editor' = [editor EXCEPT !.at = "claiming", !.first = TRUE]
           \/ editor' = [editor EXCEPT !.at = "flushing"]
           \/ editor' = [editor EXCEPT !.at = "bumping"]
           \/ editor' = [Idle EXCEPT !.at = editor.next]
    BY <1>3 DEF Ensure, At
  <2>2. editor.next \in {"idle", "ensuring", "changing", "refreshing", "flushing", "closing"}
        /\ editor.next # "closing"
    BY <1>0, <2>1 DEF IInv, EditorHasBuffer, EditorState
  <2>3. editor'.at \in {"claiming", "flushing", "bumping", "idle", "ensuring", "changing", "refreshing"}
    BY <1>0, <2>1, <2>2 DEF EditorState
  <2>4. QED
    BY <2>1, <2>3, EditorMoves DEF ClosedPlaces
<1>4. CASE StreamChanges
  <2>1. /\ UNCHANGED <<doc, base, flush, server, restart>> /\ editor.at = "changing"
        /\ \/ editor' = [Idle EXCEPT !.at = "bumping", !.next = "refreshing"]
           \/ editor' = [Idle EXCEPT !.at = "refreshing"]
    BY <1>4 DEF StreamChanges, At
  <2>2. editor'.at \in {"bumping", "refreshing"}
    BY <2>1 DEF Idle
  <2>3. QED
    BY <2>1, <2>2, EditorMoves DEF ClosedPlaces
<1>5. CASE Refresh
  <2>1. /\ UNCHANGED <<doc, base, flush, server, restart>>
        /\ editor.at = "refreshing" /\ editor'.at = "idle"
    BY <1>0, <1>5 DEF Refresh, At, Goes, EditorState
  <2>2. QED
    BY <2>1, EditorMoves DEF ClosedPlaces
<1>6. CASE NoteQueued
  <2>1. /\ UNCHANGED <<doc, base, flush, server, restart>> /\ editor.at = "noting"
        /\ editor'.at \in {"flushing", "refreshing"}
    BY <1>0, <1>6 DEF NoteQueued, At, Goes, Returns, EditorState
  <2>2. QED
    BY <2>1, EditorMoves DEF ClosedPlaces
<1>7. CASE NothingToFlush
  <2>1. /\ UNCHANGED <<doc, base, flush, server, restart>> /\ editor.at = "flushing"
        /\ editor'.at = editor.next
    BY <1>0, <1>7 DEF NothingToFlush, At, Returns
  <2>2. NothingUnderWay
    <3>1. Other("editor") = "timer"
      BY <1>0 DEF Other
    <3>2. QED
      BY <1>0, <1>7, <3>1 DEF NothingToFlush, NothingUnderWay, Sending, GateIsFree
  <2>3. editor.next \in {"idle", "ensuring", "changing", "refreshing", "flushing", "closing"}
    BY <1>0 DEF EditorState
  <2>4. QED
    BY <2>1, <2>2, <2>3, EditorMoves DEF ClosedPlaces
<1>8. QED
  BY <1>1, <1>2, <1>3, <1>4, <1>5, <1>6, <1>7

LEMMA OpenKeeps ==
  ASSUME IInv, Protocol, NEW s \in Servers, FindOpen(s) \/ OpenIsRefused(s)
  PROVE  Protocol'
<1>1. UNCHANGED <<doc, flush, server, restart>>
  BY DEF FindOpen, OpenIsRefused
<1>2. /\ editor.at = "opening" /\ editor'.at = "opening" /\ editor'.version = editor.version
      /\ editor'.claimed = editor.claimed /\ editor'.todo \subseteq editor.todo
      /\ editor.delivered => editor'.delivered
  BY Types DEF FindOpen, OpenIsRefused, At, EditorState
<1>3. \A x \in Servers : base'[x] = Unopened <=> base[x] = Unopened
  BY Types DEF FindOpen, OpenIsRefused
<1>4. QED
  BY <1>1, <1>2, <1>3, OpeningGoesOn

(* The claim, and an open that is about to be told no later version than any change. *)
LEMMA ClaimKeeps ==
  ASSUME IInv, Protocol, Claim, mishaps' = {}
  PROVE  Protocol'
<1>1. /\ ~Forgetting /\ editor.at = "claiming" /\ UNCHANGED <<base, flush, server, restart>>
  BY DEF Claim, Mishap, At
<1>0. /\ Max2(doc.version, 1) = IF doc.version = 0 THEN 1 ELSE doc.version
      /\ Max2(doc.sent, 1) = IF doc.sent = 0 THEN 1 ELSE doc.sent
  BY Types DEF Max2
<1>2. /\ doc'.version = (IF doc.version = 0 THEN 1 ELSE doc.version)
      /\ doc'.sent = doc.sent /\ doc'.pending = doc.pending
  <2>1. doc' = [doc EXCEPT !.version = Max2(doc.version, 1)] /\ doc \in Manager
    BY Types DEF Claim
  <2>2. QED
    BY <1>0, <2>1 DEF Manager
<1>3. /\ editor'.at = "opening" /\ editor'.todo = Group /\ editor'.claimed = (doc.version = 0)
      /\ editor'.version = (IF doc.version = 0 \/ doc.sent = 0 THEN 1 ELSE doc.sent)
  <2>1. /\ editor' = [editor EXCEPT !.at = "opening", !.todo = Group, !.claimed = doc.version = 0,
                                    !.version = IF doc.version = 0 THEN 1 ELSE Max2(doc.sent, 1)]
        /\ editor \in EditorState
    BY Types DEF Claim
  <2>2. QED
    BY <1>0, <2>1 DEF EditorState
<1>4. CASE doc.version = 0
  <2>1. NobodyHasIt /\ NothingUnderWay /\ doc.sent = 0 /\ \A s \in Servers : ~server[s].open
    BY <1>1, <1>4, Types DEF Protocol, UnclaimedIsNew, ClosedPlaces, RecordedIsOpen, NobodyHasIt,
       IInv, DeadHasNothing
  <2>2. QED
    BY <1>1, <1>2, <1>3, <1>4, <2>1, Types DEF Protocol, RecordedIsOpen, TodoIsThere, CloseIsQuiet,
       ForgettingIsQuiet, UnclaimedIsNew, ClaimIsFirst, OneFlush, VersionsGrow, IsNewest,
       NothingUnderWay, Sending, NobodyHasIt, Forgetting, ClosingPlaces, ClosedPlaces, Group
<1>5. CASE doc.version # 0
  <2>1. VersionsGrow'
    BY <1>1, <1>2, <1>3, <1>5, Types DEF Protocol, VersionsGrow, IsNewest, Sending
  <2>2. QED
    BY <1>1, <1>2, <1>3, <1>5, <2>1, Types DEF Protocol, RecordedIsOpen, TodoIsThere, CloseIsQuiet,
       ForgettingIsQuiet, UnclaimedIsNew, ClaimIsFirst, OneFlush,
       NothingUnderWay, Sending, NobodyHasIt, Forgetting, ClosingPlaces, ClosedPlaces, Group
<1>6. QED
  BY <1>4, <1>5

(* What a message makes of the server that it reaches. *)
LEMMA Reached ==
  ASSUME IInv, NEW s \in Servers, NEW m, Reaches(s, m)
  PROVE  /\ \A o \in Servers \ {s} : server'[o] = server[o]
         /\ server[s].at = "up" => server'[s] = m
         /\ server[s].at # "up" => server'[s] = server[s]
  BY Types DEF Reaches

LEMMA OpenOnKeeps ==
  ASSUME IInv, Protocol, NEW s \in Servers, OpenOn(s), mishaps' = {}
  PROVE  Protocol'
<1> DEFINE m == Opened(server[s], buffer, editor.version)
<1>1. /\ ~Forgetting /\ doc.version # 0 /\ editor.at = "opening" /\ s \in editor.todo
      /\ base[s] = Unopened /\ Reaches(s, m)
      /\ UNCHANGED <<doc, flush, restart>>
  BY DEF OpenOn, Mishap, Forgotten, At
<1>2. /\ editor'.at = "opening" /\ editor'.version = editor.version /\ editor'.todo \subseteq editor.todo
      /\ editor'.delivered /\ editor'.claimed = editor.claimed
  <2>1. /\ editor' = [editor EXCEPT !.todo = editor.todo \ {s}, !.tried = TRUE, !.delivered = TRUE]
        /\ editor \in EditorState
    BY Types DEF OpenOn
  <2>2. QED
    BY <1>1, <2>1 DEF EditorState
<1>3. /\ m.at = server[s].at /\ m.open /\ m.version = editor.version
      /\ m.sound = (server[s].sound /\ ~server[s].open)
  BY Types DEF Opened, ServerState
<1>4. buffer # Unopened /\ base'[s] = buffer /\ \A o \in Servers \ {s} : base'[o] = base[o]
  BY <1>1, Types DEF OpenOn, IInv, TypeOK, EditorHasBuffer, Loaded
<1> HIDE DEF m
<1>5. /\ \A o \in Servers \ {s} : server'[o] = server[o]
      /\ server[s].at = "up" => server'[s] = m
      /\ server[s].at # "up" => server'[s] = server[s]
  BY <1>1, Reached
<1>6. server[s].at # "absent" /\ (server[s].at = "up" => ~server[s].open)
      /\ (server[s].at # "up" => ~server[s].open)
  BY <1>1 DEF Protocol, RecordedIsOpen, TodoIsThere, IInv, DeadHasNothing
<1>7. (\A o \in Servers : server[o].sound)' /\ RecordedIsOpen' /\ TodoIsThere'
  <2>1. \A o \in Servers : server'[o].at = server[o].at
    BY <1>3, <1>5
  <2>2. \A o \in Servers : server'[o].sound
    BY <1>3, <1>5, <1>6 DEF Protocol
  <2>3. RecordedIsOpen'
    BY <1>1, <1>2, <1>3, <1>4, <1>5, <1>6, <2>1 DEF Protocol, RecordedIsOpen, ClosedPlaces
  <2>4. TodoIsThere'
    BY <1>1, <1>2, <2>1, Types DEF Protocol, TodoIsThere
  <2>5. QED
    BY <2>2, <2>3, <2>4
<1>8. VersionsGrow'
  <2>1. \A n : IsNewest(n) => IsNewest(n)'
    BY <1>1, <1>2, <1>3, <1>5, <1>6 DEF IsNewest
  <2>2. QED
    BY <1>1, <1>2, <2>1 DEF Protocol, VersionsGrow, Sending
<1>9. CloseIsQuiet' /\ ForgettingIsQuiet' /\ UnclaimedIsNew' /\ ClaimIsFirst' /\ OneFlush'
  BY <1>1, <1>2 DEF Protocol, CloseIsQuiet, ForgettingIsQuiet, UnclaimedIsNew, ClaimIsFirst, OneFlush,
     Sending, NothingUnderWay, Forgetting, ClosingPlaces, ClosedPlaces
<1>10. QED
  BY <1>7, <1>8, <1>9 DEF Protocol

LEMMA EndOpeningKeeps ==
  ASSUME IInv, Protocol, EndOpening, mishaps' = {}
  PROVE  Protocol'
<1> DEFINE gone == editor.tried /\ ~editor.delivered /\ editor.claimed
<1>1. /\ ~Forgetting /\ doc.version # 0 /\ editor.at = "opening"
      /\ UNCHANGED <<base, flush, server, restart>>
  BY DEF EndOpening, Mishap, Forgotten, At
<1>2. /\ doc'.version = (IF gone THEN 0 ELSE doc.version) /\ doc'.pending = doc.pending
      /\ doc'.sent = (IF editor.delivered /\ doc.sent = 0 THEN editor.version ELSE doc.sent)
  BY Types DEF EndOpening, Manager
<1>3. editor'.at \in {"idle", "ensuring", "changing", "refreshing", "flushing"}
  <2>1. editor'.at = editor.next
    BY Types, ReturnsType DEF EndOpening, Returns
  <2>2. editor.next # "closing"
    BY <1>1 DEF IInv, EditorHasBuffer
  <2>3. QED
    BY <2>1, <2>2, Types DEF EditorState
<1>4. CASE gone
  <2>1. NobodyHasIt /\ NothingUnderWay /\ doc.sent = 0 /\ doc'.sent = 0
        /\ \A s \in Servers : ~server[s].open
    BY <1>1, <1>2, <1>4, Types DEF Protocol, ClaimIsFirst, ClosedPlaces, RecordedIsOpen, NobodyHasIt,
       IInv, DeadHasNothing
  <2>2. QED
    BY <1>1, <1>2, <1>3, <1>4, <2>1, Types DEF Protocol, RecordedIsOpen, TodoIsThere, CloseIsQuiet,
       ForgettingIsQuiet, UnclaimedIsNew, ClaimIsFirst, OneFlush, VersionsGrow, IsNewest,
       NothingUnderWay, Sending, NobodyHasIt, Forgetting, ClosingPlaces, ClosedPlaces, Group
<1>5. CASE ~gone
  <2>1. \A n : IsNewest(n) => IsNewest(n)'
    BY <1>1, <1>2, <1>3 DEF IsNewest
  <2>2. VersionsGrow'
    BY <1>1, <1>2, <1>3, <1>5, <2>1 DEF Protocol, VersionsGrow, Sending
  <2>3. QED
    BY <1>1, <1>2, <1>3, <1>5, <2>2, Types DEF Protocol, RecordedIsOpen, TodoIsThere, CloseIsQuiet,
       ForgettingIsQuiet, UnclaimedIsNew, ClaimIsFirst, OneFlush,
       NothingUnderWay, Sending, NobodyHasIt, Forgetting, ClosingPlaces, ClosedPlaces, Group
<1>6. QED
  BY <1>4, <1>5

LEMMA BumpKeeps ==
  ASSUME IInv, Protocol, Bump, mishaps' = {}
  PROVE  Protocol'
<1>1. /\ ~Forgetting /\ doc.version # 0 /\ editor.at = "bumping"
      /\ UNCHANGED <<base, flush, server, restart>>
  BY DEF Bump, Mishap, Forgotten, At
<1>2. /\ doc'.version = doc.version + 1 /\ doc'.pending = doc.pending /\ doc'.sent = doc.sent
      /\ editor'.at = "queueing" /\ editor'.version = doc.version + 1
  BY Types DEF Bump, Manager, EditorState
<1>3. VersionsGrow'
  BY <1>1, <1>2, Types DEF Protocol, VersionsGrow, IsNewest, Sending
<1>4. QED
  BY <1>1, <1>2, <1>3, Types DEF Protocol, RecordedIsOpen, TodoIsThere, CloseIsQuiet,
       ForgettingIsQuiet, UnclaimedIsNew, ClaimIsFirst, OneFlush,
       NothingUnderWay, Sending, NobodyHasIt, Forgetting, ClosingPlaces, ClosedPlaces

LEMMA QueueKeeps ==
  ASSUME IInv, Protocol, Queue, mishaps' = {}
  PROVE  Protocol'
<1>1. /\ ~Forgetting /\ doc.version = editor.version /\ editor.at = "queueing"
      /\ UNCHANGED <<flush, server, restart>> /\ editor.version >= 1
      /\ ~flush["editor"].sending
  BY DEF Queue, Mishap, At, Protocol, VersionsGrow, IInv, EditorAwaitsFlush
<1>2. /\ doc'.version = doc.version /\ doc'.sent = doc.sent
      /\ doc'.pending = [text |-> buffer, version |-> editor.version]
      /\ doc'.pending.version = editor.version
      /\ editor'.at = "noting"
  BY Types DEF Queue, Manager, EditorState, Goes
<1>3. \A s \in Servers : base'[s] = Unopened <=> base[s] = Unopened
  BY Types DEF Queue
<1>4. VersionsGrow'
  BY <1>1, <1>2, Types DEF Protocol, VersionsGrow, IsNewest, Sending
<1>5. QED
  BY <1>1, <1>2, <1>3, <1>4, Types DEF Protocol, RecordedIsOpen, TodoIsThere, CloseIsQuiet,
       ForgettingIsQuiet, UnclaimedIsNew, ClaimIsFirst, OneFlush,
       NothingUnderWay, Sending, NobodyHasIt, Forgetting, ClosingPlaces, ClosedPlaces

LEMMA CloseKeeps ==
  ASSUME IInv, Protocol, CloseOnServers, mishaps' = {}
  PROVE  Protocol'
<1>1. /\ UNCHANGED <<doc, base, flush, restart>> /\ editor.at = "closing"
      /\ editor'.at = "unclaiming"
  BY Types DEF CloseOnServers, At, Goes, EditorState
<1>2. server' = [s \in Servers |-> IF base[s] # Unopened /\ server[s].at = "up"
                                   THEN Closed(server[s]) ELSE server[s]]
  <2>1. PICK deaf \in SUBSET {s \in Group : base[s] # Unopened /\ server[s].at = "up"} :
          /\ server' = [s \in Servers |->
               IF base[s] # Unopened /\ server[s].at = "up" /\ s \notin deaf
               THEN Closed(server[s]) ELSE server[s]]
          /\ Mishap("close cut short", deaf # {})
    BY DEF CloseOnServers
  <2>2. deaf = {}
    BY <2>1 DEF Mishap
  <2>3. QED
    BY <2>1, <2>2
<1>3. \A s \in Servers : /\ Closed(server[s]).at = server[s].at /\ ~Closed(server[s]).open
                         /\ Closed(server[s]).sound = (server[s].sound /\ server[s].open)
  BY Types DEF Closed, ServerState
<1>4. \A s \in Servers : /\ server'[s].at = server[s].at /\ ~server'[s].open
                         /\ server'[s].sound
  BY <1>1, <1>2, <1>3 DEF Protocol, RecordedIsOpen, ClosedPlaces, IInv, DeadHasNothing
<1>5. TodoIsThere'
  BY <1>1, <1>4, Types DEF Protocol, TodoIsThere
<1>6. QED
  BY <1>1, <1>4, <1>5, Types DEF Protocol, RecordedIsOpen, CloseIsQuiet, ForgettingIsQuiet,
       UnclaimedIsNew, ClaimIsFirst, OneFlush, VersionsGrow, IsNewest, NothingUnderWay, Sending,
       NobodyHasIt, Forgetting, ClosingPlaces, ClosedPlaces

LEMMA CloseMapsKeeps ==
  ASSUME IInv, Protocol, CloseVersion \/ CloseSent
  PROVE  Protocol'
<1>1. /\ UNCHANGED <<base, flush, server, restart>> /\ doc'.pending = doc.pending
      /\ \/ /\ editor.at = "unclaiming" /\ editor'.at = "unsending"
            /\ doc'.version = 0 /\ doc'.sent = doc.sent
         \/ /\ editor.at = "unsending" /\ editor'.at = "forgetting"
            /\ doc'.version = doc.version /\ doc'.sent = 0
  BY Types DEF CloseVersion, CloseSent, Unclaimed, Unsent, At, Goes, EditorState, Manager
<1>2. NothingUnderWay
  BY <1>1 DEF Protocol, CloseIsQuiet, ClosingPlaces
<1>3. VersionsGrow'
  BY <1>1, <1>2, Types DEF Protocol, VersionsGrow, IsNewest, NothingUnderWay, Sending, CloseIsQuiet
<1>4. QED
  BY <1>1, <1>2, <1>3, Types DEF Protocol, RecordedIsOpen, TodoIsThere, CloseIsQuiet, ForgettingIsQuiet,
       UnclaimedIsNew, ClaimIsFirst, OneFlush, NothingUnderWay, Sending,
       NobodyHasIt, Forgetting, ClosingPlaces, ClosedPlaces

(* Dropping the debouncer leaves no flush that the document has. *)
LEMMA Dropped ==
  ASSUME IInv, DropDebouncer
  PROVE  /\ NothingUnderWay' /\ doc'.version = doc.version /\ doc'.sent = doc.sent
         /\ \A f \in Flushers : /\ flush'[f].sending = flush[f].sending
                                /\ flush'[f].todo = flush[f].todo
<1>1. doc'.version = doc.version /\ doc'.sent = doc.sent /\ doc'.pending = NoChange
  BY Types DEF DropDebouncer, Manager
<1>2. \A f \in Flushers : /\ flush'[f].sending = flush[f].sending
                          /\ flush'[f].todo = flush[f].todo
                          /\ flush'[f].orphan = flush[f].sending
  BY Types DEF DropDebouncer, FlushState
<1>3. QED
  BY <1>1, <1>2 DEF NothingUnderWay, Sending

LEMMA CloseRestKeeps ==
  ASSUME IInv, Protocol, CloseRest
  PROVE  Protocol'
<1>1. /\ UNCHANGED <<server, restart>> /\ editor.at = "forgetting" /\ editor'.at = "idle"
      /\ DropDebouncer /\ \A s \in Servers : base'[s] = Unopened
  BY Types DEF CloseRest, At, Goes, EditorState
<1>2. /\ NothingUnderWay' /\ doc'.version = 0 /\ doc'.sent = 0
      /\ \A f \in Flushers : /\ flush'[f].sending = flush[f].sending
                             /\ flush'[f].todo = flush[f].todo
  BY <1>1, Dropped DEF Protocol, CloseIsQuiet
<1>3. \A s \in Servers : ~server[s].open
  BY <1>1 DEF Protocol, RecordedIsOpen, ClosedPlaces, IInv, DeadHasNothing
<1>4. QED
  BY <1>1, <1>2, <1>3, Types DEF Protocol, RecordedIsOpen, TodoIsThere, CloseIsQuiet, ForgettingIsQuiet,
       UnclaimedIsNew, ClaimIsFirst, OneFlush, VersionsGrow, IsNewest, NothingUnderWay, Sending,
       NobodyHasIt, Forgetting, ClosingPlaces, ClosedPlaces

LEMMA TakeKeeps ==
  ASSUME IInv, Protocol, NEW f \in Flushers, Take(f)
  PROVE  Protocol'
<1>1. /\ UNCHANGED <<editor, base, server, restart>>
      /\ doc.pending # NoChange /\ doc'.version = doc.version /\ doc'.sent = doc.sent
      /\ doc'.pending = NoChange
  BY Types DEF Take, Manager
<1>2. /\ flush'[f].sending /\ flush'[f].change = doc.pending /\ flush'[f].todo = Group
      /\ \A g \in Flushers \ {f} : flush'[g] = flush[g]
  BY Types DEF Take, NoFlush
<1>3. \A g \in Flushers \ {f} : ~Sending(g) /\ ~Sending(g)'
  <2>1. \A g \in Flushers \ {f} : g = Other(f)
    BY DEF Other, Flushers
  <2>2. QED
    BY <1>2, <2>1 DEF Take, GateIsFree, Sending
<1>4. VersionsGrow'
  BY <1>1, <1>2, <1>3, Types DEF Protocol, VersionsGrow, IsNewest, Sending
<1>5. TodoIsThere'
  BY <1>1, <1>2 DEF Protocol, TodoIsThere, Group
<1>6. OneFlush'
  BY <1>1, <1>3, Types DEF OneFlush, Flushers
<1>7. CloseIsQuiet' /\ ForgettingIsQuiet' /\ UnclaimedIsNew' /\ ClaimIsFirst'
  BY <1>1 DEF Protocol, CloseIsQuiet, ForgettingIsQuiet, UnclaimedIsNew, ClaimIsFirst,
     NothingUnderWay, NobodyHasIt, Forgetting
<1>8. QED
  BY <1>1, <1>4, <1>5, <1>6, <1>7 DEF Protocol, RecordedIsOpen

LEMMA EndFlushKeeps ==
  ASSUME IInv, Protocol, NEW f \in Flushers, EndFlush(f), mishaps' = {}
  PROVE  Protocol'
<1> DEFINE x == flush[f]
<1>1. /\ UNCHANGED <<base, server, restart>> /\ ~Forgetting /\ Sending(f)
      /\ ~(f = "editor" /\ editor.next = "closing" /\ x.retry)
  BY DEF EndFlush, Sending
<1>2. \A g \in Flushers \ {f} : ~Sending(g)
  BY <1>1, Types DEF Protocol, OneFlush, Flushers
<1>3. /\ doc'.version = doc.version
      /\ \/ doc'.pending = doc.pending /\ doc'.sent = doc.sent
         \/ doc'.pending = doc.pending /\ doc'.sent = x.change.version
         \/ /\ doc'.pending = x.change /\ doc.pending = NoChange /\ doc'.sent = doc.sent
            /\ x.retry
  BY Types DEF EndFlush, Manager
<1>4. /\ ~flush'[f].sending /\ \A g \in Flushers \ {f} : flush'[g] = flush[g]
  BY Types DEF EndFlush, NoFlush
<1>5. /\ f # "editor" => editor' = editor
      /\ f = "editor" => editor.at = "flushing" /\ editor'.at = editor.next
  BY <1>1, Types, ReturnsType DEF EndFlush, IInv, EditorAwaitsFlush
<1>6. x.change.version \in Nat /\ doc.version # 0
  BY <1>1, Types DEF Protocol, UnclaimedIsNew, NothingUnderWay, Sending
<1> HIDE DEF x
<1>7. f # "editor" => editor.at \notin ClosingPlaces
  BY <1>1 DEF Protocol, CloseIsQuiet, NothingUnderWay
<1>8. editor'.at \notin ClosedPlaces /\ editor.at \notin ClosedPlaces
      /\ (f = "editor" => editor'.at \notin {"opening", "queueing"} \cup ClosedPlaces)
  BY <1>5, <1>7, Types DEF EditorState, ClosingPlaces, ClosedPlaces
<1>9. editor'.at \in ClosingPlaces => NothingUnderWay'
  <2>1. SUFFICES ASSUME f = "editor", editor.next = "closing" PROVE NothingUnderWay'
    BY <1>5, <1>7, Types DEF EditorState, ClosingPlaces
  <2>2. doc.pending = NoChange /\ ~x.retry
    BY <1>1, <2>1 DEF Protocol, OneFlush, x
  <2>3. QED
    BY <1>2, <1>3, <1>4, <2>2 DEF NothingUnderWay, Sending
<1>10. VersionsGrow'
  BY <1>1, <1>2, <1>3, <1>4, <1>5, <1>6, <1>8, Types DEF Protocol, VersionsGrow, IsNewest, Sending, x
<1>11. RecordedIsOpen' /\ TodoIsThere'
  BY <1>1, <1>4, <1>5, <1>8 DEF Protocol, RecordedIsOpen, TodoIsThere
<1>12. ClaimIsFirst'
  BY <1>1, <1>5, <1>8 DEF Protocol, ClaimIsFirst, NothingUnderWay
<1>13. OneFlush'
  BY <1>2, <1>4, Types DEF OneFlush, Sending
<1>14. CloseIsQuiet' /\ ForgettingIsQuiet' /\ UnclaimedIsNew'
  BY <1>1, <1>3, <1>6, <1>8, <1>9 DEF Protocol, CloseIsQuiet, ForgettingIsQuiet, UnclaimedIsNew, NobodyHasIt,
     Forgetting, ClosedPlaces
<1>15. QED
  BY <1>1, <1>10, <1>11, <1>12, <1>13, <1>14 DEF Protocol

LEMMA SendKeeps ==
  ASSUME IInv, Protocol, NEW f \in Flushers, NEW s \in Servers, Send(f, s), mishaps' = {}
  PROVE  Protocol'
<1> DEFINE change == flush[f].change
           opened == Opened(server[s], change.text, change.version)
           changed == Changed(server[s], base[s], change)
<1>1. /\ UNCHANGED <<editor, doc, restart>> /\ ~Forgetting /\ Sending(f)
      /\ (base[s] = Unopened => doc.version # 0) /\ s \in flush[f].todo
  BY DEF Send, Mishap, Sending, Forgotten
<1>2. /\ change \in Change /\ change.text \in Texts /\ change.version \in Nat
      /\ server[s] \in ServerState
  BY <1>1, FlushHasIts, Types DEF Sending
<1>3. base' = [base EXCEPT ![s] = change.text]
  BY DEF Send
<1>4. /\ flush'[f].sending /\ flush'[f].change = change /\ flush'[f].orphan = flush[f].orphan
      /\ flush'[f].todo \subseteq flush[f].todo
      /\ \A g \in Flushers \ {f} : flush'[g] = flush[g]
  <2>1. /\ flush' = [flush EXCEPT ![f] = [flush[f] EXCEPT !.todo = flush[f].todo \ {s}, !.synced = TRUE]]
        /\ flush[f] \in FlushState /\ flush[f].sending
    BY <1>1, Types DEF Send, Sending
  <2>2. QED
    BY <2>1, Types DEF FlushState
<1>5. \A g \in Flushers : Sending(g)' <=> Sending(g)
  BY <1>1, <1>4 DEF Sending
<1>6. /\ editor.at \notin ClosingPlaces /\ doc.version # 0 /\ server[s].at # "absent"
  BY <1>1 DEF Protocol, CloseIsQuiet, UnclaimedIsNew, NothingUnderWay, TodoIsThere, Sending
(* The message fits what the server has. *)
<1>7. /\ server[s].open => server[s].version <= change.version
      /\ server[s].at = "up" => (server[s].open <=> base[s] # Unopened)
      /\ server[s].at # "up" => ~server[s].open
      /\ server[s].open /\ base[s] \in Texts => server[s].text = base[s]
      /\ server[s].sound
  BY <1>1, <1>6 DEF Protocol, VersionsGrow, IsNewest, RecordedIsOpen, ClosingPlaces, ClosedPlaces, IInv,
     DeadHasNothing, BaselineIsServerText
<1>8. /\ opened.at = server[s].at /\ opened.open /\ opened.version = change.version
      /\ base[s] = Unopened /\ server[s].at = "up" => opened.sound
  BY <1>2, <1>7 DEF Opened, ServerState
<1>9. /\ changed.at = server[s].at /\ changed.open = server[s].open
      /\ changed.version = change.version
      /\ base[s] # Unopened /\ server[s].at = "up" => changed.sound
  <2>1. base[s] # Unopened => base[s] \in Texts \cup {Unknown}
    BY Types
  <2>2. base[s] # Unopened /\ server[s].at = "up" =>
          server[s].open /\ change.version >= server[s].version /\ base[s] \in {Unknown, server[s].text}
    BY <1>2, <1>7, <2>1, Types
  <2>3. QED
    BY <1>2, <1>7, <2>2 DEF Changed, ServerState
<1>10. \/ base[s] = Unopened /\ Reaches(s, opened)
       \/ base[s] # Unopened /\ Reaches(s, changed)
       \/ base[s] # Unopened /\ UNCHANGED server
  BY <1>2, Types DEF Send
<1> HIDE DEF change, opened, changed
<1>11. /\ \A o \in Servers \ {s} : server'[o] = server[o]
       /\ server'[s].at = server[s].at /\ server'[s].sound
       /\ server[s].at = "up" => server'[s].open
       /\ server[s].at # "up" => ~server'[s].open
       /\ server'[s].open => server'[s].version \in {server[s].version, change.version}
                             /\ server'[s].version <= change.version
  <2>1. CASE base[s] = Unopened
    <3>1. Reaches(s, opened)
      BY <1>10, <2>1
    <3>2. QED
      BY <1>2, <1>7, <1>8, <2>1, <3>1, Reached
  <2>2. CASE base[s] # Unopened /\ Reaches(s, changed)
    BY <1>2, <1>7, <1>9, <2>2, Reached
  <2>3. CASE base[s] # Unopened /\ UNCHANGED server
    BY <1>7, <2>3
  <2>4. QED
    BY <1>10, <2>1, <2>2, <2>3
<1>12. \A n \in Nat : IsNewest(n) /\ change.version <= n => IsNewest(n)'
  BY <1>1, <1>2, <1>11, Types DEF IsNewest
<1>13. VersionsGrow'
  <2>1. \A g \in Flushers : Sending(g) => g = f /\ flush'[g].change = change
    BY <1>1, <1>4, Types DEF Protocol, OneFlush, Flushers
  <2>2. /\ doc.pending # NoChange => change.version <= doc.pending.version
        /\ doc.version # 0 => change.version <= doc.version
        /\ IsNewest(change.version)
    BY <1>1 DEF Protocol, VersionsGrow, change
  <2>3. QED
    BY <1>1, <1>2, <1>5, <1>12, <2>1, <2>2, Types DEF Protocol, VersionsGrow
<1>14. base'[s] # Unopened /\ \A o \in Servers \ {s} : base'[o] = base[o]
  BY <1>2, <1>3, Types
<1>15. RecordedIsOpen' /\ \A o \in Servers : server'[o].sound
  BY <1>1, <1>6, <1>11, <1>14 DEF Protocol, RecordedIsOpen, ClosingPlaces, ClosedPlaces
<1>16. TodoIsThere'
  <2>1. \A o \in Servers : server'[o].at = server[o].at
    BY <1>11
  <2>2. QED
    BY <1>1, <1>4, <2>1, Types DEF Protocol, TodoIsThere, Sending
<1>17. CloseIsQuiet' /\ ForgettingIsQuiet' /\ UnclaimedIsNew' /\ ClaimIsFirst' /\ OneFlush'
  BY <1>1, <1>5, <1>6, Types DEF Protocol, CloseIsQuiet, ForgettingIsQuiet, UnclaimedIsNew,
     ClaimIsFirst, OneFlush, NothingUnderWay, Forgetting, ClosingPlaces
<1>18. QED
  BY <1>13, <1>15, <1>16, <1>17 DEF Protocol

LEMMA SendFailsKeeps ==
  ASSUME IInv, Protocol, NEW f \in Flushers, NEW s \in Servers, SendFails(f, s)
  PROVE  Protocol'
<1>1. UNCHANGED <<editor, doc, base, server, restart>>
  BY DEF SendFails
<1>2. \A g \in Flushers : /\ flush'[g].sending = flush[g].sending
                          /\ flush'[g].orphan = flush[g].orphan
                          /\ flush'[g].change = flush[g].change
                          /\ flush'[g].todo \subseteq flush[g].todo
  <2> DEFINE retry == flush[f].retry \/ server[s].at = "up"
  <2>1. flush' = [flush EXCEPT ![f] = [flush[f] EXCEPT !.todo = flush[f].todo \ {s}, !.retry = retry]]
        /\ flush[f] \in FlushState
    BY Types DEF SendFails
  <2> HIDE DEF retry
  <2>2. QED
    BY <2>1, Types DEF FlushState
<1>3. \A g \in Flushers : Sending(g)' <=> Sending(g)
  BY <1>2 DEF Sending
<1>4. NothingUnderWay' <=> NothingUnderWay
  BY <1>1, <1>3 DEF NothingUnderWay
<1>5. VersionsGrow'
  BY <1>1, <1>2, <1>3 DEF Protocol, VersionsGrow, IsNewest
<1>6. TodoIsThere'
  BY <1>1, <1>2, Types DEF Protocol, TodoIsThere
<1>7. QED
  BY <1>1, <1>3, <1>4, <1>5, <1>6, Types DEF Protocol, RecordedIsOpen, CloseIsQuiet, ForgettingIsQuiet,
         UnclaimedIsNew, ClaimIsFirst, OneFlush, NobodyHasIt, Forgetting

LEMMA RestartKeeps ==
  ASSUME IInv, Protocol, NEW s \in Servers, StartRestart(s) \/ RestartFails(s)
  PROVE  Protocol'
<1>1. UNCHANGED <<editor, doc, base, flush, server>>
  BY DEF StartRestart, RestartFails
<1>2. /\ restart'[s] \in {"none", "spawning"} /\ restart[s] \in {"none", "spawning"}
      /\ \A o \in Servers \ {s} : restart'[o] = restart[o]
  BY Types DEF StartRestart, RestartFails, Moves
<1>3. \A o \in Servers : restart'[o] \in {"unclaiming", "unsending", "forgetting"} \/
                         restart[o] \in {"unclaiming", "unsending", "forgetting"}
                         => restart'[o] = restart[o]
  BY <1>2
<1>4. Forgetting' <=> Forgetting
  BY <1>3 DEF Forgetting
<1>5. ForgettingIsQuiet'
  BY <1>1, <1>3, <1>4 DEF Protocol, ForgettingIsQuiet, NobodyHasIt
<1>6. QED
  BY <1>1, <1>4, <1>5 DEF Protocol, RecordedIsOpen, TodoIsThere, CloseIsQuiet,
         UnclaimedIsNew, ClaimIsFirst, OneFlush, VersionsGrow, IsNewest, NothingUnderWay, Sending,
         NobodyHasIt

LEMMA RespawnKeeps ==
  ASSUME IInv, Protocol, NEW s \in Servers, Respawn(s)
  PROVE  Protocol'
<1>1. /\ UNCHANGED <<editor, doc, flush>>
      /\ base'[s] = Unopened /\ \A o \in Servers \ {s} : base'[o] = base[o]
  BY Types DEF Respawn
<1>2. /\ server'[s].at = "up" /\ ~server'[s].open /\ server'[s].sound = server[s].sound
      /\ \A o \in Servers \ {s} : server'[o] = server[o]
  BY Types DEF Respawn, NewServer
<1>3. /\ restart'[s] \in {"none", "unclaiming"} /\ restart[s] = "spawning"
      /\ \A o \in Servers \ {s} : restart'[o] = restart[o]
      /\ restart'[s] = "unclaiming" => \A o \in Servers \ {s} : base[o] = Unopened
  BY Types DEF Respawn, Moves
<1>4. NobodyHasIt => NobodyHasIt'
  BY <1>1 DEF NobodyHasIt
<1>5. Forgetting => Forgetting'
  BY <1>3 DEF Forgetting
<1>6. ForgettingIsQuiet'
  <2>1. Forgetting' => Forgetting \/ restart'[s] = "unclaiming"
    BY <1>3 DEF Forgetting
  <2>2. restart'[s] = "unclaiming" => NobodyHasIt'
    BY <1>1, <1>3 DEF NobodyHasIt
  <2>3. QED
    BY <1>1, <1>3, <1>4, <2>1, <2>2 DEF Protocol, ForgettingIsQuiet
<1>7. RecordedIsOpen' /\ (\A o \in Servers : server'[o].sound) /\ TodoIsThere'
  BY <1>1, <1>2, Types DEF Protocol, RecordedIsOpen, TodoIsThere
<1>8. VersionsGrow'
  BY <1>1, <1>2 DEF Protocol, VersionsGrow, IsNewest, Sending
<1>9. QED
  BY <1>1, <1>4, <1>5, <1>6, <1>7, <1>8 DEF Protocol, CloseIsQuiet, UnclaimedIsNew, ClaimIsFirst, OneFlush,
     NothingUnderWay, Sending

LEMMA ForgetKeeps ==
  ASSUME IInv, Protocol, NEW s \in Servers, ForgetVersion(s) \/ ForgetSent(s)
  PROVE  Protocol'
<1>1. /\ UNCHANGED <<editor, base, flush, server>> /\ doc'.pending = doc.pending
      /\ \/ /\ restart[s] = "unclaiming" /\ restart'[s] = "unsending"
            /\ doc'.version = 0 /\ doc'.sent = doc.sent
         \/ /\ restart[s] = "unsending" /\ restart'[s] = "forgetting"
            /\ doc'.version = doc.version /\ doc'.sent = 0
      /\ \A o \in Servers \ {s} : restart'[o] = restart[o]
  BY Types DEF ForgetVersion, ForgetSent, Moves, Unclaimed, Unsent, Manager
<1>2. Forgetting /\ Forgetting' /\ NobodyHasIt
  BY <1>1 DEF Forgetting, Protocol, ForgettingIsQuiet
<1>3. VersionsGrow'
  BY <1>1, Types DEF Protocol, VersionsGrow, IsNewest, Sending
<1>4. ForgettingIsQuiet'
  BY <1>1, <1>2 DEF Protocol, ForgettingIsQuiet, NobodyHasIt
<1>5. CloseIsQuiet' /\ ClaimIsFirst' /\ UnclaimedIsNew'
  BY <1>1, <1>2 DEF Protocol, CloseIsQuiet, ClaimIsFirst, UnclaimedIsNew, NothingUnderWay, Sending,
     NobodyHasIt
<1>6. QED
  BY <1>1, <1>3, <1>4, <1>5 DEF Protocol, RecordedIsOpen, TodoIsThere, OneFlush, Sending

LEMMA ForgetRestKeeps ==
  ASSUME IInv, Protocol, NEW s \in Servers, ForgetRest(s)
  PROVE  Protocol'
<1>1. /\ UNCHANGED <<editor, base, server>> /\ DropDebouncer
      /\ restart[s] = "forgetting" /\ restart'[s] = "none"
      /\ \A o \in Servers \ {s} : restart'[o] = restart[o]
  BY Types DEF ForgetRest, Moves
<1>2. /\ NothingUnderWay' /\ doc'.version = 0 /\ doc'.sent = 0
      /\ doc.version = 0 /\ doc.sent = 0
      /\ \A f \in Flushers : /\ flush'[f].sending = flush[f].sending
                             /\ flush'[f].todo = flush[f].todo
  BY <1>1, Dropped DEF Protocol, ForgettingIsQuiet
<1>3. Forgetting /\ NobodyHasIt
  BY <1>1 DEF Forgetting, Protocol, ForgettingIsQuiet
<1>4. VersionsGrow' /\ OneFlush'
  BY <1>1, <1>2, Types DEF Protocol, VersionsGrow, NothingUnderWay, OneFlush
<1>5. QED
  BY <1>1, <1>2, <1>3, <1>4 DEF Protocol, RecordedIsOpen, TodoIsThere, CloseIsQuiet,
       ForgettingIsQuiet, UnclaimedIsNew, ClaimIsFirst, NobodyHasIt, Forgetting

LEMMA StartOrDieKeeps ==
  ASSUME IInv, Protocol, NEW s \in Servers, StartLate(s) \/ Die(s)
  PROVE  Protocol'
<1>1. UNCHANGED <<editor, doc, base, flush, restart>>
  BY DEF StartLate, Die
<1>2. /\ ~server'[s].open /\ server'[s].sound /\ server'[s].at # "absent"
      /\ server'[s].at = "up" => base[s] = Unopened
      /\ \A o \in Servers \ {s} : server'[o] = server[o]
  <2>1. CASE StartLate(s)
    <3>1. server' = [server EXCEPT ![s] = NewServer] /\ base[s] = Unopened
      BY <2>1 DEF StartLate, Protocol, RecordedIsOpen
    <3>2. QED
      BY <3>1, Types DEF NewServer
  <2>2. CASE Die(s)
    <3>1. server' = [server EXCEPT ![s] = [NewServer EXCEPT !.at = "down", !.sound = server[s].sound]]
          /\ server[s].sound
      BY <2>2 DEF Die, Protocol
    <3>2. QED
      BY <3>1, Types DEF NewServer
  <2>3. QED
    BY <2>1, <2>2
<1>3. VersionsGrow'
  BY <1>1, <1>2 DEF Protocol, VersionsGrow, IsNewest, Sending
<1>4. RecordedIsOpen' /\ TodoIsThere' /\ \A o \in Servers : server'[o].sound
  BY <1>1, <1>2, Types DEF Protocol, RecordedIsOpen, TodoIsThere
<1>5. QED
  BY <1>1, <1>3, <1>4 DEF Protocol, CloseIsQuiet, ForgettingIsQuiet, UnclaimedIsNew, ClaimIsFirst,
     OneFlush, NothingUnderWay, Sending, NobodyHasIt, Forgetting

LEMMA ProtocolStep == IInv /\ PInv /\ [Next]_vars => PInv'
<1> SUFFICES ASSUME IInv, PInv, [Next]_vars, mishaps' = {} PROVE Protocol'
  BY DEF PInv
<1>1. Protocol
  BY MishapsStay DEF PInv
<1>2. CASE User \/ Tick
  BY <1>1, <1>2, UserKeeps
<1>3. CASE Editing
  BY <1>1, <1>3, TaskKeeps, OpenKeeps, ClaimKeeps, OpenOnKeeps, EndOpeningKeeps, BumpKeeps,
     QueueKeeps, CloseKeeps, CloseMapsKeeps, CloseRestKeeps DEF Editing
<1>4. ASSUME NEW f \in Flushers, Flushing(f) PROVE Protocol'
  BY <1>1, <1>4, TakeKeeps, EndFlushKeeps, SendKeeps, SendFailsKeeps DEF Flushing
<1>5. ASSUME NEW s \in Servers, Restarting(s) \/ StartLate(s) \/ Die(s) PROVE Protocol'
  BY <1>1, <1>5, RestartKeeps, RespawnKeeps, ForgetKeeps, ForgetRestKeeps, StartOrDieKeeps DEF Restarting
<1>6. CASE UNCHANGED vars
  BY <1>1, <1>6 DEF vars, Protocol, RecordedIsOpen, TodoIsThere, CloseIsQuiet, ForgettingIsQuiet,
         UnclaimedIsNew, ClaimIsFirst, OneFlush, VersionsGrow, IsNewest, NothingUnderWay, Sending,
         NobodyHasIt, Forgetting
<1>7. QED
  BY <1>2, <1>3, <1>4, <1>5, <1>6 DEF Next

LEMMA ProtocolInit == Init => PInv
<1> SUFFICES ASSUME Init PROVE Protocol
  BY DEF PInv
<1>1. /\ editor.at = "idle" /\ doc.version = 0 /\ doc.sent = 0 /\ doc.pending = NoChange
      /\ \A s \in Servers : /\ base[s] = Unopened /\ restart[s] = "none"
                            /\ ~server[s].open /\ server[s].sound
      /\ \A f \in Flushers : ~flush[f].sending
  BY DEF Init, Idle, NewManager, NewServer, NoFlush
<1>2. QED
  BY <1>1 DEF Protocol, RecordedIsOpen, TodoIsThere, CloseIsQuiet, ForgettingIsQuiet,
         UnclaimedIsNew, ClaimIsFirst, OneFlush, VersionsGrow, IsNewest, NothingUnderWay, Sending,
         NobodyHasIt, Forgetting, Flushers, ClosingPlaces

LEMMA ProtocolInvariant == Spec => []PInv
<1>1. IInv /\ PInv /\ [Next]_vars => PInv'
  BY ProtocolStep
<1>2. QED
  BY ProtocolInit, <1>1, Invariant, PTL DEF Spec

(* No server is sent a change or a close of a document that it was not opened, a *)
(* second open, a version that does not grow or an edit of a text that it has     *)
(* not: the editor's opens, the two flushes, closes, deaths and restarts may come *)
(* in any order (lsp/notifications.rs, did_open_broadcast, send_did_change_to_server).   *)
THEOREM MessagesFit == Spec => []ServersAreSound
<1>1. PInv => ServersAreSound
  BY DEF PInv, Protocol, ServersAreSound
<1>2. QED
  BY <1>1, ProtocolInvariant, PTL

=============================================================================
