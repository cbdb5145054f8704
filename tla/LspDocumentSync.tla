--------------------------- MODULE LspDocumentSync ---------------------------
(***************************************************************************)
(* One document and the language servers that serve it: how the editor      *)
(* keeps their copies equal to its buffer.                                  *)
(*                                                                          *)
(* The editor's tick (ovim-core/src/editor/lsp_integration) opens the        *)
(* document, queues changes and closes it; the manager (lsp/notifications.rs)*)
(* debounces changes, and a flush, in the editor's task or in one of its     *)
(* own, sends them; a server that died is replaced by another task           *)
(* (lsp/recovery.rs).  They share the manager's maps.  A step is what a task *)
(* does between two awaits at which it can be suspended: a lock of tokio or  *)
(* a server's start.  A notification never waits: it is queued or refused.   *)
(***************************************************************************)
EXTENDS Integers, FiniteSets

CONSTANTS
    Servers,      \* the servers of the document's group, started or not
    Primary,      \* the one that runs from the start
    Texts,        \* what the buffer may hold
    NoText,
    Budgets       \* bounds on what the surroundings do: edits, reloads and closes
                  \* by the user, servers that die, notifications that are refused
                  \* and restarts that fail, servers that start late

Unopened == "unopened"   \* no entry in server_documents
Unknown == "unknown"     \* an entry without a text: the next update is a full one

ASSUME SyncAssumption ==
    /\ Primary \in Servers
    /\ {NoText, Unopened, Unknown} \cap Texts = {}
    /\ Budgets \subseteq [edits : Nat, crashes : Nat, faults : Nat, starts : Nat]

VARIABLES
    buffer,   \* the text of the buffer, NoText while the file is not loaded
    sync,     \* DocumentSyncState: what the editor thinks the servers have
    editor,   \* where the editor's task is
    doc,      \* the LspManager's maps, for this document
    base,     \* server_documents: the text each server was last sent
    flush,    \* the flushes under way, the editor's and the debouncer's
    server,   \* the servers, and what they really have
    restart,  \* the restart of each server
    mishaps,  \* what went wrong that the code does not make good
    left      \* what is left of the budget

vars == <<buffer, sync, editor, doc, base, flush, server, restart, mishaps, left>>

-----------------------------------------------------------------------------
(* State. *)

Flushers == {"editor", "timer"}

Other(f) == CHOOSE g \in Flushers : g # f

NoVersion == -1

SyncState ==
    [opened : BOOLEAN,                        \* did_open_sent
     modified : BOOLEAN,                      \* buffer_modified
     flushed : Texts \cup {NoText},           \* last_flushed_content
     queued : Texts \cup {NoText},            \* last_queued_content
     target : Nat \cup {NoVersion},           \* target_lsp_version
     force : BOOLEAN,                         \* force_full_resend
     later : BOOLEAN]                         \* open_retry_after is to come

NewSync ==
    [opened |-> FALSE, modified |-> FALSE, flushed |-> NoText, queued |-> NoText,
     target |-> NoVersion, force |-> FALSE, later |-> FALSE]

EditorState ==
    [at : {"idle", "joining", "ensuring", "claiming", "opening", "changing", "bumping", "queueing",
           "noting", "flushing", "refreshing", "closing", "unclaiming", "unsending", "forgetting"},
     next : {"idle", "ensuring", "changing", "refreshing", "flushing", "closing"},
     first : BOOLEAN,         \* this open is the document's first, as the editor sees it
     todo : SUBSET Servers,
     tried : BOOLEAN, delivered : BOOLEAN, claimed : BOOLEAN,
     version : Nat]

Idle ==
    [at |-> "idle", next |-> "idle", first |-> FALSE, todo |-> {}, tried |-> FALSE,
     delivered |-> FALSE, claimed |-> FALSE, version |-> 0]

Change == [text : Texts, version : Nat]
NoChange == [text |-> NoText, version |-> 0]

Manager ==
    [version : Nat,                       \* document_versions, 0 without an entry
     sent : Nat,                          \* last_sent_versions, 0 without an entry
     pending : Change \cup {NoChange}]    \* the debouncer's, whose timer then runs

NewManager == [version |-> 0, sent |-> 0, pending |-> NoChange]

FlushState ==
    [sending : BOOLEAN, change : Change \cup {NoChange},
     todo : SUBSET Servers, synced : BOOLEAN, retry : BOOLEAN,
     orphan : BOOLEAN]   \* its debouncer and its gate are no longer in the maps

NoFlush ==
    [sending |-> FALSE, change |-> NoChange, todo |-> {}, synced |-> FALSE, retry |-> FALSE,
     orphan |-> FALSE]

ServerState ==
    [at : {"absent", "up", "down"},
     open : BOOLEAN, text : Texts \cup {NoText}, version : Nat,
     sound : BOOLEAN]     \* nothing it was sent broke the protocol

NewServer == [at |-> "up", open |-> FALSE, text |-> NoText, version |-> 0, sound |-> TRUE]

Restarts == {"none", "spawning", "unclaiming", "unsending", "forgetting"}

Mishaps == {"used while forgotten", "close cut short"}

TypeOK ==
    /\ buffer \in Texts \cup {NoText}
    /\ sync \in SyncState
    /\ editor \in EditorState
    /\ doc \in Manager
    /\ base \in [Servers -> Texts \cup {Unopened, Unknown}]
    /\ flush \in [Flushers -> FlushState]
    /\ server \in [Servers -> ServerState]
    /\ restart \in [Servers -> Restarts]
    /\ mishaps \subseteq Mishaps
    /\ left \in [edits : Nat, crashes : Nat, faults : Nat, starts : Nat]

Init ==
    /\ buffer \in Texts
    /\ sync = NewSync /\ editor = Idle /\ doc = NewManager
    /\ base = [s \in Servers |-> Unopened]
    /\ flush = [f \in Flushers |-> NoFlush]
    /\ server = [s \in Servers |-> IF s = Primary THEN NewServer
                                   ELSE [NewServer EXCEPT !.at = "absent"]]
    /\ restart = [s \in Servers |-> "none"]
    /\ mishaps = {}
    /\ left \in Budgets

Loaded == buffer # NoText

(* servers_for_document_uri: what is registered, dead or alive. *)
Group == {s \in Servers : server[s].at # "absent"}

At(place) == editor.at = place
Goes(place) == editor' = [editor EXCEPT !.at = place]
Returns == editor' = [Idle EXCEPT !.at = editor.next]

(* Nothing more is asked of a run that went wrong for good. *)
Spends(what) ==
    mishaps = {} /\ left[what] > 0 /\ left' = [left EXCEPT ![what] = @ - 1]

Max2(a, b) == IF a >= b THEN a ELSE b

-----------------------------------------------------------------------------
(* What reaches a server.  A process that died may still be written to, to no *)
(* effect.                                                                   *)

Opened(s, text, version) ==
    [s EXCEPT !.open = TRUE, !.text = text, !.version = version, !.sound = @ /\ ~s.open]

(* A full text, or the difference from what the server is taken to have. *)
Changed(s, from, change) ==
    [s EXCEPT !.text = change.text, !.version = change.version,
              !.sound = @ /\ s.open /\ change.version >= s.version
                          /\ from \in {Unknown, s.text}]

Closed(s) == [s EXCEPT !.open = FALSE, !.text = NoText, !.version = 0, !.sound = @ /\ s.open]

Reaches(s, message) ==
    server' = IF server[s].at = "up" THEN [server EXCEPT ![s] = message] ELSE server

(* The queue of a dead server is closed; that of a live one may be full. *)
Accepts == UNCHANGED left
Refuses(s) ==
    \/ server[s].at = "down" /\ UNCHANGED left
    \/ server[s].at = "up" /\ Spends("faults")

(* A restarted server's documents are forgotten map by map.  What the editor or a *)
(* flush does to this one meanwhile, and an open after its version went, is       *)
(* forgotten by halves.                                                          *)
Forgetting == \E s \in Servers : restart[s] \in {"unclaiming", "unsending", "forgetting"}
Forgotten == Forgetting \/ doc.version = 0

Mishap(m, happens) == mishaps' = IF happens THEN mishaps \cup {m} ELSE mishaps

-----------------------------------------------------------------------------
(* The editor's book-keeping. *)

(* mark_change_flushed, and mark_document_flushed. *)
MarkFlushed(st, text, version) ==
    LET caughtUp == st.target # NoVersion /\ st.target <= version
        target == IF caughtUp THEN NoVersion ELSE st.target
    IN  [st EXCEPT !.flushed = text,
                   !.target = target,
                   !.queued = IF caughtUp /\ @ = text THEN NoText ELSE @,
                   !.modified = Loaded /\ (buffer # text \/ target # NoVersion)]

MarkOpenFlushed(st, text, version) == MarkFlushed([st EXCEPT !.opened = TRUE], text, version)

MarkQueued(st, text, version) ==
    [st EXCEPT !.modified = TRUE, !.queued = text, !.target = version]

(* A mistake for RequestsSeeCurrentText to catch: what was sent is taken to be  *)
(* what the buffer has by now.                                                 *)
ReconciledWithBuffer(st) ==
    IF doc.version > 0 /\ doc.sent > 0
    THEN MarkFlushed([st EXCEPT !.opened = TRUE], buffer, Max2(doc.sent, st.target)) ELSE st

(* reconcile_document_sync_with_manager *)
Reconciled(st) ==
    LET newest(x) == IF x.queued # NoText THEN x.queued ELSE buffer
        noticed == IF doc.sent > 0 THEN [st EXCEPT !.opened = TRUE] ELSE st
        seeded == IF doc.sent > 0 /\ noticed.flushed = NoText /\ ~noticed.force
                  THEN MarkFlushed(noticed, newest(noticed), doc.sent) ELSE noticed
    IN  IF doc.version = 0 THEN st
        ELSE IF seeded.target # NoVersion /\ doc.sent >= seeded.target
             THEN MarkFlushed(seeded, newest(seeded), doc.sent) ELSE seeded

(* document_sync_request_plan *)
PlanOf(st) ==
    CASE ~st.opened -> "open"
      [] st.opened /\ st.modified /\ st.queued = buffer -> "flush"
      [] st.opened /\ ~(st.modified /\ st.queued = buffer)
                   /\ (st.modified \/ st.flushed # buffer) -> "change"
      [] OTHER -> "nothing"

(* send_lsp_changes_if_modified, whether it reconciles. *)
NeedsReconcile(st) ==
    doc.version > 0 /\ (\/ doc.sent > 0 /\ st.flushed = NoText
                        \/ st.target # NoVersion /\ doc.sent >= st.target)

(* send_lsp_changes_if_modified after its reconciliation: whether the buffer   *)
(* equals what was flushed, or what is queued already.                         *)
NothingToSend(st) == ~st.force /\ st.target = NoVersion /\ st.flushed = buffer
AlreadyQueued(st) == ~st.force /\ st.queued = buffer

-----------------------------------------------------------------------------
(* The user.  The editor's task serves keys and ticks in turn.  The user opens  *)
(* the file again once its didClose was tried.                                  *)

(* mark_buffer_modified *)
Edit ==
    /\ At("idle") /\ Loaded /\ Spends("edits")
    /\ buffer' \in Texts \ {buffer}
    /\ sync' = [sync EXCEPT !.modified = TRUE]
    /\ UNCHANGED <<editor, doc, base, flush, server, restart, mishaps>>

(* mark_buffer_modified_force_send, after a reload from disk. *)
Reload ==
    /\ At("idle") /\ Loaded /\ Spends("edits")
    /\ buffer' \in Texts
    /\ sync' = [sync EXCEPT !.modified = TRUE, !.flushed = NoText, !.force = TRUE]
    /\ UNCHANGED <<editor, doc, base, flush, server, restart, mishaps>>

(* The buffer goes and queue_lsp_did_close; send_lsp_close_if_needed follows. *)
Unload ==
    /\ At("idle") /\ Loaded /\ Spends("edits")
    /\ buffer' = NoText
    /\ editor' = [Idle EXCEPT !.at = "flushing", !.next = "closing"]
    /\ UNCHANGED <<sync, doc, base, flush, server, restart, mishaps>>

Load ==
    /\ At("idle") /\ ~Loaded
    /\ buffer' \in Texts
    /\ UNCHANGED <<left, sync, editor, doc, base, flush, server, restart, mishaps>>

(* A request, or a save: ensure_lsp_document_synced first. *)
Request ==
    /\ At("idle") /\ Loaded
    /\ editor' = [Idle EXCEPT !.at = "ensuring"]
    /\ UNCHANGED <<buffer, sync, doc, base, flush, server, restart, mishaps, left>>

-----------------------------------------------------------------------------
(* The editor's tick.                                                         *)

(* sync_open_documents: a document that was opened and that the manager does   *)
(* not know any more starts over.                                             *)
Tick ==
    /\ At("idle") /\ Loaded
    /\ sync' = IF sync.opened /\ doc.version = 0 THEN NewSync ELSE sync
    /\ Goes("joining")
    /\ UNCHANGED <<buffer, doc, base, flush, server, restart, mishaps, left>>

(* open_document_on_joined_servers; ensure_lsp_document_synced if not opened.   *)
Join ==
    /\ At("joining")
    /\ editor' = [Idle EXCEPT
          !.at = CASE sync.later -> "changing"
                   [] ~sync.later /\ ~sync.opened -> "ensuring"
                   [] ~sync.later /\ sync.opened ->
                        IF \E s \in Group : base[s] = Unopened THEN "claiming" ELSE "changing",
          !.next = "changing"]
    /\ UNCHANGED <<buffer, sync, doc, base, flush, server, restart, mishaps, left>>

RetryTimeComes ==
    /\ sync.later /\ sync' = [sync EXCEPT !.later = FALSE]
    /\ UNCHANGED <<buffer, editor, doc, base, flush, server, restart, mishaps, left>>

(* ensure_lsp_document_synced, up to its first message. *)
Ensure ==
    /\ At("ensuring")
    /\ sync' = Reconciled(sync)
    /\ editor' = CASE PlanOf(sync') = "open" -> [editor EXCEPT !.at = "claiming", !.first = TRUE]
                   [] PlanOf(sync') = "flush" -> [editor EXCEPT !.at = "flushing"]
                   [] PlanOf(sync') = "change" -> [editor EXCEPT !.at = "bumping"]
                   [] OTHER -> [Idle EXCEPT !.at = editor.next]
    /\ UNCHANGED <<buffer, doc, base, flush, server, restart, mishaps, left>>

(* send_lsp_changes_if_modified, up to did_change_broadcast. *)
StreamChanges ==
    /\ At("changing")
    /\ LET st == IF NeedsReconcile(sync) THEN Reconciled(sync) ELSE sync
           clean == [st EXCEPT !.modified = FALSE, !.queued = NoText]
       IN  IF st.opened /\ st.modified /\ ~NothingToSend(st) /\ ~AlreadyQueued(st)
           THEN sync' = st /\ editor' = [Idle EXCEPT !.at = "bumping", !.next = "refreshing"]
           ELSE /\ sync' = IF st.opened /\ st.modified /\ NothingToSend(st) THEN clean ELSE st
                /\ editor' = [Idle EXCEPT !.at = "refreshing"]
    /\ UNCHANGED <<buffer, doc, base, flush, server, restart, mishaps, left>>

(* refresh_current_lsp_sync_versions *)
Refresh ==
    /\ At("refreshing")
    /\ sync' = Reconciled(sync)
    /\ Goes("idle")
    /\ UNCHANGED <<buffer, doc, base, flush, server, restart, mishaps, left>>

-----------------------------------------------------------------------------
(* did_open_broadcast                                                         *)

Claim ==
    /\ At("claiming")
    /\ editor' = [editor EXCEPT !.at = "opening", !.todo = Group, !.claimed = doc.version = 0,
                                !.version = IF doc.version = 0 THEN 1 ELSE Max2(doc.sent, 1)]
    /\ doc' = [doc EXCEPT !.version = Max2(@, 1)]
    /\ Mishap("used while forgotten", Forgetting)
    /\ UNCHANGED <<buffer, sync, base, flush, server, restart, left>>

(* open_document_on_server, where another entry hides the document: it loses    *)
(* its text.                                                                   *)
FindOpen(s) ==
    /\ At("opening") /\ s \in editor.todo /\ base[s] # Unopened
    /\ base' = [base EXCEPT ![s] = Unknown]
    /\ editor' = [editor EXCEPT !.todo = @ \ {s}]
    /\ UNCHANGED <<buffer, sync, doc, flush, server, restart, mishaps, left>>

OpenOn(s) ==
    /\ At("opening") /\ s \in editor.todo /\ base[s] = Unopened
    /\ base' = [base EXCEPT ![s] = buffer]
    /\ Reaches(s, Opened(server[s], buffer, editor.version))
    /\ editor' = [editor EXCEPT !.todo = @ \ {s}, !.tried = TRUE, !.delivered = TRUE]
    /\ Mishap("used while forgotten", Forgotten)
    /\ Accepts
    /\ UNCHANGED <<buffer, sync, doc, flush, restart>>

OpenIsRefused(s) ==
    /\ At("opening") /\ s \in editor.todo /\ base[s] = Unopened
    /\ editor' = [editor EXCEPT !.todo = @ \ {s}, !.tried = TRUE]
    /\ Refuses(s)
    /\ UNCHANGED <<buffer, sync, doc, base, flush, server, restart, mishaps>>

(* The claim is kept unless every server refused; Ok is what the editor takes   *)
(* for "the servers have the buffer".                                          *)
EndOpening ==
    LET refused == editor.tried /\ ~editor.delivered
        sent == IF editor.delivered /\ doc.sent = 0 THEN editor.version ELSE doc.sent
    IN  /\ At("opening") /\ editor.todo = {}
        /\ doc' = [doc EXCEPT !.version = IF refused /\ editor.claimed THEN 0 ELSE @,
                              !.sent = sent]
        /\ sync' = CASE refused /\ editor.next = "changing" -> [sync EXCEPT !.later = TRUE]
                     [] refused /\ editor.next # "changing" -> sync
                     [] ~refused /\ editor.first -> MarkOpenFlushed(sync, buffer, sent)
                     [] ~refused /\ ~editor.first -> sync
        /\ Returns
        /\ Mishap("used while forgotten", Forgotten)
        /\ UNCHANGED <<buffer, base, flush, server, restart, left>>

-----------------------------------------------------------------------------
(* did_change                                                                 *)

Bump ==
    /\ At("bumping")
    /\ doc' = [doc EXCEPT !.version = @ + 1]
    /\ editor' = [editor EXCEPT !.at = "queueing", !.version = doc.version + 1]
    /\ Mishap("used while forgotten", Forgotten)
    /\ UNCHANGED <<buffer, sync, base, flush, server, restart, left>>

(* Without a text to start from every server is to get the full one. *)
Blind == sync.flushed = NoText \/ (editor.next = "refreshing" /\ sync.force)

Queue ==
    /\ At("queueing")
    /\ base' = [s \in Servers |-> IF Blind /\ base[s] # Unopened THEN Unknown ELSE base[s]]
    /\ doc' = [doc EXCEPT !.pending = [text |-> buffer, version |-> editor.version]]
    /\ Goes("noting")
    /\ Mishap("used while forgotten", Forgetting \/ doc.version # editor.version)
    /\ UNCHANGED <<buffer, sync, flush, server, restart, left>>

(* mark_change_queued with the version read again; a request flushes at once.   *)
NoteQueued ==
    /\ At("noting")
    /\ sync' = [MarkQueued(sync, buffer, doc.version) EXCEPT
                   !.force = @ /\ editor.next # "refreshing"]
    /\ IF editor.next = "refreshing" THEN Returns ELSE Goes("flushing")
    /\ UNCHANGED <<buffer, doc, base, flush, server, restart, mishaps, left>>

-----------------------------------------------------------------------------
(* flush_pending_changes_broadcast                                            *)

(* A mistake for ServersAreSound to catch: flushes of one document are not kept apart. *)
GateIsOpen(f) == f \in Flushers

(* Whoever comes past the document's gate takes what is pending, and with it    *)
(* cancels the timer: the editor, or a task that the timer asked for.           *)
GateIsFree(f) == ~(flush[Other(f)].sending /\ ~flush[Other(f)].orphan)

Take(f) ==
    /\ f = "editor" => At("flushing")
    /\ ~flush[f].sending /\ GateIsFree(f) /\ doc.pending # NoChange
    /\ flush' = [flush EXCEPT ![f] =
          [NoFlush EXCEPT !.sending = TRUE, !.change = doc.pending, !.todo = Group]]
    /\ doc' = [doc EXCEPT !.pending = NoChange]
    /\ UNCHANGED <<buffer, sync, editor, base, server, restart, mishaps, left>>

NothingToFlush ==
    /\ At("flushing") /\ ~flush["editor"].sending
    /\ GateIsFree("editor") /\ doc.pending = NoChange
    /\ Returns
    /\ UNCHANGED <<buffer, sync, doc, base, flush, server, restart, mishaps, left>>

(* send_did_change_to_server *)
Send(f, s) ==
    LET change == flush[f].change
    IN  /\ flush[f].sending /\ s \in flush[f].todo
        /\ base' = [base EXCEPT ![s] = change.text]
        /\ CASE base[s] = Unopened -> Reaches(s, Opened(server[s], change.text, change.version))
             [] base[s] = change.text -> UNCHANGED server
             [] OTHER -> Reaches(s, Changed(server[s], base[s], change))
        /\ flush' = [flush EXCEPT ![f].todo = @ \ {s}, ![f].synced = TRUE]
        /\ Mishap("used while forgotten",
                  Forgetting \/ flush[f].orphan \/ (base[s] = Unopened /\ Forgotten))
        /\ Accepts
        /\ UNCHANGED <<buffer, sync, editor, doc, restart>>

(* A mistake for BaselineIsServerText to catch: the text is recorded before the server took it. *)
SendFailsRecorded(f, s) ==
    /\ flush[f].sending /\ s \in flush[f].todo
    /\ base[s] = flush[f].change.text => server[s].at = "down"
    /\ base' = [base EXCEPT ![s] = flush[f].change.text]
    /\ flush' = [flush EXCEPT ![f].todo = @ \ {s}, ![f].retry = @ \/ server[s].at = "up"]
    /\ Refuses(s)
    /\ UNCHANGED <<buffer, sync, editor, doc, server, restart, mishaps>>

(* A server known to be dead is given up; a full queue is tried again later.     *)
SendFails(f, s) ==
    /\ flush[f].sending /\ s \in flush[f].todo
    /\ base[s] = flush[f].change.text => server[s].at = "down"
    /\ flush' = [flush EXCEPT ![f].todo = @ \ {s}, ![f].retry = @ \/ server[s].at = "up"]
    /\ Refuses(s)
    /\ UNCHANGED <<buffer, sync, editor, doc, base, server, restart, mishaps>>

(* A mistake for EventuallySynced to catch: the refused change is left to the next one. *)
EndFlushUnarmed(f) ==
    LET x == flush[f]
        sent == x.synced /\ ~x.retry
    IN  /\ x.sending /\ x.todo = {}
        /\ doc' = IF sent THEN [doc EXCEPT !.sent = x.change.version] ELSE doc
        /\ flush' = [flush EXCEPT ![f] = NoFlush]
        /\ sync' = IF f = "editor" /\ editor.next # "closing" /\ sent
                   THEN MarkOpenFlushed(sync, x.change.text, x.change.version) ELSE sync
        /\ editor' = IF f = "editor" THEN [Idle EXCEPT !.at = editor.next] ELSE editor
        /\ UNCHANGED <<buffer, base, server, restart, mishaps, left>>

(* The change goes back to the debouncer unless a newer one is there, or is     *)
(* recorded as sent.  The editor marks as flushed what the servers got; a close  *)
(* goes on to its didClose, or gives up for good.                              *)
EndFlush(f) ==
    LET x == flush[f]
        sent == x.synced /\ ~x.retry
        mine == f = "editor"
        closing == mine /\ editor.next = "closing"
    IN  /\ x.sending /\ x.todo = {}
        /\ doc' = CASE x.retry /\ ~x.orphan /\ doc.pending = NoChange ->
                          [doc EXCEPT !.pending = x.change]
                    [] sent -> [doc EXCEPT !.sent = x.change.version]
                    [] OTHER -> doc
        /\ flush' = [flush EXCEPT ![f] = NoFlush]
        /\ sync' = CASE closing /\ x.retry -> NewSync
                     [] mine /\ ~closing /\ sent ->
                            MarkOpenFlushed(sync, x.change.text, x.change.version)
                     [] OTHER -> sync
        /\ editor' = CASE closing /\ x.retry -> Idle
                       [] mine /\ ~(closing /\ x.retry) -> [Idle EXCEPT !.at = editor.next]
                       [] ~mine -> editor
        /\ mishaps' = mishaps \cup (IF closing /\ x.retry THEN {"close cut short"} ELSE {})
                              \cup (IF Forgetting \/ x.orphan THEN {"used while forgotten"} ELSE {})
        /\ UNCHANGED <<buffer, base, server, restart, left>>

-----------------------------------------------------------------------------
(* did_close_broadcast after its flush.                                        *)

(* A mistake for TypeOK to catch: the version is counted down, as if the document were claimed. *)
UnclaimedOnce == [doc EXCEPT !.version = @ - 1]

Unclaimed == [doc EXCEPT !.version = 0]
Unsent == [doc EXCEPT !.sent = 0]
DropDebouncer ==
    /\ doc' = [doc EXCEPT !.pending = NoChange]
    /\ flush' = [f \in Flushers |-> [flush[f] EXCEPT !.orphan = flush[f].sending]]

CloseOnServers ==
    /\ At("closing")
    /\ \E deaf \in SUBSET {s \in Group : base[s] # Unopened /\ server[s].at = "up"} :
         /\ deaf # {} => Spends("faults")
         /\ deaf = {} => UNCHANGED left
         /\ server' = [s \in Servers |->
               IF base[s] # Unopened /\ server[s].at = "up" /\ s \notin deaf
               THEN Closed(server[s]) ELSE server[s]]
         /\ Mishap("close cut short", deaf # {})
    /\ Goes("unclaiming")
    /\ UNCHANGED <<buffer, sync, doc, base, flush, restart>>

CloseVersion ==
    /\ At("unclaiming") /\ Goes("unsending")
    /\ doc' = Unclaimed
    /\ UNCHANGED <<buffer, sync, base, flush, server, restart, mishaps, left>>

CloseSent ==
    /\ At("unsending") /\ Goes("forgetting")
    /\ doc' = Unsent
    /\ UNCHANGED <<buffer, sync, base, flush, server, restart, mishaps, left>>

CloseRest ==
    /\ At("forgetting") /\ Goes("idle")
    /\ DropDebouncer
    /\ base' = [s \in Servers |-> Unopened]
    /\ sync' = NewSync
    /\ UNCHANGED <<buffer, server, restart, mishaps, left>>

-----------------------------------------------------------------------------
(* Servers start late, die and are replaced.                                   *)

StartLate(s) ==
    /\ server[s].at = "absent" /\ Spends("starts")
    /\ server' = [server EXCEPT ![s] = NewServer]
    /\ UNCHANGED <<buffer, sync, editor, doc, base, flush, restart, mishaps>>

Die(s) ==
    /\ server[s].at = "up" /\ Spends("crashes")
    /\ server' = [server EXCEPT ![s] = [NewServer EXCEPT !.at = "down", !.sound = server[s].sound]]
    /\ UNCHANGED <<buffer, sync, editor, doc, base, flush, restart, mishaps>>

Moves(s, from, to) == restart[s] = from /\ restart' = [restart EXCEPT ![s] = to]

(* supervise_servers *)
StartRestart(s) ==
    /\ server[s].at = "down" /\ Moves(s, "none", "spawning")
    /\ UNCHANGED <<buffer, sync, editor, doc, base, flush, server, mishaps, left>>

RestartFails(s) ==
    /\ Moves(s, "spawning", "none") /\ Spends("faults")
    /\ UNCHANGED <<buffer, sync, editor, doc, base, flush, server, mishaps>>

(* restart_server, and forget_server_documents up to its first lock: a document *)
(* that another server has is not forgotten.                                   *)
Respawn(s) ==
    /\ Moves(s, "spawning", IF base[s] # Unopened /\ \A o \in Servers \ {s} : base[o] = Unopened
                            THEN "unclaiming" ELSE "none")
    /\ server' = [server EXCEPT ![s] = [NewServer EXCEPT !.sound = server[s].sound]]
    /\ base' = [base EXCEPT ![s] = Unopened]
    /\ UNCHANGED <<buffer, sync, editor, doc, flush, mishaps, left>>

ForgetVersion(s) ==
    /\ Moves(s, "unclaiming", "unsending")
    /\ doc' = Unclaimed
    /\ UNCHANGED <<buffer, sync, editor, base, flush, server, mishaps, left>>

ForgetSent(s) ==
    /\ Moves(s, "unsending", "forgetting")
    /\ doc' = Unsent
    /\ UNCHANGED <<buffer, sync, editor, base, flush, server, mishaps, left>>

ForgetRest(s) ==
    /\ Moves(s, "forgetting", "none")
    /\ DropDebouncer
    /\ UNCHANGED <<buffer, sync, editor, base, server, mishaps, left>>

-----------------------------------------------------------------------------
User == Edit \/ Reload \/ Unload \/ Load \/ Request

Editing ==
    \/ Join \/ RetryTimeComes \/ Ensure \/ StreamChanges \/ Refresh
    \/ Claim \/ EndOpening
    \/ \E s \in Servers : FindOpen(s) \/ OpenOn(s) \/ OpenIsRefused(s)
    \/ Bump \/ Queue \/ NoteQueued
    \/ NothingToFlush
    \/ CloseOnServers \/ CloseVersion \/ CloseSent \/ CloseRest

Flushing(f) ==
    \/ Take(f) \/ EndFlush(f)
    \/ \E s \in Servers : Send(f, s) \/ SendFails(f, s)

Restarting(s) ==
    \/ StartRestart(s) \/ RestartFails(s) \/ Respawn(s)
    \/ ForgetVersion(s) \/ ForgetSent(s) \/ ForgetRest(s)

Next ==
    \/ User \/ Tick \/ Editing
    \/ \E f \in Flushers : Flushing(f)
    \/ \E s \in Servers : Restarting(s) \/ StartLate(s) \/ Die(s)

Spec == Init /\ [][Next]_vars

(* Ticks come between the user's keys, tasks that were spawned run, timers fire *)
(* and a dead server is restarted (a budget's faults stay below the attempts  *)
(* that supervise_servers makes).                                                    *)
Fairness ==
    /\ SF_vars(Tick) /\ WF_vars(Editing) /\ WF_vars(RetryTimeComes)
    /\ \A f \in Flushers : WF_vars(Flushing(f))
    /\ \A s \in Servers : WF_vars(Restarting(s))

FairSpec == Spec /\ Fairness

-----------------------------------------------------------------------------
(* Incremental edits are computed against server_documents, so what it records  *)
(* for a live server is what that server really has (OV-00326).                 *)
BaselineIsServerText ==
    \A s \in Servers : server[s].open /\ base[s] \in Texts =>
        server[s].text = base[s]

(* No server is sent a change or a close of a document it was not opened, a      *)
(* second open, a version that does not grow, or an edit of a text it has not.  *)
ServersAreSound == mishaps = {} => \A s \in Servers : server[s].sound

Synced(s) == server[s].at = "up" => server[s].open /\ server[s].text = buffer

(* ensure_lsp_document_synced has nothing to do only where the request's server  *)
(* has the buffer, if it was opened there.                                      *)
RequestsSeeCurrentText ==
    At("ensuring") /\ PlanOf(Reconciled(sync)) = "nothing" /\ mishaps = {} =>
        \A s \in Servers : base[s] # Unopened => Synced(s)

(* When the user stops, every live server comes to have the buffer.             *)
EventuallySynced ==
    <>[](Loaded /\ mishaps = {} => \A s \in Servers : Synced(s))
=============================================================================
