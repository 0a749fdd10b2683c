------------------------------ MODULE Pipeline ------------------------------
(***************************************************************************)
(* The document pipeline of the language server: the notification handlers *)
(* of Backend (crates/sass-lsp/src/main.rs), the worker task               *)
(* (crates/sass-lsp/src/worker.rs) and the maps they share.                *)
(*                                                                         *)
(* These handlers run on the serving task and never await, so each is one  *)
(* action: the worker cannot see source_texts, and appending to the task   *)
(* channel commutes with whatever the worker does meanwhile.  The worker   *)
(* is split wherever another task can act between two of its accesses to   *)
(* a shared map.  Time is abstract: the debounce timer may fire whenever   *)
(* it is armed.  Which file imports which is fixed.                        *)
(***************************************************************************)
EXTENDS Integers, Sequences, FiniteSets

CONSTANTS
    Uri,            \* files of the workspace
    Imports,        \* Uri -> the files its @use and @forward rules name
    Text,           \* file contents
    Oversize,       \* contents longer than max_file_size
    Unparsable,     \* contents on which the parser panics
    EditorFiles,    \* the files the user opens in the editor
    DiskFiles,      \* the files other programs write or delete
    OpenVersion,    \* version numbers a document may be opened with
    OnDisk,         \* the text every file has on disk at the start
    MaxEvents,      \* bound on what the user and other programs do
    None

ASSUME PipelineConstants ==
    /\ Imports \in [Uri -> SUBSET Uri]
    /\ Oversize \subseteq Text /\ Unparsable \subseteq Text
    /\ EditorFiles \subseteq Uri /\ DiskFiles \subseteq Uri
    /\ OpenVersion \subseteq Nat
    /\ OnDisk \in Text
    /\ MaxEvents \in Nat
    /\ None \notin Text \cup Nat \cup [version : Nat, text : Text]

VARIABLES
    editor,         \* the editor's buffers: version and text, or None
    disk,           \* the text of each file on disk, or None
    watched,        \* watcher events not yet delivered: "changed", "deleted"
    events,         \* how much the user and other programs have done
    source_texts,   \* text of each open file
    documents,      \* analysed copy of each open file: version and text
    tasks,          \* the unbounded channel to the worker
    files,          \* the module graph: the text each file was indexed with
    edges,          \* the module graph: resolved imports of indexed files
    pending,        \* edits waiting for the debounce timer
    has_pending,    \* the timer is armed
    batch,          \* drained edits the worker has not started on
    job,            \* what the worker is doing
    shown           \* the diagnostics last published for each file

env == <<editor, disk, watched, events>>
graph == <<files, edges>>
worker == <<pending, has_pending, batch, job>>
vars == <<env, source_texts, documents, tasks, graph, worker, shown>>

Edit == [version : Nat, text : Text]

\* Diagnostics are named by what they were computed from: the text, and the
\* indexed texts of the file itself and of the imports that resolved.
Diagnostics == [version : Nat \cup {None}, text : Text,
                seen : [Uri -> Text \cup {None}]]

ASSUME NoneIsNoDiagnostics == None \notin Diagnostics

ASSUME NoneIsNoEvent == None \notin {"changed", "deleted"}

Idle == [step |-> "idle", uri |-> None, edit |-> None, is_current |-> FALSE,
         rest |-> {}, parsed |-> {}]

Init ==
    /\ editor = [u \in Uri |-> None]
    /\ disk = [u \in Uri |-> OnDisk]
    /\ watched = [u \in Uri |-> None]
    /\ events = 0
    /\ source_texts = [u \in Uri |-> None]
    /\ documents = [u \in Uri |-> None]
    /\ tasks = <<>>
    /\ files = [u \in Uri |-> None]
    /\ edges = [u \in Uri |-> {}]
    /\ pending = [u \in Uri |-> None]
    /\ has_pending = FALSE
    /\ batch = [u \in Uri |-> None]
    /\ job = Idle
    /\ shown = [u \in Uri |-> None]

-----------------------------------------------------------------------------
(* The module graph, as far as the pipeline sees it.                        *)

\* Imports resolve against the files that exist on disk.
Resolved(u) == {t \in Imports[u] : disk[t] # None}

\* The imports of u, and theirs, that index_dependency indexes because the
\* graph does not have them yet: the smallest set closed under that.
Dependencies(u) ==
    LET Needs(v) == {t \in Resolved(v) : t # u /\ files[t] = None
                                         /\ disk[t] \notin Unparsable}
        Closed(S) == \A v \in S \cup {u} : Needs(v) \subseteq S
    IN  {t \in Uri : \A S \in SUBSET Uri : Closed(S) => t \in S}

IndexFile(u, x) ==
    /\ files' = [v \in Uri |-> IF v = u THEN x
                               ELSE IF v \in Dependencies(u) THEN disk[v]
                               ELSE files[v]]
    /\ edges' = [v \in Uri |-> IF v \in Dependencies(u) \cup {u}
                               THEN Resolved(v) ELSE edges[v]]

\* check_file on a copy of u, against the current graph.
Check(u, version, x) ==
    [version |-> version, text |-> x,
     seen |-> [t \in Uri |-> IF t \in edges[u] \cup {u} THEN files[t] ELSE None]]

CheckDocument(u) == Check(u, documents[u].version, documents[u].text)

-----------------------------------------------------------------------------
(* The editor and other programs, and the handlers of their notifications.  *)

\* Mutant: the newest task goes first.
SendFirst(kind, u, edit) ==
    tasks' = <<[kind |-> kind, uri |-> u, edit |-> edit]>> \o tasks

SendTask(kind, u, edit) ==
    tasks' = Append(tasks, [kind |-> kind, uri |-> u, edit |-> edit])

Happens == events < MaxEvents /\ events' = events + 1

DidOpen(u, version, x) ==
    LET edit == [version |-> version, text |-> x] IN
    /\ Happens
    /\ editor[u] = None
    /\ editor' = [editor EXCEPT ![u] = edit]
    /\ IF x \in Oversize
         THEN UNCHANGED <<source_texts, documents, tasks>>
         ELSE /\ source_texts' = [source_texts EXCEPT ![u] = x]
              /\ documents' = IF x \in Unparsable THEN documents
                              ELSE [documents EXCEPT ![u] = edit]
              /\ SendTask("parse", u, edit)
    /\ UNCHANGED <<disk, watched, graph, worker, shown>>

DidChange(u, x) ==
    LET edit == [version |-> editor[u].version + 1, text |-> x] IN
    /\ Happens
    /\ editor[u] # None
    /\ editor' = [editor EXCEPT ![u] = edit]
    /\ IF x \in Oversize
         THEN UNCHANGED <<source_texts, tasks>>
         ELSE /\ source_texts' = [source_texts EXCEPT ![u] = x]
              /\ SendTask("parse", u, edit)
    /\ UNCHANGED <<disk, watched, documents, graph, worker, shown>>

DidClose(u) ==
    /\ Happens
    /\ editor[u] # None
    /\ editor' = [editor EXCEPT ![u] = None]
    /\ source_texts' = [source_texts EXCEPT ![u] = None]
    /\ SendTask("close", u, None)
    /\ UNCHANGED <<disk, watched, documents, graph, worker, shown>>

\* The user saves; did_save does nothing, the watcher sees the write.
Save(u) ==
    /\ Happens
    /\ editor[u] # None /\ disk[u] # editor[u].text
    /\ disk' = [disk EXCEPT ![u] = editor[u].text]
    /\ watched' = [watched EXCEPT ![u] = "changed"]
    /\ UNCHANGED <<editor, source_texts, documents, tasks, graph, worker, shown>>

DiskWrite(u, x) ==
    /\ Happens
    /\ disk[u] # x
    /\ disk' = [disk EXCEPT ![u] = x]
    /\ watched' = [watched EXCEPT ![u] = "changed"]
    /\ UNCHANGED <<editor, source_texts, documents, tasks, graph, worker, shown>>

DiskDelete(u) ==
    /\ Happens
    /\ disk[u] # None
    /\ disk' = [disk EXCEPT ![u] = None]
    /\ watched' = [watched EXCEPT ![u] = "deleted"]
    /\ UNCHANGED <<editor, source_texts, documents, tasks, graph, worker, shown>>

DidChangeWatchedFiles(u) ==
    /\ watched[u] # None
    /\ watched' = [watched EXCEPT ![u] = None]
    /\ IF source_texts[u] # None
         THEN UNCHANGED tasks
         ELSE SendTask(IF watched[u] = "deleted" THEN "delete" ELSE "change",
                       u, None)
    /\ UNCHANGED <<editor, disk, events, source_texts, documents, graph, worker,
                   shown>>

CheckWorkspaceCommand ==
    /\ Happens
    /\ SendTask("check", None, None)
    /\ UNCHANGED <<editor, disk, watched, source_texts, documents, graph, worker,
                   shown>>

-----------------------------------------------------------------------------
(* The worker loop.                                                         *)

Receive(kind) ==
    /\ job = Idle
    /\ tasks # <<>>
    /\ Head(tasks).kind = kind
    /\ tasks' = Tail(tasks)

\* Mutants: the edit that waits stays; nothing is removed.
FirstWins(old, new) == IF old = None THEN new ELSE old
NotRemoved(map, u) == map

\* pending.insert, and remove on pending and documents.
Coalesced(old, new) == new
Removed(map, u) == [map EXCEPT ![u] = None]

\* A newer edit replaces the one waiting and restarts the timer.
ReceiveParse ==
    LET task == Head(tasks) IN
    /\ Receive("parse")
    /\ pending' = [pending EXCEPT ![task.uri] = Coalesced(@, task.edit)]
    /\ has_pending' = TRUE
    /\ UNCHANGED <<env, source_texts, documents, graph, batch, job, shown>>

ReceiveClose ==
    LET u == Head(tasks).uri IN
    /\ Receive("close")
    /\ pending' = Removed(pending, u)
    /\ documents' = Removed(documents, u)
    /\ job' = [Idle EXCEPT !.step = "clear", !.uri = u]
    /\ UNCHANGED <<env, source_texts, graph, has_pending, batch, shown>>

ClearDiagnostics ==
    /\ job.step = "clear"
    /\ shown' = [shown EXCEPT ![job.uri] = None]
    /\ job' = Idle
    /\ UNCHANGED <<env, source_texts, documents, tasks, graph, pending,
                   has_pending, batch>>

\* Mutant: the changed file is refreshed, not its dependents.
RefreshItself(u) == job' = [Idle EXCEPT !.step = "refresh", !.rest = {u}]

\* refresh_dependents starts with the dependents at this moment.
Refresh(u) ==
    job' = [Idle EXCEPT !.step = "refresh", !.rest = {v \in Uri : u \in edges'[v]}]

\* A file that is gone, too long or unparsable by now is left as it was.
ReceiveExternalChange ==
    LET u == Head(tasks).uri IN
    /\ Receive("change")
    /\ IF disk[u] = None \/ disk[u] \in Oversize \cup Unparsable
         THEN UNCHANGED <<graph, job>>
         ELSE IndexFile(u, disk[u]) /\ Refresh(u)
    /\ UNCHANGED <<env, source_texts, documents, pending, has_pending, batch, shown>>

ReceiveExternalDelete ==
    LET u == Head(tasks).uri IN
    /\ Receive("delete")
    /\ files' = [files EXCEPT ![u] = None]
    /\ edges' = [edges EXCEPT ![u] = {}]
    /\ Refresh(u)
    /\ UNCHANGED <<env, source_texts, documents, pending, has_pending, batch, shown>>

\* One dependent: its entry stays locked while its diagnostics are published.
RefreshOne(v) ==
    /\ job.step = "refresh"
    /\ v \in job.rest
    /\ shown' = IF documents[v] = None THEN shown
                ELSE [shown EXCEPT ![v] = CheckDocument(v)]
    /\ job' = IF job.rest = {v} THEN Idle ELSE [job EXCEPT !.rest = @ \ {v}]
    /\ UNCHANGED <<env, source_texts, documents, tasks, graph, pending,
                   has_pending, batch>>

RefreshNone ==
    /\ job.step = "refresh"
    /\ job.rest = {}
    /\ job' = Idle
    /\ UNCHANGED <<env, source_texts, documents, tasks, graph, pending,
                   has_pending, batch, shown>>

TimerFires ==
    /\ job = Idle
    /\ has_pending
    /\ batch' = pending
    /\ pending' = [u \in Uri |-> None]
    /\ job' = [Idle EXCEPT !.step = "drain"]
    /\ UNCHANGED <<env, source_texts, documents, tasks, graph, has_pending, shown>>

\* The next edit of the batch: parse it and compare its version with the
\* document's; a parser panic drops it.
FlushParse(u) ==
    LET edit == batch[u] IN
    /\ job.step = "drain"
    /\ edit # None
    /\ batch' = [batch EXCEPT ![u] = None]
    /\ job' = IF edit.text \in Unparsable THEN job
              ELSE [Idle EXCEPT
                      !.step = "index", !.uri = u, !.edit = edit,
                      !.is_current = documents[u] = None
                                     \/ documents[u].version <= edit.version]
    /\ UNCHANGED <<env, source_texts, documents, tasks, graph, pending,
                   has_pending, shown>>

FlushIndex ==
    /\ job.step = "index"
    /\ IndexFile(job.uri, job.edit.text)
    /\ job' = [job EXCEPT !.step = "store"]
    /\ UNCHANGED <<env, source_texts, documents, tasks, pending, has_pending,
                   batch, shown>>

FlushStore ==
    /\ job.step = "store"
    /\ documents' = [documents EXCEPT ![job.uri] = job.edit]
    /\ job' = IF job.is_current THEN [job EXCEPT !.step = "publish"]
              ELSE [Idle EXCEPT !.step = "drain"]
    /\ UNCHANGED <<env, source_texts, tasks, graph, pending, has_pending, batch,
                   shown>>

FlushPublish ==
    /\ job.step = "publish"
    /\ shown' = [shown EXCEPT ![job.uri] =
                   Check(job.uri, job.edit.version, job.edit.text)]
    /\ job' = [Idle EXCEPT !.step = "drain"]
    /\ UNCHANGED <<env, source_texts, documents, tasks, graph, pending,
                   has_pending, batch>>

\* Mutant: the timer stays armed.
FlushDoneArmed ==
    /\ job.step = "drain"
    /\ \A u \in Uri : batch[u] = None
    /\ job' = Idle
    /\ UNCHANGED <<env, source_texts, documents, tasks, graph, pending,
                   has_pending, batch, shown>>

FlushDone ==
    /\ job.step = "drain"
    /\ \A u \in Uri : batch[u] = None
    /\ has_pending' = FALSE
    /\ job' = Idle
    /\ UNCHANGED <<env, source_texts, documents, tasks, graph, pending, batch,
                   shown>>

-----------------------------------------------------------------------------
(* check_workspace: index the files of the workspace that are not open,      *)
(* publish their diagnostics, then re-check the open ones.                   *)

ReceiveCheckWorkspace ==
    LET found == {u \in Uri : disk[u] # None} IN
    /\ Receive("check")
    /\ job' = IF found = {} THEN Idle
              ELSE [Idle EXCEPT !.step = "check_index", !.rest = found]
    /\ UNCHANGED <<env, source_texts, documents, graph, pending, has_pending,
                   batch, shown>>

CheckIndex(u) ==
    LET skip == \/ documents[u] # None
                \/ disk[u] = None
                \/ disk[u] \in Oversize \cup Unparsable
    IN
    /\ job.step = "check_index"
    /\ u \in job.rest
    /\ IF skip
         THEN job' = [job EXCEPT !.rest = @ \ {u}] /\ UNCHANGED graph
         ELSE /\ IndexFile(u, disk[u])
              /\ job' = [job EXCEPT !.rest = @ \ {u},
                                    !.parsed = @ \cup {<<u, disk[u]>>}]
    /\ UNCHANGED <<env, source_texts, documents, tasks, pending, has_pending,
                   batch, shown>>

CheckDisk(u, x) ==
    /\ job.step = "check_index"
    /\ job.rest = {}
    /\ <<u, x>> \in job.parsed
    /\ shown' = [shown EXCEPT ![u] = Check(u, None, x)]
    /\ job' = [job EXCEPT !.parsed = @ \ {<<u, x>>}]
    /\ UNCHANGED <<env, source_texts, documents, tasks, graph, pending,
                   has_pending, batch>>

CheckOpenFiles ==
    /\ job.step = "check_index"
    /\ job.rest = {} /\ job.parsed = {}
    /\ job' = [Idle EXCEPT !.step = "refresh", !.rest = Uri]
    /\ UNCHANGED <<env, source_texts, documents, tasks, graph, pending,
                   has_pending, batch, shown>>

-----------------------------------------------------------------------------
User ==
    \/ \E u \in EditorFiles :
         \/ \E v \in OpenVersion, x \in Text : DidOpen(u, v, x)
         \/ \E x \in Text : DidChange(u, x)
         \/ DidClose(u)
         \/ Save(u)
    \/ \E u \in DiskFiles : (\E x \in Text : DiskWrite(u, x)) \/ DiskDelete(u)
    \/ CheckWorkspaceCommand

Watcher == \E u \in Uri : DidChangeWatchedFiles(u)

Worker ==
    \/ ReceiveParse \/ ReceiveClose \/ ClearDiagnostics
    \/ ReceiveExternalChange \/ ReceiveExternalDelete
    \/ (\E v \in Uri : RefreshOne(v)) \/ RefreshNone
    \/ TimerFires
    \/ (\E u \in Uri : FlushParse(u))
    \/ FlushIndex \/ FlushStore \/ FlushPublish \/ FlushDone
    \/ ReceiveCheckWorkspace
    \/ \E u \in Uri : CheckIndex(u)
    \/ \E u \in Uri, x \in Text : CheckDisk(u, x)
    \/ CheckOpenFiles

Next == User \/ Watcher \/ Worker

\* The worker's task is scheduled and its timer expires; the editor delivers
\* its watcher events.  The user need not do anything.
Spec == Init /\ [][Next]_vars /\ WF_vars(Worker) /\ WF_vars(Watcher)

-----------------------------------------------------------------------------
(* Properties.                                                              *)

Task == [kind : {"parse"}, uri : Uri, edit : Edit]
        \cup [kind : {"close", "change", "delete"}, uri : Uri, edit : {None}]
        \cup [kind : {"check"}, uri : {None}, edit : {None}]

Step == {"idle", "clear", "drain", "index", "store", "publish", "refresh",
         "check_index"}

\* The shape of every map, queue and step.
TypeOK ==
    /\ editor \in [Uri -> Edit \cup {None}]
    /\ disk \in [Uri -> Text \cup {None}]
    /\ watched \in [Uri -> {"changed", "deleted", None}]
    /\ events \in 0 .. MaxEvents
    /\ source_texts \in [Uri -> Text \cup {None}]
    /\ documents \in [Uri -> Edit \cup {None}]
    /\ tasks \in Seq(Task)
    /\ files \in [Uri -> Text \cup {None}]
    /\ edges \in [Uri -> SUBSET Uri]
    /\ pending \in [Uri -> Edit \cup {None}]
    /\ has_pending \in BOOLEAN
    /\ batch \in [Uri -> Edit \cup {None}]
    /\ job \in [step : Step, uri : Uri \cup {None}, edit : Edit \cup {None},
                is_current : BOOLEAN, rest : SUBSET Uri,
                parsed : SUBSET (Uri \X Text)]
    /\ shown \in [Uri -> Diagnostics \cup {None}]

\* The user is idle and everything he did has been dealt with: what the maps
\* hold now is what they will hold.
Quiet ==
    /\ job = Idle /\ tasks = <<>> /\ ~has_pending
    /\ \A u \in Uri : watched[u] = None

\* The last text the editor sent for u was taken and can be parsed.
Accepted(u) ==
    editor[u] # None /\ editor[u].text \notin Oversize \cup Unparsable

\* Once the pipeline has come to rest, an accepted document is analysed,
\* indexed and diagnosed at exactly the editor's version and text, and a
\* closed one is forgotten: no interleaving of opens, edits, closes, file
\* events and workspace checks leaves an older text behind.
QuietMeansCurrent ==
    Quiet => \A u \in Uri :
        /\ Accepted(u) => /\ documents[u] = editor[u]
                          /\ files[u] = editor[u].text
                          /\ shown[u] # None
                          /\ shown[u].version = editor[u].version
                          /\ shown[u].text = editor[u].text
        /\ editor[u] = None => /\ documents[u] = None
                               /\ shown[u] # None => shown[u].version = None

CloseQueued(u) == \E i \in DOMAIN tasks :
                      tasks[i].kind = "close" /\ tasks[i].uri = u

\* Unless a close is still queued, the analysed copy and the published
\* diagnostics belong to the session in the editor: they are not ahead of it,
\* and at its version they show its text.  The version test of the flush
\* (is_current) cannot ensure this, since versions start again at each open.
SessionsKeptApart ==
    \A u \in Uri :
        editor[u] # None /\ ~CloseQueued(u) =>
            /\ documents[u] # None =>
                 /\ documents[u].version <= editor[u].version
                 /\ documents[u].version = editor[u].version =>
                        documents[u].text = editor[u].text
            /\ shown[u] # None /\ shown[u].version # None /\ job.step # "clear" =>
                 /\ shown[u].version <= editor[u].version
                 /\ shown[u].version = editor[u].version =>
                        shown[u].text = editor[u].text

\* The diagnostics of u keep up with what the graph holds for t, unless t may be
\* edited in the editor, which refreshes nobody, or several files import t and
\* the worker refuses the text it has on disk: index_dependency may have indexed
\* that text, or the one before it, for another importer, and the event of t
\* itself is then skipped.
Cascades(u, t) ==
    \/ t = u
    \/ /\ t \notin EditorFiles
       /\ \/ disk[t] \notin Oversize \cup Unparsable
          \/ \A v \in Uri : t \in Imports[v] => v = u

\* Diagnostics cascade: at rest, the diagnostics of an open document were
\* computed from what the graph holds now for each of its resolved imports.
CascadeReaches ==
    Quiet => \A u, t \in Uri :
        Accepted(u) /\ Cascades(u, t) =>
            shown[u].seen[t] = CheckDocument(u).seen[t]

\* "The first Cmd+Click / hover after opening a file no longer fails": from
\* the open on, a document that can be parsed has an analysed copy.
EagerDocument == \A u \in Uri : Accepted(u) => documents[u] # None

\* The server catches up with the editor when the user pauses.
Converges ==
    /\ \A u \in Uri : <>[](Accepted(u) => documents[u] = editor[u])
    /\ \A u \in Uri : <>[](editor[u] = None => documents[u] = None)
    /\ <>[]Quiet
=============================================================================
