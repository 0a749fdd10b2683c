----------------------------- MODULE Resolution -----------------------------
(***************************************************************************)
(* How long the edges of the module graph stay true.  An import is         *)
(* resolved against the disk once, when the file it stands in is indexed   *)
(* (index_file in sass-lsp/src/workspace.rs); files come and go            *)
(* afterwards, the client reports them, and the worker (worker.rs) indexes *)
(* or removes the reported file and no other.                              *)
(*                                                                         *)
(* A file of the graph is known by the path the resolver put together,     *)
(* which may hold ".."; two such paths may be one file on the disk.  All   *)
(* imports of a file are resolved in one step, and the files they need are *)
(* indexed in any order (Indexing takes them one by one, with the locks,   *)
(* the prepended imports, the allowed roots and the limit on dependencies; *)
(* what is published to the client is in Pipeline).                        *)
(***************************************************************************)
EXTENDS Resolver, Functions

CONSTANTS Files,       \* the files that may be on the disk
          Names,       \* the paths by which the graph may know them
          Uses,        \* Uses[g]: the specifiers the text of g names, in order
          MaxChanges   \* bound: how often a file is created or deleted

ASSUME ResolutionConstants ==
    /\ Names \subseteq Seq(STRING)
    /\ Files \subseteq Names
    /\ \A g \in Files : Normal(g) = g
    /\ \A f \in Names : Normal(f) \in Files
    /\ Uses \in [Files -> Seq(Seq(STRING))]
    /\ MaxChanges \in Nat

\* Wherever a search finds a file, it finds it by one of its names.
ASSUME NamesClosed ==
    \A f \in Names : \A k \in DOMAIN Uses[Normal(f)] :
        LET search == Search(Uses[Normal(f)][k], f)
        IN  /\ search \in Seq(Seq(STRING))
            /\ \A i \in DOMAIN search : Normal(search[i]) \in Files => search[i] \in Names

VARIABLES
    disk,     \* the files that are there
    events,   \* didChangeWatchedFiles: what the worker has not received yet
    todo,     \* the calls of index_file and index_dependency that are under way
    edges,    \* for an indexed file, what its imports resolved to
    since,    \* for an indexed file, the files created since then (history)
    changes   \* how often a file was created or deleted

vars == <<disk, events, todo, edges, since, changes>>

Resolutions ==
    [kind : {"file"}, path : Names]
      \cup [kind : {"css", "builtin", "not found"}, path : Seq(STRING)]
Events == [kind : {"change", "delete"}, file : Files]
Calls == [file : Names, dependency : BOOLEAN]

TypeOK ==
    /\ disk \in SUBSET Files
    /\ events \in Seq(Events)
    /\ todo \in SUBSET Calls
    /\ DOMAIN edges \in SUBSET Names
    /\ \A f \in DOMAIN edges : edges[f] \in [DOMAIN Uses[Normal(f)] -> Resolutions]
    /\ since \in [DOMAIN edges -> SUBSET Files]
    /\ changes \in 0 .. MaxChanges

Init ==
    /\ disk \in SUBSET Files
    /\ events = <<>>
    /\ todo = {}
    /\ edges = [f \in {} |-> <<>>]
    /\ since = [f \in {} |-> {}]
    /\ changes = 0

-----------------------------------------------------------------------------
(* index_file                                                               *)

\* What the imports of a file mean on the disk as it is.
Imported(f) == [k \in DOMAIN Uses[Normal(f)] |-> Resolve(disk, Uses[Normal(f)][k], f)]

\* index_dependency of every import that is a file.
Dependencies(resolved) ==
    {[file |-> r.path, dependency |-> TRUE] : r \in {q \in Range(resolved) : q.kind = "file"}}

\* A file that the worker was told about is indexed anew, a dependency only
\* if the graph does not have it and it can be read.
Wanted(call) ==
    \/ ~call.dependency
    \/ call.file \notin DOMAIN edges /\ Normal(call.file) \in disk

\* Mutant: only a file with an import that led nowhere is resolved again.
ResolvedOnce(f) ==
    IF f \in DOMAIN edges /\ \A k \in DOMAIN edges[f] : edges[f][k] # NotFound
      THEN edges[f] ELSE Imported(f)

\* The imports are resolved anew whatever they were.
Resolved(f) == Imported(f)

IndexFile(call) ==
    /\ Wanted(call)
    /\ edges' = [f \in DOMAIN edges \cup {call.file} |->
                     IF f = call.file THEN Resolved(f) ELSE edges[f]]
    /\ since' = [f \in DOMAIN edges \cup {call.file} |->
                     IF f = call.file THEN {} ELSE since[f]]
    /\ todo' = (todo \ {call}) \cup Dependencies(Resolved(call.file))
    /\ UNCHANGED <<disk, events, changes>>

SkipDependency(call) ==
    /\ ~Wanted(call)
    /\ todo' = todo \ {call}
    /\ UNCHANGED <<disk, events, edges, since, changes>>

-----------------------------------------------------------------------------
(* The worker's tasks                                                       *)

\* The flush of an edited file.  Its text may be on no disk yet.
Edit(f) ==
    /\ todo = {}
    /\ todo' = {[file |-> f, dependency |-> FALSE]}
    /\ UNCHANGED <<disk, events, edges, since, changes>>

\* Mutant: only files that are in the graph are of interest.
ReceiveChangeOfKnown ==
    /\ todo = {}
    /\ events # <<>> /\ Head(events).kind = "change"
    /\ events' = Tail(events)
    /\ todo' = IF Head(events).file \in disk \cap DOMAIN edges
                 THEN {[file |-> Head(events).file, dependency |-> FALSE]} ELSE {}
    /\ UNCHANGED <<disk, edges, since, changes>>

\* Task::ExternalChange: nothing happens if the file cannot be read (any more).
ReceiveChange ==
    /\ todo = {}
    /\ events # <<>> /\ Head(events).kind = "change"
    /\ events' = Tail(events)
    /\ todo' = IF Head(events).file \in disk
                 THEN {[file |-> Head(events).file, dependency |-> FALSE]} ELSE {}
    /\ UNCHANGED <<disk, edges, since, changes>>

\* Task::ExternalDelete: remove_file, even if the file is back.
ReceiveDelete ==
    /\ todo = {}
    /\ events # <<>> /\ Head(events).kind = "delete"
    /\ events' = Tail(events)
    /\ edges' = Restrict(edges, DOMAIN edges \ {Head(events).file})
    /\ since' = Restrict(since, DOMAIN edges \ {Head(events).file})
    /\ UNCHANGED <<disk, todo, changes>>

-----------------------------------------------------------------------------
(* Other programs                                                           *)

Report(kind, g) ==
    /\ changes < MaxChanges
    /\ changes' = changes + 1
    /\ events' = Append(events, [kind |-> kind, file |-> g])

Create(g) ==
    /\ g \notin disk
    /\ disk' = disk \cup {g}
    /\ since' = [f \in DOMAIN since |-> since[f] \cup {g}]
    /\ Report("change", g)
    /\ UNCHANGED <<todo, edges>>

Delete(g) ==
    /\ g \in disk
    /\ disk' = disk \ {g}
    /\ Report("delete", g)
    /\ UNCHANGED <<todo, edges, since>>

Worker ==
    \/ \E call \in todo : IndexFile(call) \/ SkipDependency(call)
    \/ ReceiveChange
    \/ ReceiveDelete

Next ==
    \/ Worker
    \/ \E g \in Files : Edit(g) \/ Create(g) \/ Delete(g)

Spec == Init /\ [][Next]_vars

-----------------------------------------------------------------------------
(* Properties                                                               *)

Quiet == events = <<>> /\ todo = {}

\* The edges of a file that is deleted, or that takes the place of another,
\* are not computed again: creating or deleting a file touches one entry of
\* the graph.  An edge may therefore be out of date, but in two ways only:
\* the file it leads to is gone, or a file that is searched for first was
\* created after the edge.  An unresolved import likewise.
StaleOnlyByCreation ==
    \A f \in DOMAIN edges : \A k \in DOMAIN edges[f] :
        LET now == Resolve(disk, Uses[Normal(f)][k], f)
            then == edges[f][k]
        IN  now # then => \/ then.kind = "file" /\ Normal(then.path) \notin disk
                          \/ now.kind = "file" /\ Normal(now.path) \in since[f]

\* A path that names its file as the client does.
Plain(path) == Normal(path) = path

\* With nothing under way, an edge to a file that is on the disk leads to a
\* file of the graph, although the file may have been deleted, created again
\* or read too late at any point in between.  (Of a path with ".." it is not
\* true: the client reports the file by another name.)
QuietEdgesLand ==
    Quiet => \A f \in DOMAIN edges : \A k \in DOMAIN edges[f] :
                LET e == edges[f][k]
                IN  e.kind = "file" /\ Plain(e.path) /\ e.path \in disk
                      => e.path \in DOMAIN edges

OnlyItsOwn ==
    \A f \in Files : \A k \in DOMAIN Uses[f] :
        LET before == Resolve(disk, Uses[f][k], f)
            after == Resolve(disk', Uses[f][k], f)
        IN  before # after =>
              \/ before.kind = "file" /\ Normal(before.path) \in disk \ disk'
              \/ after.kind = "file" /\ Normal(after.path) \in disk' \ disk

\* A file that is created or deleted matters only to the specifiers that then
\* mean that file, or meant it: no search is thrown off by a file that it does
\* not end at.  This is what would let the worker resolve again no more than
\* the imports a report is about.
OneFileMatters == [][OnlyItsOwn]_disk

\* What a user comes to who accepts a directory, or goes up one first.
PrefixesTyped(on, from) ==
    LET typed == {<<>>, <<"..">>}
    IN  typed \cup UNION {FoldersOffered(on, from, prefix) : prefix \in typed}

\* Completion offers specifiers that resolve to a file, in whichever directory,
\* alias or load path it found them and however many files have the name; the
\* importing file is offered to itself through an alias or a load path.
\* Files of plain CSS are offered without their extension, which means nothing.
\* (What is offered is read off the disk; asked when nothing is under way.)
OfferedPathsResolve ==
    LET sources == {g \in disk : ~IsCss(g)}
    IN  Quiet =>
            \A from \in sources : \A prefix \in PrefixesTyped(sources, from) :
                \A spec \in FilesOffered(sources, from, prefix) :
                    Resolve(disk, spec, from).kind = "file"
=============================================================================
