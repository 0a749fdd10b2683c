------------------------------ MODULE Indexing ------------------------------
(***************************************************************************)
(* index_file and index_dependency (crates/sass-lsp/src/workspace.rs) call *)
(* each other along the imports of a file, on the worker's thread, while   *)
(* did_change_configuration (main.rs) replaces the resolver, the prepended *)
(* imports and the allowed roots, on the serving thread.                   *)
(*                                                                         *)
(* The resolver is behind a read-write lock.  A thread that already reads  *)
(* asks for it again when an import leads to a file that has imports of    *)
(* its own.  Which of a waiting writer and a new reader goes first is up   *)
(* to the platform: WriterPreference says.                                 *)
(***************************************************************************)
EXTENDS Integers, Sequences, SequencesExt, FiniteSets

CONSTANTS
    File,             \* files on disk that can be read and parsed
    Specifier,        \* what @use, @forward and @import rules name
    Uses,             \* File -> the specifiers in it
    Setting,          \* configurations the client may send
    Initial,          \* the one in initializationOptions
    Resolve,          \* Setting -> Specifier -> the file it means, or None
    Prepends,         \* Setting -> its prependImports
    Root,             \* directories that bound what is read
    RootOf,           \* File -> the directory it is in
    RootsOf,          \* Setting -> workspace root, load paths, alias targets
    ExtraFolders,     \* the workspace folders beyond the first
    MaxDependencyFiles,
    WriterPreference, \* new readers wait while a writer waits
    MaxIndexings, MaxChanges,  \* bounds on what the worker and client do
    None

ASSUME IndexingConstants ==
    /\ Uses \in [File -> SUBSET Specifier]
    /\ Initial \in Setting
    /\ Resolve \in [Setting -> [Specifier -> File \cup {None}]]
    /\ Prepends \in [Setting -> SUBSET Specifier]
    /\ RootOf \in [File -> Root]
    /\ RootsOf \in [Setting -> SUBSET Root]
    /\ ExtraFolders \subseteq Root
    /\ MaxDependencyFiles \in Nat
    /\ WriterPreference \in BOOLEAN
    /\ MaxIndexings \in Nat /\ MaxChanges \in Nat
    /\ None \notin File

VARIABLES
    files,            \* files with an entry in the graph
    edges,            \* resolved imports of the files index_file is done with
    stack,            \* the calls of index_file in progress, outermost first
    resolver,         \* the setting the resolver was built from
    prepend_imports,  \* the setting the prepended imports are from
    allowed_roots,    \* directories dependencies may be read from
    handler,          \* where did_change_configuration is
    received,         \* the setting it is applying
    indexings, changes

graph == <<files, edges, stack, indexings>>
config == <<resolver, prepend_imports, allowed_roots, handler, received, changes>>
vars == <<graph, config>>

\* One call of index_file: the loop it is in, the specifiers left, the edges
\* found, and whether it keeps the resolver locked during a nested call.
Frame == [file : File, loop : {"uses", "prepends"}, todo : SUBSET Specifier,
          found : SUBSET File, reading : BOOLEAN]

Call(u) == [file |-> u, loop |-> "uses", todo |-> Uses[u], found |-> {},
            reading |-> FALSE]

Init ==
    /\ files = {} /\ edges = [u \in {} |-> {}] /\ stack = <<>>
    /\ resolver = Initial /\ prepend_imports = Initial
    /\ allowed_roots = RootsOf[Initial] \cup ExtraFolders
    /\ handler = "idle" /\ received = Initial
    /\ indexings = 0 /\ changes = 0

-----------------------------------------------------------------------------
(* The worker.                                                              *)

top == Last(stack)

\* A parsed document, a file changed on disk or one of a workspace check.
IndexFile(u) ==
    /\ stack = <<>>
    /\ indexings < MaxIndexings
    /\ indexings' = indexings + 1
    /\ files' = files \cup {u}
    /\ stack' = <<Call(u)>>
    /\ UNCHANGED <<edges, config>>

\* Mutants: a file in the graph is wanted again; the cap bites one early.
WantedAgain(t) ==
    /\ allowed_roots # {} => RootOf[t] \in allowed_roots
    /\ Cardinality(files) < MaxDependencyFiles
WantedBelowCap(t) ==
    /\ t \notin files
    /\ allowed_roots # {} => RootOf[t] \in allowed_roots
    /\ Cardinality(files) + 1 < MaxDependencyFiles

\* What index_dependency agrees to index.  No roots at all allow everything.
Wanted(t) ==
    /\ t \notin files
    /\ allowed_roots # {} => RootOf[t] \in allowed_roots
    /\ Cardinality(files) < MaxDependencyFiles

\* The edge that a resolved import gives.
EdgeTo(t) == {t} \ {None}

CanRead == WriterPreference => handler # "waiting"

\* One turn of the loop: resolve a specifier and index the file it means.
\* keep says whether the lock is still held during that call.
Follow(s, keep) ==
    LET t == Resolve[resolver][s]
        rest == [top EXCEPT !.todo = @ \ {s},
                            !.found = @ \cup EdgeTo(t),
                            !.reading = keep /\ t # None /\ Wanted(t)]
    IN  /\ CanRead
        /\ IF t # None /\ Wanted(t)
             THEN /\ files' = files \cup {t}
                  /\ stack' = Append(Front(stack), rest) \o <<Call(t)>>
             ELSE /\ UNCHANGED files
                  /\ stack' = Append(Front(stack), rest)
        /\ UNCHANGED <<edges, indexings, config>>

\* Mutant: an import that does not resolve is tried again.
FollowUseAgain(s) ==
    /\ stack # <<>> /\ top.loop = "uses" /\ s \in top.todo
    /\ Resolve[resolver][s] # None
    /\ Follow(s, TRUE)

\* In the loop over the file's own imports the guard lives to the end of the
\* turn, past the call of index_dependency.
FollowUse(s) ==
    /\ stack # <<>> /\ top.loop = "uses" /\ s \in top.todo
    /\ Follow(s, TRUE)

StartPrepends ==
    /\ stack # <<>> /\ top.loop = "uses" /\ top.todo = {}
    /\ stack' = Append(Front(stack),
                       [top EXCEPT !.loop = "prepends",
                                   !.todo = Prepends[prepend_imports]])
    /\ UNCHANGED <<files, edges, indexings, config>>

\* In the loop over the prepended imports the guard is dropped first.
FollowPrepend(s) ==
    /\ stack # <<>> /\ top.loop = "prepends" /\ s \in top.todo
    /\ Follow(s, FALSE)

\* The edges are stored, and the caller goes on: its guard goes out of scope.
Return ==
    LET callers == Front(stack) IN
    /\ stack # <<>> /\ top.loop = "prepends" /\ top.todo = {}
    /\ edges' = [u \in DOMAIN edges \cup {top.file} |->
                   IF u = top.file THEN top.found ELSE edges[u]]
    /\ stack' = IF callers = <<>> THEN <<>>
                ELSE Append(Front(callers), [Last(callers) EXCEPT !.reading = FALSE])
    /\ UNCHANGED <<files, indexings, config>>

-----------------------------------------------------------------------------
(* did_change_configuration.                                                *)

DidChangeConfiguration(c) ==
    /\ handler = "idle"
    /\ changes < MaxChanges
    /\ changes' = changes + 1
    /\ received' = c
    /\ handler' = "set_resolver"
    /\ UNCHANGED <<graph, resolver, prepend_imports, allowed_roots>>

Reading == \E i \in DOMAIN stack : stack[i].reading

WaitForReaders ==
    /\ handler = "set_resolver" /\ Reading
    /\ handler' = "waiting"
    /\ UNCHANGED <<graph, resolver, prepend_imports, allowed_roots, received,
                   changes>>

SetResolver ==
    /\ handler \in {"set_resolver", "waiting"} /\ ~Reading
    /\ resolver' = received
    /\ handler' = "set_prepend_imports"
    /\ UNCHANGED <<graph, prepend_imports, allowed_roots, received, changes>>

SetPrependImports ==
    /\ handler = "set_prepend_imports"
    /\ prepend_imports' = received
    /\ handler' = "set_allowed_roots"
    /\ UNCHANGED <<graph, resolver, allowed_roots, received, changes>>

SetAllowedRoots ==
    /\ handler = "set_allowed_roots"
    /\ allowed_roots' = RootsOf[received]
    /\ handler' = "idle"
    /\ UNCHANGED <<graph, resolver, prepend_imports, received, changes>>

-----------------------------------------------------------------------------
Worker == (\E s \in Specifier : FollowUse(s) \/ FollowPrepend(s))
          \/ StartPrepends \/ Return

Handler == WaitForReaders \/ SetResolver \/ SetPrependImports \/ SetAllowedRoots

Next == Worker \/ Handler
        \/ (\E u \in File : IndexFile(u))
        \/ \E c \in Setting : DidChangeConfiguration(c)

\* Both threads run.  Nothing obliges the worker to be given another file or
\* the client to send another configuration.
Spec == Init /\ [][Next]_vars /\ WF_vars(Worker) /\ WF_vars(Handler)

-----------------------------------------------------------------------------
(* Properties.                                                              *)

\* The shape of the graph, the call stack and the handler.
TypeOK ==
    /\ files \subseteq File
    /\ DOMAIN edges \subseteq File
    /\ edges \in [DOMAIN edges -> SUBSET File]
    /\ stack \in Seq(Frame)
    /\ resolver \in Setting /\ prepend_imports \in Setting /\ received \in Setting
    /\ allowed_roots \subseteq Root
    /\ handler \in {"idle", "set_resolver", "waiting", "set_prepend_imports",
                    "set_allowed_roots"}
    /\ indexings \in 0 .. MaxIndexings /\ changes \in 0 .. MaxChanges

\* No file is being indexed twice on the call stack, cyclic imports
\* notwithstanding: the recursion is at most as deep as there are files.
NoReentry ==
    /\ \A i \in DOMAIN stack : stack[i].file \in files
    /\ \A i, j \in DOMAIN stack : i # j => stack[i].file # stack[j].file

Refusable(t) == \/ \E c \in Setting : RootOf[t] \notin RootsOf[c]
                \/ Cardinality(files) >= MaxDependencyFiles

\* When index_file has returned to the worker, every file of the graph has its
\* edges, and what they lead to is in the graph as well, unless it lies
\* outside the allowed roots or the cap on dependencies was reached.
GraphClosed ==
    stack = <<>> => \A u \in files :
        /\ u \in DOMAIN edges
        /\ \A t \in edges[u] : t \in files \/ Refusable(t)

\* A call of index_file returns.
IndexingEnds == stack # <<>> ~> stack = <<>>

\* A configuration change takes effect without a restart: it is applied.
ConfigurationApplied == handler # "idle" ~> handler = "idle"

\* A configuration change takes effect without a restart: when both threads
\* have come to rest, the edges are those of the configuration in force.
EdgesFollowConfiguration ==
    stack = <<>> /\ handler = "idle" =>
        \A u \in files :
            edges[u] = {Resolve[received][s] :
                          s \in Uses[u] \cup Prepends[received]} \ {None}

\* All workspace folders stay among the roots, so that imports across folders
\* resolve.
FoldersKept == handler = "idle" => ExtraFolders \subseteq allowed_roots
=============================================================================
