---------------------------- MODULE ModuleCache ----------------------------
(***************************************************************************)
(* The per-file store of the module graph (crates/sass-lsp/src/            *)
(* workspace.rs): for every indexed file a symbol table, a green tree and  *)
(* the source text, the last two bounded by LRU lists.  The worker task    *)
(* indexes and removes files; request handlers fetch trees (re-parsing an  *)
(* evicted one) and turn symbols into locations (reconstructing evicted    *)
(* text).  The two kinds of thread share the DashMap `files`, whose entry  *)
(* locks are held for one access only, and the mutexes of the LRU lists.   *)
(*                                                                         *)
(* A text stands for everything derived from it: symbols and line_index    *)
(* are named by the text they were computed from, a green tree by its text *)
(* and the parser that built it.                                           *)
(***************************************************************************)
EXTENDS Integers, Sequences, FiniteSets, SequencesExt

CONSTANTS
    Uri,          \* files
    SassFiles,    \* those whose extension is .sass (indented syntax)
    Text,         \* file contents
    Worker,       \* the worker task
    Reader,       \* threads that run request handlers
    MaxTrees,     \* max_cached_trees
    MaxSources,   \* max_cached_sources
    None          \* Rust's None, and an absent map entry

ASSUME CacheConstants ==
    /\ Uri # {}
    /\ SassFiles \subseteq Uri
    /\ Worker \notin Reader
    /\ MaxTrees \in Nat
    /\ MaxSources \in Nat

VARIABLES
    files,        \* Uri -> ModuleInfo, or None when absent
    tree_lru,     \* front = most recently used
    source_lru,
    tree_mutex,   \* the thread inside evict_trees' critical section
    source_mutex, \* the thread inside evict_sources' critical section
    pc,           \* Thread -> the next step of its call
    arg,          \* Thread -> the uri of its call
    held,         \* Thread -> the text copied out before the lock was dropped
    kept,         \* Thread -> evict_*'s local list of entries not evicted
    location,     \* Thread -> the parts of the location being built
    overtaken     \* history: files indexed during a re-parse of another text

vars == <<files, tree_lru, source_lru, tree_mutex, source_mutex,
          pc, arg, held, kept, location, overtaken>>

Thread == Reader \cup {Worker}

Tree == [text : Text, parser : {"scss", "sass"}]

ModuleInfo == [symbols     : Text,
               green       : Tree \cup {None},
               source_text : Text \cup {None}]

Location == [symbols     : Text \cup {None},
             line_index  : Text \cup {None},
             source_text : Text \cup {None}]

ASSUME NoneIsNoValue ==
    None \notin Thread \cup Text \cup Tree \cup ModuleInfo

NoLocation == [symbols |-> None, line_index |-> None, source_text |-> None]

Step == {"idle", "touch_tree", "touch_source", "evict_trees", "evict_sources",
         "forget_tree", "forget_source", "reparse",
         "read_line_index", "read_source", "reconstruct"}

\* An entry, and a location, with one part replaced.
WithGreen(info, g) == [info EXCEPT !.green = g]
WithSource(info, s) == [info EXCEPT !.source_text = s]
AtLineIndex(loc, x) == [loc EXCEPT !.line_index = x]
AtSource(loc, x) == [loc EXCEPT !.source_text = x]

\* The parser the worker and index_dependency choose by file extension.
ParserOf(u) == IF u \in SassFiles THEN "sass" ELSE "scss"

\* Mutant: an entry that exists keeps the text it has.
EntryKeepingText(u, text) ==
    [symbols     |-> text,
     green       |-> [text |-> text, parser |-> ParserOf(u)],
     source_text |-> IF files[u] = None THEN text ELSE files[u].source_text]

\* The entry index_file inserts.
NewEntry(u, text) ==
    [symbols     |-> text,
     green       |-> [text |-> text, parser |-> ParserOf(u)],
     source_text |-> text]

Init ==
    /\ files = [u \in Uri |-> None]
    /\ tree_lru = <<>> /\ source_lru = <<>>
    /\ tree_mutex = None /\ source_mutex = None
    /\ pc = [t \in Thread |-> "idle"]
    /\ arg = [t \in Thread |-> CHOOSE u \in Uri : TRUE]
    /\ held = [t \in Thread |-> None]
    /\ kept = [t \in Thread |-> <<>>]
    /\ location = [t \in Thread |-> NoLocation]
    /\ overtaken = {}

Goto(t, step) == pc' = [pc EXCEPT ![t] = step]

-----------------------------------------------------------------------------
(* The LRU lists.  Each list is protected by its own mutex; a touch holds   *)
(* it for one step, an eviction for as long as its loop runs.               *)

\* Mutant: the uri is not put back.
TouchedAway(lru, u) == RemoveFirst(lru, u)

\* Move a uri to the front: position() finds its first occurrence.
Touched(lru, u) == Cons(u, RemoveFirst(lru, u))

\* Mutants: the list may hold one uri more; nothing is looked at before the
\* text is dropped.
OverByTwo(lru, max) == Len(lru) > max + 1
RebuildableAlways(info) == TRUE

Over(lru, max) == Len(lru) > max

\* A tree may be dropped if the text is there to parse again, a text if the
\* tree is there to print it from.
Reparsable(info) == info.source_text # None
Rebuildable(info) == info.green # None

TouchTree(t) ==
    /\ pc[t] = "touch_tree"
    /\ tree_mutex = None
    /\ tree_lru' = Touched(tree_lru, arg[t])
    /\ Goto(t, IF t = Worker THEN "touch_source" ELSE "evict_trees")
    /\ UNCHANGED <<files, source_lru, tree_mutex, source_mutex, arg, held,
                   kept, location, overtaken>>

TouchSource(t) ==
    /\ pc[t] = "touch_source"
    /\ source_mutex = None
    /\ source_lru' = Touched(source_lru, arg[t])
    /\ Goto(t, "evict_trees")
    /\ UNCHANGED <<files, tree_lru, tree_mutex, source_mutex, arg, held,
                   kept, location, overtaken>>

\* One turn of evict_trees' loop: pop the oldest uri; drop its tree if the
\* text is there to parse again, otherwise keep the uri aside.
EvictTree(t) ==
    LET u == Last(tree_lru) IN
    /\ pc[t] = "evict_trees"
    /\ tree_mutex \in {None, t}
    /\ Over(tree_lru, MaxTrees)
    /\ tree_mutex' = t
    /\ tree_lru' = Front(tree_lru)
    /\ IF files[u] = None
         THEN UNCHANGED <<files, kept>>
         ELSE IF Reparsable(files[u])
           THEN /\ files' = [files EXCEPT ![u] = WithGreen(@, None)]
                /\ UNCHANGED kept
           ELSE /\ kept' = [kept EXCEPT ![t] = Append(@, u)]
                /\ UNCHANGED files
    /\ UNCHANGED <<source_lru, source_mutex, pc, arg, held, location,
                   overtaken>>

\* The loop ends, the kept uris go back to the end of the list.
EvictTreesDone(t) ==
    /\ pc[t] = "evict_trees"
    /\ tree_mutex \in {None, t}
    /\ ~Over(tree_lru, MaxTrees)
    /\ tree_lru' = tree_lru \o kept[t]
    /\ kept' = [kept EXCEPT ![t] = <<>>]
    /\ tree_mutex' = None
    /\ Goto(t, IF t = Worker THEN "evict_sources" ELSE "idle")
    /\ UNCHANGED <<files, source_lru, source_mutex, arg, held, location,
                   overtaken>>

EvictSource(t) ==
    LET u == Last(source_lru) IN
    /\ pc[t] = "evict_sources"
    /\ source_mutex \in {None, t}
    /\ Over(source_lru, MaxSources)
    /\ source_mutex' = t
    /\ source_lru' = Front(source_lru)
    /\ IF files[u] = None
         THEN UNCHANGED <<files, kept>>
         ELSE IF Rebuildable(files[u])
           THEN /\ files' = [files EXCEPT ![u] = WithSource(@, None)]
                /\ UNCHANGED kept
           ELSE /\ kept' = [kept EXCEPT ![t] = Append(@, u)]
                /\ UNCHANGED files
    /\ UNCHANGED <<tree_lru, tree_mutex, pc, arg, held, location, overtaken>>

EvictSourcesDone(t) ==
    /\ pc[t] = "evict_sources"
    /\ source_mutex \in {None, t}
    /\ ~Over(source_lru, MaxSources)
    /\ source_lru' = source_lru \o kept[t]
    /\ kept' = [kept EXCEPT ![t] = <<>>]
    /\ source_mutex' = None
    /\ Goto(t, "idle")
    /\ UNCHANGED <<files, tree_lru, tree_mutex, arg, held, location, overtaken>>

-----------------------------------------------------------------------------
(* The worker: index_file and remove_file.                                  *)

\* History: the worker replaces a file by `text`, and a handler is between
\* copying another text of it and storing the tree it parses from that.
Overtakes(u, text) ==
    \E r \in Reader : pc[r] = "reparse" /\ arg[r] = u /\ held[r] # text

\* index_file's insertion; the touches and evictions follow.
IndexFile(t, u, text) ==
    /\ t = Worker
    /\ pc[t] = "idle"
    /\ files' = [files EXCEPT ![u] = NewEntry(u, text)]
    /\ arg' = [arg EXCEPT ![t] = u]
    /\ overtaken' = IF Overtakes(u, text) THEN overtaken \cup {u}
                                          ELSE overtaken \ {u}
    /\ Goto(t, "touch_tree")
    /\ UNCHANGED <<tree_lru, source_lru, tree_mutex, source_mutex, held, kept,
                   location>>

RemoveFile(t, u) ==
    /\ t = Worker
    /\ pc[t] = "idle"
    /\ files' = [files EXCEPT ![u] = None]
    /\ arg' = [arg EXCEPT ![t] = u]
    /\ Goto(t, "forget_tree")
    /\ UNCHANGED <<tree_lru, source_lru, tree_mutex, source_mutex, held, kept,
                   location, overtaken>>

ForgetTree(t) ==
    /\ pc[t] = "forget_tree"
    /\ tree_mutex = None
    /\ tree_lru' = RemoveFirst(tree_lru, arg[t])
    /\ Goto(t, "forget_source")
    /\ UNCHANGED <<files, source_lru, tree_mutex, source_mutex, arg, held,
                   kept, location, overtaken>>

ForgetSource(t) ==
    /\ pc[t] = "forget_source"
    /\ source_mutex = None
    /\ source_lru' = RemoveFirst(source_lru, arg[t])
    /\ Goto(t, "idle")
    /\ UNCHANGED <<files, tree_lru, tree_mutex, source_mutex, arg, held, kept,
                   location, overtaken>>

-----------------------------------------------------------------------------
(* get_or_reparse_green.  A cached tree is returned at once; otherwise the   *)
(* text is copied, the entry's lock dropped, the copy parsed, and the tree   *)
(* stored in whatever entry the uri has by then.                             *)

ReadGreenMiss(t, u) ==
    /\ t \in Reader
    /\ pc[t] = "idle"
    /\ files[u] # None
    /\ files[u].green = None
    /\ files[u].source_text # None
    /\ held' = [held EXCEPT ![t] = files[u].source_text]
    /\ arg' = [arg EXCEPT ![t] = u]
    /\ Goto(t, "reparse")
    /\ UNCHANGED <<files, tree_lru, source_lru, tree_mutex, source_mutex, kept,
                   location, overtaken>>

\* The re-parse always runs parse_scss, whatever the file's extension.
StoreGreen(t) ==
    LET green == [text |-> held[t], parser |-> "scss"] IN
    /\ pc[t] = "reparse"
    /\ files' = IF files[arg[t]] = None THEN files
                ELSE [files EXCEPT ![arg[t]] = WithGreen(@, green)]
    /\ held' = [held EXCEPT ![t] = None]
    /\ Goto(t, "touch_tree")
    /\ UNCHANGED <<tree_lru, source_lru, tree_mutex, source_mutex, arg, kept,
                   location, overtaken>>

\* catch_unwind: a parser panic gives up without storing anything.
ReparsePanics(t) ==
    /\ pc[t] = "reparse"
    /\ held' = [held EXCEPT ![t] = None]
    /\ Goto(t, "idle")
    /\ UNCHANGED <<files, tree_lru, source_lru, tree_mutex, source_mutex, arg,
                   kept, location, overtaken>>

-----------------------------------------------------------------------------
(* Turning a symbol into an LSP location, as Backend::symbol does: the       *)
(* symbols, the line index and the source text are three separate accesses.  *)

ReadSymbols(t, u) ==
    /\ t \in Reader
    /\ pc[t] = "idle"
    /\ files[u] # None
    /\ location' = [location EXCEPT ![t] =
                       [NoLocation EXCEPT !.symbols = files[u].symbols]]
    /\ arg' = [arg EXCEPT ![t] = u]
    /\ Goto(t, "read_line_index")
    /\ UNCHANGED <<files, tree_lru, source_lru, tree_mutex, source_mutex, held,
                   kept, overtaken>>

ReadLineIndex(t) ==
    LET info == files[arg[t]] IN
    /\ pc[t] = "read_line_index"
    /\ IF info = None
         THEN Goto(t, "idle") /\ UNCHANGED location
         ELSE /\ location' = [location EXCEPT ![t] = AtLineIndex(@, info.symbols)]
              /\ Goto(t, "read_source")
    /\ UNCHANGED <<files, tree_lru, source_lru, tree_mutex, source_mutex, arg,
                   held, kept, overtaken>>

\* source_text: cached text is returned; otherwise the read lock is dropped
\* and the entry locked again to reconstruct it.
ReadSource(t) ==
    LET info == files[arg[t]] IN
    /\ pc[t] = "read_source"
    /\ CASE info = None -> Goto(t, "idle") /\ UNCHANGED location
         [] info # None /\ info.source_text # None ->
              /\ location' = [location EXCEPT ![t] = AtSource(@, info.source_text)]
              /\ Goto(t, "idle")
         [] OTHER -> Goto(t, "reconstruct") /\ UNCHANGED location
    /\ UNCHANGED <<files, tree_lru, source_lru, tree_mutex, source_mutex, arg,
                   held, kept, overtaken>>

\* The text of the tree is cached back; source_lru is not told.
Reconstruct(t) ==
    LET u    == arg[t]
        info == files[u]
    IN
    /\ pc[t] = "reconstruct"
    /\ Goto(t, "idle")
    /\ CASE info = None -> UNCHANGED <<files, location>>
         [] info # None /\ info.source_text # None ->
              /\ location' = [location EXCEPT ![t] = AtSource(@, info.source_text)]
              /\ UNCHANGED files
         [] info # None /\ info.source_text = None /\ info.green # None ->
              /\ location' = [location EXCEPT ![t] = AtSource(@, info.green.text)]
              /\ files' = [files EXCEPT ![u] = WithSource(@, info.green.text)]
         [] OTHER -> UNCHANGED <<files, location>>
    /\ UNCHANGED <<tree_lru, source_lru, tree_mutex, source_mutex, arg, held,
                   kept, overtaken>>

-----------------------------------------------------------------------------
Eviction(t) ==
    \/ TouchTree(t) \/ TouchSource(t)
    \/ EvictTree(t) \/ EvictTreesDone(t)
    \/ EvictSource(t) \/ EvictSourcesDone(t)

WorkerCall(t) ==
    \/ \E u \in Uri, text \in Text : IndexFile(t, u, text)
    \/ \E u \in Uri : RemoveFile(t, u)
    \/ ForgetTree(t) \/ ForgetSource(t)

GetGreen(t) ==
    \/ \E u \in Uri : ReadGreenMiss(t, u)
    \/ StoreGreen(t) \/ ReparsePanics(t)

Locate(t) ==
    \/ \E u \in Uri : ReadSymbols(t, u)
    \/ ReadLineIndex(t) \/ ReadSource(t) \/ Reconstruct(t)

Next == \E t \in Thread : Eviction(t) \/ WorkerCall(t) \/ GetGreen(t) \/ Locate(t)

Spec == Init /\ [][Next]_vars

-----------------------------------------------------------------------------
(* Properties.                                                              *)

\* The shape of the maps, the lists and the calls in progress.
TypeOK ==
    /\ files \in [Uri -> ModuleInfo \cup {None}]
    /\ tree_lru \in Seq(Uri) /\ source_lru \in Seq(Uri)
    /\ tree_mutex \in Thread \cup {None} /\ source_mutex \in Thread \cup {None}
    /\ pc \in [Thread -> Step]
    /\ arg \in [Thread -> Uri]
    /\ held \in [Thread -> Text \cup {None}]
    /\ kept \in [Thread -> Seq(Uri)]
    /\ location \in [Thread -> Location]
    /\ overtaken \subseteq Uri

\* What a call in progress relies on: a re-parse has the text it copied, and
\* only the worker removes files, so the one it is forgetting stays absent.
CallOK ==
    \A t \in Thread :
        /\ pc[t] = "reparse" => t \in Reader /\ held[t] \in Text
        /\ pc[t] = "forget_tree" => t = Worker /\ files[arg[t]] = None

\* Every indexed file can be recovered: its tree or its text is cached,
\* whatever the two evictions, re-parses and reconstructions interleave to
\* (the invariant stated at ModuleInfo, on which get_or_reparse_green and
\* source_text rely to answer for every indexed file).
Recoverable ==
    \A u \in Uri : files[u] # None =>
        files[u].green # None \/ files[u].source_text # None

Indexed == {u \in Uri : files[u] # None}

\* No cached tree escapes the LRU list: a file that holds a tree is in
\* tree_lru, or a thread is on its way to put it there, so a later eviction
\* can reach it.
TreesTracked ==
    \A u \in Indexed : files[u].green # None =>
        \/ u \in ToSet(tree_lru)
        \/ \E t \in Thread : pc[t] = "evict_trees" /\ u \in ToSet(kept[t])
        \/ \E t \in Thread : pc[t] = "touch_tree" /\ u = arg[t]

Quiet == \A t \in Thread : pc[t] = "idle"

\* Whenever no call is in progress the list of trees exceeds its limit only by
\* files whose text is not in the source list, which evict_trees had to keep.
TreeListBounded ==
    Quiet => Len(tree_lru) <= MaxTrees
                + Cardinality(ToSet(tree_lru) \ ToSet(source_lru))

\* A cached tree and a cached text are those of the text the symbols come
\* from, so a range taken from one can be used in the other: but for a file
\* that was indexed while a handler re-parsed another text of it, until it is
\* indexed again.
Coherent ==
    \A u \in Indexed \ overtaken :
        /\ files[u].green # None => files[u].green.text = files[u].symbols
        /\ files[u].source_text # None => files[u].source_text = files[u].symbols

\* The copy a handler is re-parsing is the text of the entry it will store
\* the tree in, but for the same files.
HeldCurrent ==
    \A t \in Reader : (pc[t] = "reparse" /\ arg[t] \in Indexed \ overtaken) =>
        held[t] = files[arg[t]].symbols

\* Every cached source text is in source_lru or about to enter it, so that
\* max_cached_sources bounds the texts kept in memory.
SourcesTracked ==
    \A u \in Indexed : files[u].source_text # None =>
        \/ u \in ToSet(source_lru)
        \/ \E t \in Thread :
              \/ pc[t] \in {"touch_tree", "touch_source"} /\ arg[t] = u
              \/ pc[t] = "evict_sources" /\ u \in ToSet(kept[t])

\* A cached tree was built by the parser of the file's own syntax.
ParsedAsItsSyntax ==
    \A u \in Indexed : files[u].green # None => files[u].green.parser = ParserOf(u)

\* A location is built from one version of the file.
LocationConsistent ==
    \A t \in Reader :
        (pc[t] = "idle" /\ location[t].source_text # None) =>
            /\ location[t].line_index = location[t].symbols
            /\ location[t].source_text = location[t].symbols
=============================================================================
