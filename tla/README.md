# A TLA+ model of sass-analyzer

sass-analyzer is a language server, a parser library and a command-line checker
for SCSS and indented Sass. This directory holds TLA+ modules translated from
its source, the TLC configurations that check them, and proofs that TLAPS
checks. `PROJECT.json` maps every definition to the lines it models, lists the
runs, the theorems, what the runs found, and the hazards they are aimed at.

    tlc -config PipelineRace.cfg MCPipeline     one run
    tlapm ModuleCacheProofs.tla                 the proofs of one module

Paths below are relative to `crates/`.

## 1. Inventory

### The language server (`sass-lsp/src`)

| part | state | operations | talks to |
|---|---|---|---|
| `main.rs`, Backend | `documents` (DashMap of analysed copies), `source_texts` (DashMap of raw texts), `task_tx` (unbounded channel), `workspace_root`, `runtime_config` | initialize, did_open / did_change / did_close / did_save, did_change_watched_files, did_change_configuration, execute_command, and every read-only request | sends Tasks to the worker; reads and, on open, writes `documents`; reads the module graph |
| `worker.rs`, run_worker | `pending` (latest edit per file), one debounce timer, `has_pending` | receive a Task; flush the batch; refresh_dependents; check_workspace | writes `documents` and the module graph; publishes to the client |
| `workspace.rs`, ModuleGraph: caches | `files` (symbols, line index, tree?, text?), `tree_lru`, `source_lru` | index_file, remove_file, evict_trees, evict_sources, get_or_reparse_green, source_text | worker writes, handlers read and write back what was evicted |
| `workspace.rs`, ModuleGraph: indexing | `edges`, `resolver` (RwLock), `prepend_imports`, `allowed_roots` | index_file and index_dependency (mutually recursive), set_resolver, set_prepend_imports, set_allowed_roots | worker recurses, the configuration handler replaces |
| `workspace.rs`, ModuleGraph: resolution | none of its own: it reads `files` and `edges` | resolve_reference, find_in_module, visible_symbols, find_all_references, check_name_conflict, dependents_of, complete_use_paths | called by nearly every request |
| `symbols.rs`, `ast_helpers.rs` | none | collect_symbols, once when a file is indexed | index_file stores the result |
| `config.rs` | atomics for debounce and limits | apply, build_resolver | |
| `diagnostics.rs`, `builtins.rs` | none | check_file | worker |
| navigation, highlights, call hierarchy, signature help, inlay hints, semantic tokens, hover, completion | none | pure functions of a document and the graph | read `documents` and the graph |
| rename, `code_actions.rs` | none; they answer with edits of texts, which the client applies and sends back as changes | handle_rename, auto_import_actions, unused_use_actions, extract_variable_action, extract_mixin_action | the same, and the resolver |
| `convert.rs` | none | byte offset <-> UTF-16 position | everything |

Two tasks run: the serving task, which executes handlers one after the other,
and the worker. No handler of a notification that these modules are about
awaits, nor does a request but for completion of a path, which lists directories
on a thread for blocking work (`main.rs:597`, `completion.rs:436`) and then holds
no entry and touches no cache; `initialized` awaits the registration of its
watcher (`main.rs:349`). The tasks share the DashMaps, the LRU mutexes and the
resolver's lock, and are connected by the channel. The client must read what is
published, and answer one request the worker waits for: that for a progress
token, at the start of a check of the workspace (`worker.rs:331`).

### The parser (`sass-parser/src`)

Text goes through `lexer.rs` (or `sass_lexer.rs`, which adds virtual braces
and semicolons for the indented syntax), `input.rs` (trivia set apart), the
recursive-descent `grammar/` over `parser.rs` (markers and events) and
`bridge.rs` (events and trivia to a green tree). `reparse.rs` splices a
re-parsed region into an old tree. `imports.rs` reads the imports off a tree
and `resolver.rs` looks for them on the disk: candidates beside the importing
file, aliases, load paths, node_modules. `line_index.rs` maps offsets to lines.
All of it is sequential and without state between calls; the disk is the only
thing that changes under it.

### `sass-cli`, `xtask`, `editors/code`

A sequential command-line checker, the generator of the typed syntax tree, and
the VS Code client that starts the server.

### What is hard, and what makes each part correct

* **Pipeline** - versions restart at every open; edits are coalesced, debounced
  and drained in hash order; a Close or a file event acts long after it was
  sent; a panicking parse drops an edit. Correct: at rest the analysed copy,
  the graph and the diagnostics are those of the editor's text; sessions never
  mix; nothing is lost; it comes to rest.
* **Caches** - tree and text of a file are evicted under different locks while
  handlers put them back. Correct: a file always keeps one of the two; what is
  cached belongs to one version; the lists the limits act on are complete.
* **Indexing** - recursion over cyclic imports, a cap, a lock taken again while
  held, settings replaced in the middle. Correct: it ends, never re-enters a
  file, leaves a closed graph, and a new configuration gets through and holds.
* **Resolution on disk** - many places to look, each with namesakes; edges are
  computed once while files come and go, and reports arrive late. Correct: an
  edge is out of date only in ways that can be named, edges lead to indexed
  files once the reports are in, and paths the server writes mean a file.
* **Names across files** - several walks over `@use` and `@forward`, written
  apart: for completing, resolving, finding references, renaming, refreshing;
  and two readers of a tree, one for the cursor and one for the index. Correct:
  they agree; what is offered resolves; what is reported is wrong.
* **Edits** - made from one version of several files, applied to all, indexed
  again. Correct: every reference means what it meant, or what was asked for.
* **Parser** - markers completed or abandoned out of the obvious order; loops
  that must consume something; recovery; lookahead with a budget; blocks
  derived from indentation. Correct: it ends, without a panic; nothing of the
  text is lost; what it could not read is reported; an item does not depend on
  what is typed far behind it; blocks are as the indentation says.
* **Reparse** - what an edit may affect, guessed from the siblings of the
  innermost block. Correct: same result as parsing the whole text.
* **Positions** - bytes, characters and UTF-16 units; differences of unsigned
  numbers. Correct: a position comes back as the same offset; what is marked is
  what was meant.

The full list, at the lines where each bites, is `hazards` in `PROJECT.json`.

## 2. The modules

### ModuleCache (`ModuleCache.tla`, `MCModuleCache.tla`, `ModuleCacheProofs.tla`)

`workspace.rs` 44-242, 256-284, 391-410, 669-697. State: `files` (a
`ModuleInfo` or None per file), the two LRU lists and their mutexes, and for
every thread a program counter, the uri it works on, the text it copied out
(`held`), the entries an eviction keeps aside (`kept`), and the parts of a
location being built. One action per critical section: an entry lock of a
DashMap is one step, an LRU mutex is held across the eviction loop and tried at
each of its turns. Threads are the worker (index_file, remove_file) and any set
of readers (get_or_reparse_green, the accesses of `Backend::symbol`).
A text stands for everything derived from it: a symbol table or a line index is
named by the text it came from, a tree by its text and the parser that built it.

The variable `overtaken` is history: the files that the worker indexed while a
handler was between copying another text of the file and storing the tree it
parses from that, until they are indexed undisturbed. `Coherent` is about all
the other files.

### Mailbox (`Mailbox.tla`, `MailboxProofs.tla`)

The abstract promise about one document: what the editor wants (`want`), the
analysed copy (`have`) and the texts in between (`mail`). A message may be
skipped only because a later one is behind it; opening may show a text ahead
of its message; a text the parser gives up on is dropped. It is checked as what
Pipeline implements, and its own promise, `Delivered`, is proved.

### Pipeline (`Pipeline.tla`, `PipelineMailbox.tla`, `MCPipeline.tla`, `PipelineProofs.tla`)

`main.rs` 358-536 and 705-721, `worker.rs` 110-446. The environment is the
editor's buffers, the files on disk, and the watcher's events (one outstanding
per file; the handler may receive it late). A handler is one action: none of
these awaits, `source_texts` is invisible to the worker, and an append to the channel
commutes with the worker's steps; did_open, the one handler that writes
`documents`, inserts before it sends, and the worker can do with an early
insert nothing it could not do just before the handler. The worker is split at
every await and between accesses to maps a handler writes: FlushParse (which
also takes `is_current`), FlushIndex, FlushStore, FlushPublish; clear after
Close; one action per dependent refreshed. The batch (drained from a HashMap)
and check_workspace's file list are taken in any order. Diagnostics are named
by what they were computed from: text, version, and the indexed text of the
file and of each of its resolved imports. The timer may fire whenever it is
armed.

`CascadeReaches` is about changes made outside the editor. `Cascades` names the
two it leaves out: a dependency that is open in the editor, whose edits refresh
nobody; and a text the worker refuses (too long, or the parser panics on it),
where several files import the dependency. The event of the dependency itself
is then skipped before its dependents are refreshed (`worker.rs:160`, `:163`),
but `index_dependency` may have put that text into the graph, or the one before
it, on behalf of the other importer.

`PipelineMailbox` holds the refinement. For one document, `Doc`, `Box` is a
Mailbox whose mail is, in this order, what the worker is indexing, what it has
drained, what waits for the timer and what is in the channel; and
`ImplementsMailbox` says that every step is a step of that Mailbox or none. `Doc`
is any file: a constant, so the theorem is about each of them.

### Indexing (`Indexing.tla`, `MCIndexing.tla`, `IndexingProofs.tla`)

`workspace.rs` 80-147, 256-369, 1091-1128, `main.rs` 448-485. The recursion is
an explicit stack of frames (the loop a call is in, the specifiers left, the
edges found, whether it holds the resolver's read guard). The configuration
handler runs beside it in its three steps. Whether a reader passes a waiting
writer is left to `WriterPreference`: the standard library's lock does not say,
and its implementations for Linux, macOS and Windows do make readers queue.

### Resolver, Resolution (`Resolver.tla`, `Resolution.tla`, `MCResolution.tla`, `ResolutionProofs.tla`)

`Resolver` is `resolver.rs`, with `compute_use_path` (`code_actions.rs` 216-340)
and `complete_use_paths` (`workspace.rs` 730-922). A path is a sequence of names,
a disk a set of paths. `Search(spec, from)` lists, in order, every path the
resolver would try, and `Resolve` takes the first that is on the disk.

`Resolution` is the life of edges. The disk changes (`Create`, `Delete`) and each
change is reported later and in order; the worker indexes or removes the reported
file (`ReceiveChange`, `ReceiveDelete`), and a user's edit indexes a file
whatever is on disk. `todo` holds the calls of index_file and index_dependency
under way; between any two of them the disk may change. `since` is history: the
files created since a file was indexed. A file is known by the path the resolver
put together, which may hold `..`, so the graph can know one file by two names,
as the code can: it does not normalise specifiers that begin with `../`.

### Symbols, ModuleScope, Semantics, Features

Operators, layer upon layer over `Grammar`, for what the server reads off parsed
files:

| module | source (`sass-lsp/src` unless given) |
|---|---|
| `Symbols.tla` | `symbols.rs`, `sass-parser/src/imports.rs`, the cursor's view of a tree in `navigation.rs`: definitions, references, imports; what is under a position |
| `ModuleScope.tla` | `workspace.rs` 381-667, 924-1089, 1133-1420: namespaces and visibility of edges, resolve_reference, find_in_module, visible_symbols, find_all_references, check_name_conflict, dependents_of |
| `Semantics.tla` | `diagnostics.rs`: argument counts from the text of parameter lists, undefined references, local declarations |
| `Features.tla` | the answers of `navigation.rs`, `highlights.rs`, `call_hierarchy.rs`, `signature_help.rs`, `inlay_hints.rs` |
| `Conversion.tla` | `sass-parser/src/line_index.rs`, `convert.rs`, the subtraction in `semantic_tokens.rs`: lines, bytes and UTF-16 units of a sequence of characters. It stands on its own, so that it can be proved about (`ConversionProofs.tla`) |
| `Positions.tla` | `semantic_tokens.rs`: which tokens are marked, where they are in the text, the delta encoding |

A document is its tokens and its nodes in preorder, made by the grammar's own
`Parse`; a range is a pair of token positions. Places where a symbol is found
are a sequence, as they are a `Vec` in the code: nothing removes what is found
twice, and a rename sends an edit for each. The imports that `prepend_imports` adds
to every file (`workspace.rs` 337-362) are edges in `Indexing`, not in
`ModuleScope`, whose files have the edges of their own imports. In `Positions` each token is
spelled out as characters with a width in bytes and one in UTF-16 units. A
*project* is what ModuleGraph holds of its files.

### Refactor (`Refactor.tla`, `RefactorProperties.tla`, `MCRefactor.tla`)

The edits the server offers - rename, auto-import, removal of an unused `@use`,
extraction of a variable or a mixin - and a line the user deletes, each computed
from the index (`project`) and applied to `texts` by an editor that has all files
open; `Index` then parses and indexes what changed. A rename may begin at any
name, an extraction at any selection. A rename whose edits overlap is refused by
the editor, as the protocol has it: the request is on record and no text
changes. `RefactorProperties` says what is expected:
of the answers, as invariants of an index that is current; of the edits, as
properties of the step that indexes them, comparing what every reference meant
before with what it means after. The conditions of these properties name cases
that the code gets wrong; section 5 lists them.

### Stated and refuted

Besides those of section 5, these properties are stated at the end of their
modules and TLC refutes them quickly; the hazards at the lines in question say
so, and no run repeats it.

| property | what the code does | how to see it |
|---|---|---|
| `Coherent` of the files in `overtaken` too | a re-parse that began before index_file stores its old tree in the new entry | `ModuleCacheLru.cfg` |
| `LocationConsistent` | a symbol's location mixes two versions of its file | `ModuleCacheLru.cfg` without its `VIEW`, which leaves the location out |
| `SourcesTracked` | a reconstructed text is cached outside its list | `ModuleCacheLru.cfg` |
| `ParsedAsItsSyntax` | an evicted tree of a .sass file comes back from parse_scss | `ModuleCacheLru.cfg` |
| `EagerDocument` | a Close still in the channel removes the copy a re-open put there | `PipelineRace.cfg` |
| `EdgesFollowConfiguration`, `FoldersKept` | files indexed before a configuration change keep their edges; the change forgets extra workspace folders | `IndexingGraph.cfg` |
| `CascadeReaches` without the exceptions in `Cascades` | a text that is refused is skipped before dependents are refreshed, while index_dependency may have indexed it | `PipelineCascade.cfg` |
| `BlocksFollowIndentation` | a comment line between a header and its block moves the block | `SassIndent.cfg` |

### SassIndent (`SassIndent.tla`, `MCSassIndent.tla`, `SassIndentProofs.tla`)

`sass_lexer.rs` 20-429. The raw tokens of an indented file go by in any order,
one action per kind; the lexer's state is translated field by field. A token is
named by what the lexer asks of it (a name after which a header continues, a
name that needs more, a combinator, ...); comments and white space within a line
are left out. The virtual braces are counted, not kept: `depth`. Two successive
`Newline` steps are a line that holds nothing, or a block comment.

`enclosing`, `consistent` and `astray` are a reference, not state of the lexer:
the columns of the statement in progress and of those it is indented under, by
the layout rules; whether every line returned to a column in use; and whether
one of the cases came up in which the lexer departs from the rules:

* a comment line, or a blank one, between a header and its block (the lexer
  then measures the block against the comment, or continues an operator);
* a deferred brace after `@else`, followed by a line that starts with what may
  continue a header (`$x: 1` in an else block): the block's brace is cancelled.

Line ends are one byte: a CRLF counts as two newlines at `sass_lexer.rs:189` and
as one at :367, which is a hazard without a property.

### Events, Parser, Lookahead, Grammar

| module | source (`sass-parser/src`) |
|---|---|
| `Events.tla` | `parser.rs`, `event.rs`, `input.rs`: the parser's state as a record, each method a function from the record to the next; markers as indices of events |
| `Parser.tla` | `bridge.rs` as a function, from events to a tree; the depth guard and the loops of the rules |
| `Lookahead.tla` | what the grammar asks before it chooses a rule: token sets, binding powers, and the bounded scans of `functions.rs` (is it a calculation?) and `grammar/mod.rs` (is it a declaration?) |
| `Grammar.tla` | `grammar/`: expressions, selectors, items, blocks, declarations, every at-rule |

The parser is sequential, so these are operators, one per function of the
source and named for it, and they parse: `Parse(tokens)` is the tree and the
places of the errors. The rules call each other in circles, and every circle
goes through one operator, `Rule`, that has a rule's name and chooses its body:
`Block(p)` is the call of the rule whose body is `block(p)`. (TLC expands
operators into each other to count what they cost, and a second way round would
multiply the expansion.) A token is a record: its kind, its text if it is a word,
and whether white space precedes it, which is all of the trivia that the
grammar asks about. A word stands for all those the grammar treats alike (`true`
for a literal, `url` for a call whose arguments are opaque, `--x` for a custom
property). A tree keeps kinds, children and widths.

A loop of the source is `While`, `WhileSome` or `Skip`. Rules are functions of
the position, so a turn that consumes nothing will be taken again for ever; the
parser is then *halted* with "hang", and with "panic" where an assertion of the
source fails. `Guarded` is the depth guard.

But for `Events`, these modules are recursive, so their operators are out of
TLAPS' reach. What the tree owes to the parser and the bridge, whatever the
grammar, is the subject of the next module.

### Markers (`Markers.tla`, `MCMarkers.tla`, `MarkersProofs.tla`)

The parser of `Events` under any grammar, and `build_tree` of `bridge.rs` event by
event, as one state machine. While `next` is 0 the parser runs: a step is one call
of `start`, `complete`, `abandon`, `precede`, `bump` or `error`, between the first
and the last call of `source_file`. Then `next` is the event the bridge is at, and
a step is one arm of its match, or one turn of its loop along a chain of forward
parents. `spent` are the events that loop has replaced by tombstones; `parents`,
`children`, `token_idx` and `forward_parents` are the variables of the code; of the
trivia, only which token they go with is kept.

The code asks of its callers only that every marker is completed or abandoned (a
`DropBomb`). The rest is how the rules of `grammar/` use markers, and the guards
say it: the marker begun last, counting a `precede` as begun where its node
begins, is done with first (`Innermost`); only a marker from `start` is abandoned;
only a complete node that nothing complete and nothing begun later holds is
preceded (`Outermost`), although its later siblings may be complete already, as in
`sass_value_list`. The rules do not pass a CompletedMarker out of the rule that
called theirs, which is why these hold.

`nodes` and `made` are history: the markers, and the nodes the bridge finished.
`TreeAsMarked` compares them. It says what `Lossless` does and more - which node has
which tokens, and lies in which - of every grammar instead of this one; what it
leaves out is whether this grammar consumes all tokens, of which the root's
`Finish` is the guard, and `Total` and `Lossless` are about.

### Reparse (`Reparse.tla`, `MCReparse.tla`)

`reparse.rs` and `try_incremental_or_full` of `worker.rs`. State: the text, the
tree and errors kept with it, and, for comparison, what a full parse gives.
One action: an edit deletes and inserts tokens, and the document is either
re-parsed in part - with the fallbacks in the order of the code - or as a whole
(as the worker does when another task intervened). Offsets count tokens, each
with the trivia before it, so a region begins and ends where a token does; the
code's may begin within white space. At this commit the server announces full
synchronisation and never takes the partial way: it is a function of the
library, with tests.

The parser's own properties (`Total`, `Lossless`, `ErrorsReported`, `ItemsStay`)
are about `full`, checked for every text an edit can make.

`ExactWhenCorrect`, that a partial re-parse gives what a full one gives, is
stated for an edit of a correct text to a correct one with balanced brackets.
Each of the conditions is there because TLC refutes the property without it:

* *the new text has no errors*: of `$x: 1; $x: 1; $x: 1;` a `;` can be deleted
  unreported, because the region is not widened when it would take in everything;
* *the old text has none*: an error at the very end lies in no region and is
  kept by `merge_errors` after the edit that repaired it;
* *brackets balanced*: an open parenthesis in an opaque condition (`@media (`)
  or a custom property takes in what follows, braces included, up to the end of
  the text, or of the region. That the braces of an edit can change the structure
  beyond its block is known: `tests/reparse_tests.rs` says so.

### Conventions

Properties stand at the end of each module, each under a comment saying what it
means for the code. Next to some definitions stands a *mutant*: the same
operator as a plausible slip would have written it (a dropped guard, a missing
reset, an off-by-one). No specification uses one; `PROJECT.json` pairs each
property with a mutant that breaks it under the same configuration, as evidence
that the property says something about the code.

## 3. Runs

The bounds are small because the state is symmetric in what is left out: one
file's caches do not see another's but through the LRU lists, so three files and
limits of one make every eviction decision happen; a pipeline's file meets
another only as its import, or as another importer of the same file. The run of
the cache takes states for one that differ by renaming the two texts, or the two
files with the same syntax, and its `VIEW` leaves out the location being built,
which steps write and none reads.

| run | configuration | what it checks and shows |
|---|---|---|
| `cache_lru` | 3 files (one .sass), 2 texts, limits 1, worker and one handler | `Recoverable`, `TreesTracked`, `TreeListBounded` hold, and `Coherent`: no file mixes versions but those overtaken by index_file during a re-parse |
| `pipeline_race` | one edited file that also changes on disk, 3 texts, one unparsable, versions 1 and 2 at open, 5 events | `QuietMeansCurrent`, `SessionsKeptApart`, `ImplementsMailbox` hold, and the system comes to rest: `Converges` |
| `pipeline_cascade` | `main` open, `other` closed, both import `lib`; `lib` and `other` change on disk; 4 texts, one too big and one unparsable; 4 events | `CascadeReaches` holds for changes made outside the editor |
| `indexing_graph` | 4 files with two import cycles, 2 settings, cap 3, 3 indexings, 2 changes; readers pass a waiting writer | `NoReentry`, `GraphClosed`, `IndexingEnds` hold |
| `indexing_lock` | nested imports, a waiting writer stops readers | **violated** (`ConfigurationApplied`): worker and handler wait for each other |
| `sass_indent` | 16 kinds of tokens, lines at 3 columns, 2 brackets deep | `BracesBalance`, `DeeperAndDeeper`, `BracketsAreOneLine` hold, and so does `BlocksFollowUnlessAstray`: apart from the two cases above, blocks are those of the indentation |
| `markers` | 2 tokens, one kind, markers and errors at the first 8 events | `TreeAsMarked` holds: no panic, and the tree is as the markers say |
| `reparse` | 4 documents edited once anywhere (one token deleted, at most one inserted), 56 openings typed onto twice, with 39 tokens; depth 16, lookahead 30 | `Total`, `Lossless`, `ErrorsReported`, `ItemsStay`, `ExactWhenCorrect` hold |
| `parser_depth` | `a { b: calc((`, typed onto, depth 4 | **violated** (`Total`): calc_sum's loop at the depth limit |
| `resolution` | 7 files: three imports of one file, with namesakes beside it, behind an alias, on a load path, in node_modules and as the index of a directory; 2 creations or deletions, from an empty, a partial and a full disk | `StaleOnlyByCreation`, `QuietEdgesLand`, `OneFileMatters`, `OfferedPathsResolve` hold |
| `refactor` | 36 projects of up to 4 files, among them every kind of `@forward` under every kind of `@use`, chains, namesakes, a library used and listed twice, a built-in module and names outside ASCII; one edit of any kind at any place | what the features answer agrees: `ReferencesAreUses`, `CursorAgrees`, `LinksAreEdges`, `CallsAgree`, `OfferedResolves`, `HintsMatchSignature`, `MiscountsAreReal`, `PositionsRoundTrip`, `TokensMarkNames`; what the edits do: `RenameKeepsMeaning`, `AutoImportCures`, `RemovalKeepsMeaning`, `ExtractionKeepsSense`; whom a change concerns: `RefreshSuffices` |
| `unused_use` | the same | **violated** (`UnusedServesNothing`): a `@use` that serves only variables or mixins is offered for removal |

Five events are enough for the races of the pipeline: open, edit, close and
re-open of a file with a change on disk in between is five, and each further
edit only replaces the one pending. For the indented lexer three columns are
enough to open two blocks and close both or one of them, and two brackets are enough to
close one and stay within the other; `-`, `:`, `string` and `{` act like
kinds the run has and are left out of it. For the grammar the openings put the
parser at the start and in the middle of every statement, and two more tokens
of every kind take it through each of its next decisions and into its recovery.
`MaxDepth`, `MaxScan` and `MaxSignals` stand for 256, 100 and 256: no text of
`reparse` is long or deep enough to reach 16 or 30, as few real ones reach the
limits of the code, and `parser_depth` is about reaching them. The documents
have an item of each kind that looks ahead or behind (a call, an `@else`, a
nested rule, a declaration without its end).

Eight events are three nodes that begin together, a chain walked over two
links, with a token in two of them, or two chains beside each other, and an abandoned marker
before, within or behind either. More events only nest or repeat these; and the
theorem is about any number.

Two changes of the disk are enough for a file to be replaced, or to go and come
back, at every point of an indexing; a third would have to concern an edge that
the first two left alone. An edit of `refactor` is checked against the project
it was made for, so a second one is the first of another project; two in a row
take longer than five minutes. Its projects are small because walks over
`@forward` and the readers of a tree are local: each has every kind of reference,
definition and clause next to each other that some property compares.

Where a module's type invariant is proved for all constants (ModuleCache,
Pipeline, Indexing, SassIndent, Resolution, Markers), no run repeats it.

Runs whose environment is bounded by a counter (Pipeline, Indexing, Reparse,
Refactor) or that reach the end of a file or of its tree stop there, so they do not check for
deadlock; ModuleCache and Resolution do.

**Fairness.** Pipeline assumes `WF(Worker)`: the runtime polls the worker's task
and its sleep expires; and `WF(Watcher)`: the editor delivers its file events.
The user need not act. Indexing assumes that the worker's thread and the
handler's thread run when they can. `WF(Worker)` also takes it that a client
reads what is sent to it, as the worker awaits each publication, and that it
answers the request for a progress token (`worker.rs:331`); that of
`semantic_tokens_refresh` is awaited by a task of its own (`worker.rs:260`,
`:293`), and nothing waits for it.

## 4. Proofs

| theorem | statement | argument |
|---|---|---|
| `TypeCorrect` | `Spec => [](TypeOK /\ CallOK)` | inductive as it stands; `CallOK` records what a thread in the middle of a call relies on |
| `FilesRecoverable` | `Spec => []Recoverable` | each step changes one entry, and drops a tree (text) only in the step that saw the text (tree) |
| `TreesStayTracked` | `Spec => []TreesTracked` | a stored tree's thread is at touch_tree; an eviction removes a uri with its tree, or keeps it; only the worker can insert, so remove_file's second step finds no tree |
| `CoherentUnlessOvertaken` | `Spec => [](Coherent /\ HeldCurrent)` | `HeldCurrent` is what makes the unguarded store harmless: but for the files overtaken, what a handler re-parses is the text of the entry. Only index_file changes an entry's symbols (`OthersKeepSymbols`), and it overtakes a file unless all who re-parse it hold the new text |
| `TreeListStaysBounded` | `Spec => []TreeListBounded` | unless a thread owes an eviction (it is on its way to evict_trees, which it always ends a touch with), the files in the list whose text is in the list of texts are no more than the limit. Needs that no file is listed twice, that a text stays while its file is in that list, and who holds what is kept aside |
| `NothingLost` | `Mailbox!Spec => []Delivered` | with its `TypeOK`, inductive: every way a message leaves the mailbox leaves its last one in place |
| `PipelineTypeCorrect` | `Spec => []ShapeOK` | the type invariant, and `JobOK`: what the worker is in the middle of, and that only a flush holds drained edits |
| `SessionsStayApart` | `Spec => []SessionsKeptApart` | `Session(u)`: a queued edit with no close behind it, and, when no close is queued, everything the server holds for a file, is `Within` the buffer: not ahead of it, and at its version with its text. Without the clause about the channel, the edits that arrive later would be unknown |
| `QuietIsCurrent` | `Spec => []QuietMeansCurrent` | `Latest(u)`: an accepted buffer's text is the last thing queued about its file, or nothing about the file is queued and the worker either holds the text or has settled it. That a flush will publish needs `Session`; that files indexed on the way disturb nothing needs `DependenciesAreNew` |
| `CascadeAlwaysReaches` | `Spec => []CascadeReaches` | `CascadeOK`, in four parts: only files the user opens have texts of the editor (`FromEditor`); the last word of the watcher on its way about any other file says whether that file is on the disk (`Truthful`); such a file that is on the disk, imported and not in the graph has word on its way, or a text the worker refuses (`Accounted`); and the diagnostics of a settled document that are not about to be computed again agree with the graph but for those exceptions (`UpToDate`). That the document is settled comes from `Latest` |
| `PipelineIsMailbox` | `Spec => ImplementsMailbox` | one step per action: which of the Mailbox's it is, computed from how `Transit` changes. A drained batch stands before the pending edits, and those before the channel, so concatenation keeps their order; `FlattenTail`, `FlattenAppend` and `FlatAgree` are what a receive, a send and a task about another file do to the letters |
| `PipelineLosesNothing` | `Spec => []Box!Delivered` | `NothingLost`, with the state of the pipeline for the Mailbox's |
| `IndexingTypeCorrect` | `Spec => []TypeOK` | inductive |
| `IndexingNeverReenters` | `Spec => []NoReentry` | a frame is pushed only for a file not in `files`, and every file on the stack is in it |
| `IndexingClosesGraph` | `Spec => []GraphClosed` | through `ClosedSoFar`: files not on the stack are settled, and what frames have found is indexed or was refusable, which stays so because `files` only grows and a refusal by the roots of some setting is permanent |
| `IndexingDepthBounded` | `Spec => []DepthBounded` | the files of the calls on the stack are in the graph and differ (`NoReentry`), so there are no more calls than files; and a nested call is made only when the file it adds stays within the limit |
| `IndexingAdvances` | `Spec => [][Worker => Advances]_vars` | each step of the worker goes down in one order: files that may still be added, calls, what the call on top has left |
| `TypeCorrect` (SassIndent) | `Spec => []TypeOK` | from `Invariant` below |
| `BlocksDeeper` | `Spec => []DeeperAndDeeper` | a deferred column is deeper than the top until it is pushed or forgotten, and closing keeps a prefix of the stack |
| `VirtualBracesBalance` | `Spec => []BracesBalance` | a push is a brace, a pop is a brace; at the end the stack is back to the file's own level |
| `NoBraceInBrackets` | `Spec => BracketsAreOneLine` | no line ends within brackets, and a deferred brace is out before a bracket opens, so none is pending inside |
| `BlocksFollow` | `Spec => []BlocksFollowUnlessAstray` | `BlocksInv`: while nothing went astray, the stack is, within a statement, the columns of `enclosing` (`InStatement`); between statements the stack and the deferred column are those that a statement begun on this line would be under (`Between`), which says more than the property, as `enclosing` takes in a line only when its first token comes or the line ends |
| `TypeCorrect` (Resolution) | `Spec => []TypeOK` | inductive, as searches end in names |
| `StaleEdgesKnown` | `Spec => []StaleOnlyByCreation` | an invariant relates each edge to the disk as it was when the edge was computed: what was missing then and is there now is in `since`. A search takes the first place that is filled (`LeastNumber`: a set of numbers that is not empty has a least), so two disks differ in what it finds only by one of the two places found |
| `OneFileMattersAlways` | `Spec => OneFileMatters` | the same lemma, `ResolveOnTwoDisks`, for the disk before and after a step |
| `EdgesLand` | `Spec => []QuietEdgesLand` | two invariants: a file that is on the disk after a deletion still to be reported has its creation reported behind it (`BackIsReported`), and an edge to a file that is not in the graph has that file on its way, by a call, by a report, or not on the disk (`Awaited`) |
| `MarkersTypeCorrect` | `Spec => []TypeOK` | from `Inv`, below |
| `TreeIsAsMarked` | `Spec => []TreeAsMarked` | from `Inv`, below |
| `PositionsInvert` | `RoundTrips` for every text | `WellPlaced` is what the conversions need to know about the places of a text: the origin and the end are among them, no two have the same byte, a later one has more units, and a line begins behind a line feed of one byte. By induction over the text it holds of `PlacesOf`. (The run takes a long text token by token, each from the place where the one before ended: `PlacesFrom`, of which `PlacesOf` is the case of a whole text.) Lines are numbered in the order of their starts (`Cardinality` of those up to an offset), so the line found for an offset starts before it and ends after it; and the first place whose column is not before the target is the one the column was computed from, as units grow with bytes |
| `OffsetsLand` | `LandsInLine` for every text and every position | the places from the start of the line to its end include both, so the least that is reached is one of them |
| `DeltasAreUnsigned` | `GoesForward` for every text | lines grow with offsets, and within a line columns do |

They hold for any number of files, texts, settings and reader threads, any
limits, either lock policy, any tokens, kinds, columns and number of events,
under the named assumptions on the constants (`CacheConstants`, `NoneIsNoValue`,
`PipelineConstants`, `NoneIsNoDiagnostics`, `IndexingConstants`,
`SassConstants`, `ResolverConstants`, `ResolutionConstants`, `NamesClosed`,
`NoneIsNoEvent`, `DocIsFile`, `MarkersConstants`). `NamesClosed` says that wherever the resolver looks and finds a file, the name it finds
it by is among `Names`; TLC evaluates it for the run's. The inductive invariant
of SassIndent, `Inv`, adds to the properties what a deferred brace implies (no
bracket open, no statement in progress) and that after the end of the file one
level is left.

The inductive invariant of Markers, `Inv`, has two parts. `MarksOK` is about what
the parser leaves behind. Every marker has its Enter event and, once complete,
its Exit event (`Placed`), no two share one (`Single`), and there are no others
(`Covered`). Nodes are apart or within each other, and of those that begin
together the one started later holds the others (`Laminar`); the forward parent of
each is the next of those, so that following the links visits each once, in
order, from the one that precedes nothing (`Headed`, `Chained`). Tokens come once
and in order (`TokensInOrder`), and those consumed when a marker began, or was
completed, are those of the events before it (`Spanning`). `BridgeOK` is about how far the
bridge has come. The parents are the nodes begun and not completed before the
event it is at, outermost first (`Nested`), the first child of each begins where
the node does (`Reached`), the children end with the last token passed (`Joined`);
a chain being walked is the first nodes that begin here (`Walked`), and what is
spent is what chains have taken in, no more (`Spent`): the bridge opens a node
when it comes to the head of its chain and must not open it again at the node's
own Enter. `TreeAsMarked` alone is not inductive: which node an Exit closes depends on
the order the parents are in, and that on the chains.

The theorems about positions are about texts as sequences of characters, with one
to four bytes and one or two units each. In the run, `PositionsRoundTrip` says the
same of the texts that the edits of `refactor` leave behind, spelled out from
their tokens, and `TokensMarkNames` that what is marked at those positions is a
name. The library's rules for induction take an operator, which the provers cannot
instantiate; where these proofs need induction over a sequence (`FoldLeft`,
`FlattenSeq`) they use the lemma `Induction`, which takes a set of numbers instead: a set
that holds 1, and with each number below n the next, holds all of 1 to n.

Only model-checked, and why:

* `OfferedPathsResolve`: it depends on the setting. With two aliases that both
  begin a specifier, `@` and `@/s`, the search tries the longer, and if that has
  one target it ends there, while completion also offers what the shorter leads
  to. Of the run's setting it is true. Aliases are strings, besides, into which
  the provers do not see.
* Everything about the grammar and what is built on its trees (Symbols,
  ModuleScope, Semantics, Features, Positions, RefactorProperties, Reparse): the
  grammar is recursive, as the trees are.
* Liveness: `Converges`, `IndexingEnds`. That every step of an indexing is one
  towards its end is proved (`IndexingAdvances`); that the steps are taken is
  fairness, and, with a lock that prefers writers, not so (`indexing_lock`).

## 5. Findings

`findings` in `PROJECT.json` quotes, for each violated run, what the repository
says. In short: the resolver lock taken twice; the loop of a calculation at the
depth limit; a `@use` offered for removal that is in use.

The properties of the features and edits hold under conditions; each condition,
and some choices of the models, stand for something the code does that a reader
may not expect. None has a run of its own. Lines are those of `sass-lsp/src`, or
of `sass-parser/src` for `resolver.rs` and `imports.rs`.

References and cursor:

* `symbols.rs:141`, `navigation.rs:43`: in `$a: $b;` the reference `$b` is taken
  for the definition, and neither collected nor found by the cursor.
* `symbols.rs:141`, `:172`: `ns.$x` and `@include ns.m` are not collected (the
  third finding follows). `symbols.rs:172`: `@include ns.m using ($x)` is collected as
  a mixin `using`.
* `workspace.rs:957`: the call inside `ns.f()` is collected a second time, as a
  call without namespace: where a local `f` is visible too, renaming it renames
  `ns.f()` as well (`NoHomonyms`).
* `workspace.rs:952-981`: where `f` without a namespace means the same function
  (`@use 'lib' as *; @use 'lib' as o; a { b: o.f(1) }`), the call in `o.f()` is found
  twice, and a rename sends two edits of one range (`FoundOnce`). Nothing between
  there and the client removes one of them (`navigation.rs:477-506`), and a client
  must refuse edits that overlap: the rename fails. References list it twice.
* `navigation.rs:403`: a built-in can be renamed, which renames its calls.
* `workspace.rs:924`: of several definitions of a name only the first is found as
  its declaration (`DefinedOnce`). `lib.$x: 1` counts as a definition of the file
  it stands in, and local variables as members of their module.
* `symbols.rs:184`: of `@extend %a, %b` only the first is collected.
* `navigation.rs:29`: within the block of `@include foo { ... }` the cursor is on
  `foo` (`CursorAgrees` asks about names only).
* `navigation.rs:247`: of an `@import` of several files only the first is a link.

Modules:

* `workspace.rs:924`, `:1009`: references and renames miss names seen through a
  `@forward` with a prefix (`Unprefixed`), and a rename edits the lists of every
  forward that reaches the file, also those that mean another symbol of the name
  (`Renamable`).
* `workspace.rs:1021-1053`: all `@forward` rules of a file are walked once for each
  of them that lists the name and leads to the symbol, so of two
  (`@forward 'lib' show f; @forward 'more' show f;`, with `more` forwarding `lib`)
  each place is found twice, and the edits of the rename overlap (`FoundOnce`).
* `workspace.rs:612`: for completion only the last forward of a chain filters and
  prefixes, and one set of visited files is shared by all (`NoFilteredChains`).
* `workspace.rs:1201`, `:1368`: a prefix is a name directly followed by `*`;
  names in `show` and `hide` are compared without it, and without their kind.
* `workspace.rs:990`: a rename's conflicts are looked for in the defining file only.
* `resolver.rs`: a specifier with `../` gives a path that is not normalised (so
  one file may have two entries in the graph: `Plain` in `QuietEdgesLand`); an
  alias whose prefix ends in `/` matches nothing; an alias with one target ends
  the search. `imports.rs`: `@include meta.load-css` is not seen as an import.
* `workspace.rs:903`: .css files are offered without their extension, which does
  not resolve.
* `workspace.rs:798`, `:848`: the file that is being edited is excluded from what
  completion offers of its own directory (`:831`), not of an alias or a load path
  that leads there: it is offered to itself.

Diagnostics and hints:

* `diagnostics.rs:111`, `:183`: white space before a parameter list, or an
  argument that is spread, gives a false `wrong-arg-count` (`CountedFromTree`).
* `diagnostics.rs:356`: a local declaration after white space is not seen.
* `inlay_hints.rs:237`, `signature_help.rs:158`: commas in strings are counted.

Edits:

* `code_actions.rs:343`: a `@use` goes to the start of the line after the last
  import, which may be in the middle of what begins on that import's line.
* `code_actions.rs:128`: for an undefined `q.g` the import makes `q.lib.g`.
* `code_actions.rs:381`: the lines removed begin with the one before, if the
  `@use` is not the first thing in the file.
* `code_actions.rs:478`: the call in `o.f()` can be extracted without its
  namespace, which leaves `o.$new-variable` (`KeepsNamespace`).
* `code_actions.rs:510`, `:698`: what is extracted goes before the enclosing rule,
  where the parameters, loop variables and local variables it uses are unknown
  (`UsesNothingLocal`), under a fixed name; what stands between the first and the
  last declaration of a selection, and is none, is lost.

## 6. Where it ends

The plan of the first version is carried out but for what follows.

**Not modelled**, and why:

* The lexer's characters (`lexer.rs`): classes written out arm by arm; a model
  would be as long as the code. All modules begin at tokens.
* The typed syntax tree (`ast/`): generated accessors without state; and its
  generator, `xtask`.
* `sass-cli`: parses files in a row and prints. Pure I/O.
* Hover, SassDoc, the display form of symbols, tables of CSS names: layout of
  text. Folding of comments: trivia is not in the models' trees. Selection
  ranges: they hold by the shape of a tree.
* How completion guesses from the line before the cursor what is being typed;
  what it then offers is in ModuleScope and Resolver.
* Time: the debounce timer may fire whenever it is armed, so that steady typing
  in one file postpones every other cannot be said.
* A client that stops reading (`worker.rs:276`, guards held across an await):
  the channel to the client is taken to be read.
* Carriage returns: line ends are one byte: a CRLF counts as two newlines at
  `sass_lexer.rs:189` and as one at :367, a hazard without a property.

**Left to do**: a clock and a client channel beside Pipeline; that the rules of
`Grammar` nest their markers as Markers has it, which TLC checks only through
what comes of it (`Total`, `Lossless`).
