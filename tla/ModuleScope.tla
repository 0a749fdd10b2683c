---------------------------- MODULE ModuleScope ----------------------------
(***************************************************************************)
(* Names across files (sass-lsp/src/workspace.rs): the edges of the module *)
(* graph with their namespaces and visibility, what a reference resolves   *)
(* to, what is visible in a file, and where a symbol is referred to.       *)
(*                                                                         *)
(* A project is what ModuleGraph holds of its files, all of them on the    *)
(* disk and indexed, by path: their documents, symbols and edges.  What is *)
(* found is a sequence: <<>> for None.  No file is prepended to others     *)
(* here (prepend_imports): Indexing has those edges.                       *)
(***************************************************************************)
EXTENDS Symbols, Resolver

CONSTANT BuiltinSymbols    \* of each built-in module, as [name, kind, params]

-----------------------------------------------------------------------------
(* Specifiers.                                                              *)

\* The text of a specifier, split at its slashes.
RECURSIVE Segments(_)
Segments(spec) ==
    LET slashes == {i \in 1 .. Len(spec) : SubSeq(spec, i, i) = "/"}
    IN  IF slashes = {} THEN <<spec>>
        ELSE <<SubSeq(spec, 1, Min(slashes) - 1)>>
               \o Segments(SubSeq(spec, Min(slashes) + 1, Len(spec)))

Joined(segments) ==
    FoldLeft(LAMBDA spec, name : IF spec = "" THEN name ELSE spec \o "/" \o name,
             "", segments)

\* default_namespace
DefaultNamespace(spec) ==
    IF IsBuiltin(spec) THEN WithoutPrefix(spec[1], "sass:")
    ELSE Stem(WithoutPrefix(Last(spec), "_"))

-----------------------------------------------------------------------------
(* Edges.                                                                   *)

IsWord(doc, i, words) == doc.text[i].kind = "ident" /\ doc.text[i].text \in words

\* extract_namespace; "*" for Star.
UseNamespace(doc, tokens, spec) ==
    LET named == {k \in 1 .. Len(tokens) - 1 :
                     /\ IsWord(doc, tokens[k], {"as"})
                     /\ doc.text[tokens[k + 1]].kind \in {"*", "ident"}}
    IN  IF named = {} THEN DefaultNamespace(spec)
        ELSE doc.text[tokens[Min(named) + 1]].text

\* parse_member_list, from the k-th of a rule's tokens.
MemberList(doc, tokens, k) ==
    LET clause(i) == IsWord(doc, tokens[i], {"as", "with"})
                     /\ (i = k \/ doc.text[tokens[i - 1]].kind # "$")
        listed(j) == \A i \in k .. j :
                        doc.text[tokens[i]].kind \in {"ident", ",", "$"} /\ ~clause(i)
    IN  {doc.text[tokens[j]].text : j \in {j \in k .. Len(tokens) :
            doc.text[tokens[j]].kind = "ident" /\ listed(j)}}

\* What follows the last `show` (or `hide`), <<>> if there is none.
Clause(doc, tokens, word) ==
    LET at == {k \in DOMAIN tokens : IsWord(doc, tokens[k], {word})}
    IN  IF at = {} THEN <<>> ELSE <<MemberList(doc, tokens, Max(at) + 1)>>

Everything == [prefix |-> "", show |-> <<>>, hide |-> <<>>]

\* extract_forward_visibility
Visibility(doc, tokens) ==
    LET prefixes == {k \in 1 .. Len(tokens) - 2 :
                        /\ IsWord(doc, tokens[k], {"as"})
                        /\ doc.text[tokens[k + 1]].kind = "ident"
                        /\ doc.text[tokens[k + 2]].kind = "*"
                        /\ ~doc.text[tokens[k + 2]].ws}
    IN  [prefix |-> IF prefixes = {} THEN ""
                    ELSE doc.text[tokens[Max(prefixes) + 1]].text,
         show |-> Clause(doc, tokens, "show"), hide |-> Clause(doc, tokens, "hide")]

\* is_visible: of whatever kind the symbol is.
IsVisible(visibility, name) ==
    IF visibility.show # <<>> THEN name \in visibility.show[1]
    ELSE visibility.hide = <<>> \/ name \notin visibility.hide[1]

EdgeTo(doc, import, resolved) ==
    LET tokens == Tokens(doc, import.node)
    IN  [target |-> resolved.path, kind |-> import.kind,
         namespace |-> IF import.kind = "use"
                         THEN UseNamespace(doc, tokens, Segments(import.path)) ELSE "*",
         visibility |-> IF import.kind = "forward" /\ resolved.kind = "file"
                          THEN Visibility(doc, tokens) ELSE Everything]

EdgeOf(doc, import, resolved) ==
    IF resolved.kind \in {"file", "builtin"} THEN <<EdgeTo(doc, import, resolved)>> ELSE <<>>

\* meta.load-css is an import without an edge.
EdgesOf(disk, path, doc) ==
    FoldLeft(LAMBDA edges, import :
                edges \o IF import.kind = "load-css" THEN <<>>
                         ELSE EdgeOf(doc, import, Resolve(disk, Segments(import.path), path)),
             <<>>, Imports(doc))

\* has_legacy_import and has_unresolved_use
Unsure(disk, path, doc) ==
    \E import \in Range(Imports(doc)) :
        \/ import.kind \in {"import", "load-css"}
        \/ Resolve(disk, Segments(import.path), path).kind \notin {"file", "builtin"}

\* index_file
FileOf(disk, path, doc) ==
    [doc |-> doc, definitions |-> Definitions(doc), references |-> References(doc),
     edges |-> EdgesOf(disk, path, doc), unsure |-> Unsure(disk, path, doc)]

\* Some of the files have new texts; all of them are on the disk.
Indexed(project, texts, changed) ==
    [path \in DOMAIN texts |->
        IF path \in changed
          THEN FileOf(DOMAIN texts, path, Document(texts[path])) ELSE project[path]]

\* Mutant: whoever uses a file depends on it, not who imports or forwards it.
Users(project, path) ==
    {f \in DOMAIN project : \E e \in Range(project[f].edges) :
        e.kind = "use" /\ e.target = path}

\* dependents_of
Dependents(project, path) ==
    {f \in DOMAIN project : \E e \in Range(project[f].edges) : e.target = path}

-----------------------------------------------------------------------------
(* Resolution.                                                              *)

Defined(symbols, name, kind) ==
    SelectSeq(symbols, LAMBDA s : s.name = name /\ s.kind = kind)

FoundAt(path, symbols) ==
    IF symbols = <<>> THEN <<>> ELSE <<[file |-> path, symbol |-> symbols[1]]>>

\* Not searched: what has been visited before.
NothingIn(visited) == [visited |-> visited, found |-> <<>>]

\* Mutant: the prefix of a forward is not taken off the name.
UnderWholeName(edge, name) == IF IsVisible(edge.visibility, name) THEN <<name>> ELSE <<>>

\* The name by which a forwarded module is searched, if it may be at all.
UnderName(edge, name) ==
    LET inner == WithoutPrefix(name, edge.visibility.prefix)
    IN  IF StartsWith(name, edge.visibility.prefix) /\ IsVisible(edge.visibility, inner)
          THEN <<inner>> ELSE <<>>

\* find_in_module.  One set of visited modules serves all branches, whatever
\* name they are searched for.
RECURSIVE FindInModule(_, _, _, _, _)
FindInModule(project, path, name, kind, visited) ==
    LET module == IF path \in DOMAIN project THEN project[path].definitions ELSE <<>>
        forwards == IF path \notin DOMAIN project THEN <<>>
                    ELSE SelectSeq(project[path].edges, LAMBDA e : e.kind = "forward")
        follow(edge, inner, sofar) ==
            IF sofar.found # <<>> \/ inner = <<>> THEN sofar
            ELSE FindInModule(project, edge.target, inner[1], kind, sofar.visited)
        here == FoundAt(path, Defined(module, name, kind))
    IN  IF path \in visited THEN NothingIn(visited)
        ELSE IF IsBuiltin(path)
          THEN [visited |-> visited \cup {path},
                found |-> FoundAt(path, Defined(BuiltinSymbols[path[1]], name, kind))]
        ELSE IF here # <<>> THEN [visited |-> visited \cup {path}, found |-> here]
        ELSE FoldLeft(LAMBDA sofar, e : follow(e, UnderName(e, name), sofar),
                      NothingIn(visited \cup {path}), forwards)

\* The first of some edges through which a name is found.
FindThrough(project, edges, name, kind) ==
    FoldLeft(LAMBDA found, e :
                IF found # <<>> THEN found
                ELSE FindInModule(project, e.target, name, kind, {}).found,
             <<>>, edges)

ResolveQualified(project, from, namespace, name, kind) ==
    FindThrough(project,
                SelectSeq(project[from].edges,
                          LAMBDA e : e.namespace = namespace /\ namespace # "*"),
                name, kind)

ResolveUnqualified(project, from, name, kind) ==
    LET here == FoundAt(from, Defined(project[from].definitions, name, kind))
    IN  IF here # <<>> THEN here
        ELSE FindThrough(project,
                         SelectSeq(project[from].edges, LAMBDA e : e.namespace = "*"),
                         name, kind)

\* resolve_reference
ResolveReference(project, from, namespace, name, kind) ==
    IF namespace = "" THEN ResolveUnqualified(project, from, name, kind)
    ELSE ResolveQualified(project, from, namespace, name, kind)

-----------------------------------------------------------------------------
(* visible_symbols, for completion: triples of a namespace, "" for None, a   *)
(* file and a symbol.  Of a chain of forwards only the last one's visibility *)
(* and prefix count, and a module is listed once.                            *)

Listed(path, namespace, visibility, symbols) ==
    LET seen == SelectSeq(symbols, LAMBDA s : IsVisible(visibility, s.name))
    IN  {[namespace |-> namespace, file |-> path,
          name |-> visibility.prefix \o seen[k].name, kind |-> seen[k].kind] :
            k \in DOMAIN seen}

\* collect_module_symbols_filtered
RECURSIVE Collect(_, _, _, _, _)
Collect(project, path, namespace, visibility, sofar) ==
    LET visited == sofar.visited \cup {path}
        own == IF IsBuiltin(path) THEN BuiltinSymbols[path[1]]
               ELSE IF path \in DOMAIN project THEN project[path].definitions ELSE <<>>
        forwards == IF path \notin DOMAIN project THEN <<>>
                    ELSE SelectSeq(project[path].edges, LAMBDA e : e.kind = "forward")
    IN  IF path \in sofar.visited THEN sofar
        ELSE FoldLeft(LAMBDA acc, e :
                         Collect(project, e.target, namespace, e.visibility, acc),
                      [visited |-> visited,
                       symbols |-> sofar.symbols
                                     \cup Listed(path, namespace, visibility, own)],
                      forwards)

VisibleSymbols(project, from) ==
    FoldLeft(LAMBDA acc, e :
                Collect(project, e.target, IF e.namespace = "*" THEN "" ELSE e.namespace,
                        Everything, acc),
             [visited |-> {},
              symbols |-> Listed(from, "", Everything, project[from].definitions)],
             project[from].edges).symbols

-----------------------------------------------------------------------------
(* References to a symbol: a file and a range each, in the order they are    *)
(* found.  Nothing takes away what is found twice.                           *)

SymbolIn(path, found) == found # <<>> /\ found[1].file = path

NamespaceRefs(doc) ==
    FoldLeft(LAMBDA s, n : s \o NamespaceRef(doc, n), <<>>, NodesOf(doc, {"NAMESPACE_REF"}))

\* Mutant: a reference under a namespace belongs to whom it names.
QualifiedByName(project, f, path, name, kind) ==
    SelectSeq(NamespaceRefs(project[f].doc), LAMBDA r : r.name = name /\ r.kind = kind)

QualifiedRefs(project, f, path, name, kind) ==
    SelectSeq(NamespaceRefs(project[f].doc), LAMBDA r :
        /\ r.name = name /\ r.kind = kind
        /\ SymbolIn(path, ResolveQualified(project, f, r.namespace, name, kind)))

UnqualifiedRefs(project, f, path, name, kind) ==
    LET named == Defined(project[f].references, name, kind)
    IN  IF named # <<>> /\ SymbolIn(path, ResolveUnqualified(project, f, name, kind))
          THEN named ELSE <<>>

\* Of several definitions of the name, the first.
DeclarationIn(project, f, path, name, kind) ==
    LET defined == Defined(project[f].definitions, name, kind)
    IN  IF f = path /\ defined # <<>> THEN <<defined[1]>> ELSE <<>>

InFile(f, ranges) == [k \in DOMAIN ranges |-> [file |-> f, range |-> ranges[k]]]
Selections(symbols) == [k \in DOMAIN symbols |-> symbols[k].selection]
Ranges(refs) == [k \in DOMAIN refs |-> refs[k].range]

\* A call `ns.f()` is both: the call in it is one without namespace.
ReferencesIn(project, f, path, name, kind, withDeclaration) ==
    InFile(f, Selections(IF withDeclaration THEN DeclarationIn(project, f, path, name, kind)
                           ELSE <<>>)
                  \o Selections(UnqualifiedRefs(project, f, path, name, kind))
                  \o Ranges(QualifiedRefs(project, f, path, name, kind)))

\* find_all_references, of the files in any order
FindAllReferences(project, path, name, kind, withDeclaration) ==
    FoldSet(LAMBDA f, found :
               found \o ReferencesIn(project, f, path, name, kind, withDeclaration),
            <<>>, DOMAIN project)

\* check_name_conflict looks at the file of the definition only.
NameConflict(project, path, name, kind) ==
    path \in DOMAIN project /\ Defined(project[path].definitions, name, kind) # <<>>

-----------------------------------------------------------------------------
(* The names in `show` and `hide` clauses.                                  *)

\* forward_reaches_inner: what is reached through forwards, in as many steps
\* as there are files.
ForwardReaches(project, from, path) ==
    LET step(reached) == reached \cup
            {e.target : e \in {e \in UNION {Range(project[f].edges) :
                                   f \in reached \cap DOMAIN project} :
                                 e.kind = "forward"}}
    IN  path \in FoldLeft(LAMBDA reached, f : step(reached), {from},
                          SetToSeq(DOMAIN project))

\* find_name_in_forward_clauses, of one rule.
InClauses(doc, tokens, name, kind) ==
    LET opens == {k \in DOMAIN tokens : IsWord(doc, tokens[k], {"show", "hide"})}
        ends(k) == doc.text[tokens[k]].kind = ";" \/ IsWord(doc, tokens[k], {"as", "with"})
        inside(k) == \E i \in opens : i < k /\ \A j \in Min(opens) + 1 .. k : ~ends(j)
        dollar(k) == doc.text[tokens[k - 1]].kind = "$"
        found == SelectSeq([k \in DOMAIN tokens |-> k], LAMBDA k :
                    /\ k \notin opens /\ IsWord(doc, tokens[k], {name})
                    /\ inside(k)
                    /\ kind = "variable" => dollar(k))
    IN  [n \in DOMAIN found |-> <<tokens[found[n]], tokens[found[n]] + 1>>]

\* All such places in a file.
InForwardClauses(doc, name, kind) ==
    LET rules == NodesOf(doc, {"FORWARD_RULE"})
    IN  FlattenSeq([k \in DOMAIN rules |-> InClauses(doc, Tokens(doc, rules[k]), name, kind)])

\* The edges of a file that reach a symbol and name it.
ListingEdges(project, f, path, name) ==
    SelectSeq(project[f].edges, LAMBDA e :
        /\ e.kind = "forward" /\ ForwardReaches(project, e.target, path)
        /\ \E list \in Range(e.visibility.show \o e.visibility.hide) : name \in list)

\* The whole file is walked for each of its edges that names the symbol.
ShowHideIn(project, f, path, name, kind) ==
    FlattenSeq([k \in DOMAIN ListingEdges(project, f, path, name) |->
        InFile(f, InForwardClauses(project[f].doc, name, kind))])

\* find_forward_show_hide_references, of the files in any order
ShowHideReferences(project, path, name, kind) ==
    FoldSet(LAMBDA f, found : found \o ShowHideIn(project, f, path, name, kind),
            <<>>, DOMAIN project)
=============================================================================
