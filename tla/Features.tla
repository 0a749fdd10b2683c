------------------------------ MODULE Features ------------------------------
(***************************************************************************)
(* What the server answers about a symbol: where it is defined and used    *)
(* (navigation.rs), its occurrences in a file (highlights.rs), who calls   *)
(* whom (call_hierarchy.rs), and the parameters of a call                  *)
(* (signature_help.rs, inlay_hints.rs).                                    *)
(***************************************************************************)
EXTENDS Semantics

-----------------------------------------------------------------------------
(* navigation.rs                                                            *)

\* The symbol under the cursor: what a reference resolves to, or else the
\* definition the cursor is on.
TargetAt(project, f, i) ==
    LET reference == ReferenceAtCursor(project[f].doc, i)
        r == reference[1]
    IN  IF reference # <<>>
          THEN ResolveReference(project, f, r.namespace, r.name, r.kind)
          ELSE FoundAt(f, DefinitionAtCursor(project[f].definitions, i))

\* resolve_import
ImportedFile(disk, f, spec) ==
    LET resolved == Resolve(disk, Segments(spec), f)
    IN  IF resolved.kind = "file" THEN <<resolved.path>> ELSE <<>>

\* Mutant: @import is not an import.
UseAndForward == {"USE_RULE", "FORWARD_RULE"}

ImportKinds == {"USE_RULE", "FORWARD_RULE", "IMPORT_RULE"}

\* try_goto_import
GotoImport(project, f, i) ==
    LET doc == project[f].doc
    IN  IF doc.text[i].kind = "string" /\ Kind(doc, doc.at[i]) \in ImportKinds
          THEN ImportedFile(DOMAIN project, f, doc.text[i].text) ELSE <<>>

\* handle_goto_definition: a file, and a range of it; <<1, 1>> is its start.
GotoDefinition(project, f, i) ==
    LET import == GotoImport(project, f, i)
        r == ReferenceAtCursor(project[f].doc, i)
        found == IF r = <<>> THEN <<>> ELSE TargetAt(project, f, i)
    IN  IF import # <<>> THEN <<[file |-> import[1], range |-> <<1, 1>>]>>
        ELSE IF found = <<>> \/ found[1].file \notin DOMAIN project THEN <<>>
        ELSE <<[file |-> found[1].file, range |-> found[1].symbol.selection]>>

\* handle_document_link: the first string of each import rule.
DocumentLinks(project, f) ==
    LET doc == project[f].doc
        rules == NodesOf(doc, ImportKinds)
        strings(n) == TokensOf(doc, n, "string")
        linked == SelectSeq(rules, LAMBDA n : strings(n) # <<>>)
    IN  {link \in {[at |-> strings(linked[k])[1],
                    target |-> ImportedFile(DOMAIN project, f,
                                            doc.text[strings(linked[k])[1]].text)] :
                      k \in DOMAIN linked} : link.target # <<>>}

\* handle_references
ReferencesTo(project, found, withDeclaration) ==
    IF found = <<>> THEN <<>>
    ELSE FindAllReferences(project, found[1].file, found[1].symbol.name,
                           found[1].symbol.kind, withDeclaration)

\* handle_prepare_rename: the range to edit, and the name to start from.
PrepareRename(project, f, i) ==
    LET found == TargetAt(project, f, i)
        reference == ReferenceAtCursor(project[f].doc, i)
        range == IF reference # <<>> THEN reference[1].range ELSE found[1].symbol.selection
    IN  IF found = <<>> THEN <<>>
        ELSE <<[range |-> NameOnly(found[1].symbol.kind, range),
                name |-> found[1].symbol.name]>>

-----------------------------------------------------------------------------
(* highlights.rs                                                            *)

Occurrences(symbols, name, kind, access) ==
    {[range |-> symbols[k].selection, access |-> access] :
        k \in {k \in DOMAIN symbols : symbols[k].name = name /\ symbols[k].kind = kind}}

\* Mutant: occurrences of a name, whatever kind it has there.
OfAnyKindHighlighted(file, name, kind) ==
    UNION {Occurrences(file.definitions, name, k, "write")
             \cup Occurrences(file.references, name, k, "read") :
              k \in {"variable", "function", "mixin", "placeholder"}}

\* collect_highlights
Highlighted(file, name, kind) ==
    Occurrences(file.definitions, name, kind, "write")
      \cup Occurrences(file.references, name, kind, "read")

\* handle_document_highlight: nothing for a reference with a namespace.
Highlights(project, f, i) ==
    LET reference == ReferenceAtCursor(project[f].doc, i)
        defined == DefinitionAtCursor(project[f].definitions, i)
        symbol == IF reference # <<>> THEN reference ELSE defined
    IN  IF symbol = <<>> \/ (reference # <<>> /\ reference[1].namespace # "") THEN {}
        ELSE Highlighted(project[f], symbol[1].name, symbol[1].kind)

-----------------------------------------------------------------------------
(* call_hierarchy.rs                                                        *)

IsCallable(kind) == kind \in {"function", "mixin"}

CallableRules == {"FUNCTION_RULE", "MIXIN_RULE"}

\* find_enclosing_callable_in: of the innermost rule around a token.
EnclosingCallable(file, i) ==
    LET rules == SelectSeq(Around(file.doc, i),
                           LAMBDA n : Kind(file.doc, n) \in CallableRules)
    IN  IF rules = <<>> THEN <<>>
        ELSE SelectSeq(file.definitions,
                       LAMBDA s : IsCallable(s.kind) /\ s.range = Extent(file.doc, rules[1]))

\* The caller of an incoming call; its name is "" for a call of the file.
Caller(f, callables, range) ==
    IF callables = <<>> THEN [file |-> f, name |-> "", kind |-> "file", range |-> range]
    ELSE [file |-> f, name |-> callables[1].name, kind |-> callables[1].kind,
          range |-> range]

\* handle_incoming
IncomingCalls(project, path, name, kind) ==
    {Caller(r.file, EnclosingCallable(project[r.file], r.range[1]), r.range) :
        r \in Range(FindAllReferences(project, path, name, kind, FALSE))}

\* Mutant: the calls of a callable defined in another are its own too.
AnyCall(doc, n, rule) == TRUE

\* is_inside_nested_callable, negated
IsOwnCall(doc, n, rule) ==
    ~\E k \in DOMAIN Up(doc, n) :
        /\ Kind(doc, Up(doc, n)[k]) \in CallableRules
        /\ Up(doc, n)[k] > rule

\* What a node of a callable calls, if it is a call at all.
CallIn(doc, n) ==
    LET k == Kind(doc, n)
        called == IF k \in {"NAMESPACE_REF", "FUNCTION_CALL", "INCLUDE_RULE"}
                       /\ ~IsMember(doc, n)
                    THEN ReferenceIn(doc, n) ELSE <<>>
    IN  IF called # <<>> /\ IsCallable(called[1].kind) THEN called ELSE <<>>

\* A built-in module has no line index, and what is called in one is dropped.
Callee(project, found, range) ==
    IF found = <<>> THEN {}
    ELSE IF found[1].file \notin DOMAIN project THEN {}
    ELSE {[file |-> found[1].file, name |-> found[1].symbol.name,
           kind |-> found[1].symbol.kind, range |-> range]}

CalleeOf(project, f, called) ==
    IF called = <<>> THEN {}
    ELSE Callee(project, ResolveReference(project, f, called[1].namespace, called[1].name,
                                          called[1].kind), called[1].range)

CallsIn(project, f, rule) ==
    LET nodes == Descendants(project[f].doc, rule)
        own == {k \in DOMAIN nodes : IsOwnCall(project[f].doc, nodes[k], rule)}
    IN  UNION {CalleeOf(project, f, CallIn(project[f].doc, nodes[k])) : k \in own}

\* handle_outgoing; the range is that of the name, not of the whole call.
OutgoingCalls(project, f, name, kind) ==
    LET doc == project[f].doc
        defined == Defined(project[f].definitions, name, kind)
        rules == SelectSeq(NodesOf(doc, CallableRules),
                           LAMBDA n : Extent(doc, n) = defined[1].range)
    IN  IF defined = <<>> \/ rules = <<>> THEN {} ELSE CallsIn(project, f, rules[1])

-----------------------------------------------------------------------------
(* signature_help.rs                                                        *)

\* find_call_at_offset: the innermost call whose argument list the cursor is
\* in, unless a call without arguments is met before.
CallAt(doc, i) ==
    LET calls == SelectSeq(Around(doc, i), LAMBDA n :
                    Kind(doc, n) \in {"FUNCTION_CALL", "INCLUDE_RULE"})
        lists(n) == ChildrenOf(doc, n, "ARG_LIST")
        stops == SelectSeq(calls, LAMBDA n :
                    \/ lists(n) = <<>>
                    \/ doc.nodes[lists(n)[1]].from <= i /\ i < doc.nodes[lists(n)[1]].to)
    IN  IF stops = <<>> THEN <<>>
        ELSE IF lists(stops[1]) = <<>> THEN <<>> ELSE <<stops[1]>>

\* The reference of a call: its own, or that of the namespace around it.
ReferenceOfCall(doc, n) ==
    LET qualified == ChildrenOf(doc, n, "NAMESPACE_REF")
    IN  IF IsMember(doc, n) THEN NamespaceRef(doc, Parent(doc, n))
        ELSE IF Kind(doc, n) = "INCLUDE_RULE" /\ qualified # <<>>
          THEN NamespaceRef(doc, qualified[1])
        ELSE ReferenceIn(doc, n)

\* Mutant: commas in nested parentheses count as well.
AnyComma(depth) == TRUE

AtDepth1(depth) == depth = 1

\* count_active_parameter, with the cursor before a token.
ActiveParameter(doc, start, i) ==
    LET step(acc, t) ==
            [depth |-> Max({0, acc.depth + (IF t.kind \in {"(", "["} THEN 1
                                            ELSE IF t.kind \in {")", "]"} THEN -1
                                            ELSE 0)}),
             commas |-> acc.commas
                          + IF t.kind = "," /\ AtDepth1(acc.depth) THEN 1 ELSE 0]
    IN  FoldLeft(step, [depth |-> 0, commas |-> 0],
                 SubSeq(doc.text, start, i - 1)).commas

ParamsOf(project, f, reference) ==
    LET r == reference[1]
        found == IF reference = <<>> THEN <<>>
                 ELSE ResolveReference(project, f, r.namespace, r.name, r.kind)
    IN  IF found = <<>> THEN <<>> ELSE found[1].symbol.params

\* handle: the parameters, and the number of the active one, from 0.
SignatureHelp(project, f, i) ==
    LET doc == project[f].doc
        call == CallAt(doc, i)
        params == IF call = <<>> THEN <<>>
                  ELSE ParamsOf(project, f, ReferenceOfCall(doc, call[1]))
    IN  IF params = <<>> THEN <<>>
        ELSE <<[params |-> params,
                active |-> ActiveParameter(
                    doc, doc.nodes[ArgListOf(doc, call)[1]].from, i)]>>

-----------------------------------------------------------------------------
(* inlay_hints.rs                                                           *)

\* is_keyword_arg, is_splat_arg
IsKeyword(doc, n) ==
    LET kinds == [k \in DOMAIN Tokens(doc, n) |-> doc.text[Tokens(doc, n)[k]].kind]
    IN  IsPrefix(<<"$", "ident", ":">>, kinds)
IsSplat(doc, n) == TokensOf(doc, n, "...") # <<>>

StopsHints(doc, n) == IsKeyword(doc, n) \/ IsSplat(doc, n)

\* The arguments with a hint: the k-th one is for the k-th parameter.
Hinted(doc, args, params) ==
    {k \in DOMAIN args : k <= Len(params) /\ \A j \in 1 .. k :
        ~StopsHints(doc, args[j]) /\ ~IsRest(params[j])}

HintsOfCall(doc, args, params) ==
    IF Len(params) <= 1 THEN {}
    ELSE {[at |-> doc.nodes[args[k]].from, param |-> k] : k \in Hinted(doc, args, params)}

HintsAt(project, f, n) ==
    LET doc == project[f].doc
        lists == ChildrenOf(doc, n, "ARG_LIST")
        params == IF lists = <<>> THEN <<>>
                  ELSE ParamsOf(project, f, ReferenceOfCall(doc, n))
    IN  IF params = <<>> THEN {}
        ELSE HintsOfCall(doc, Args(doc, lists[1]), Parameters(params))

\* handle, for a whole file
InlayHints(project, f) ==
    UNION {HintsAt(project, f, n) :
              n \in Range(NodesOf(project[f].doc, {"FUNCTION_CALL", "INCLUDE_RULE"}))}
=============================================================================
