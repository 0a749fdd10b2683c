------------------------- MODULE RefactorProperties -------------------------
(***************************************************************************)
(* What is expected of the answers of Features and of the edits of         *)
(* Refactor.  Each condition names something the code gets wrong; README   *)
(* section 5 lists them with their lines.                                  *)
(***************************************************************************)
EXTENDS Refactor, Positions

-----------------------------------------------------------------------------
(* Meanings.                                                                *)

\* The references of a file, as the cursor finds them, in their order.
Uses(doc) ==
    FoldLeft(LAMBDA s, n : s \o (IF IsMember(doc, n) THEN <<>> ELSE ReferenceIn(doc, n)),
             <<>>, NodesOf(doc, ReferenceKinds \cup {"NAMESPACE_REF"}))

MeaningOf(graph, f, r) ==
    LET found == ResolveReference(graph, f, r.namespace, r.name, r.kind)
    IN  IF found = <<>> THEN <<>> ELSE <<found[1].file, found[1].symbol.selection>>

\* Where each reference of a project is, and what it means.
Meanings(graph) ==
    UNION {{<<f, u.range, MeaningOf(graph, f, u)>> : u \in Range(Uses(graph[f].doc))} :
              f \in DOMAIN graph}

\* What the references of one file mean, when they may have moved.
SenseOf(graph, f, r) ==
    LET found == ResolveReference(graph, f, r.namespace, r.name, r.kind)
    IN  IF found = <<>> THEN <<r.kind, r.name>>
        ELSE <<r.kind, r.name, found[1].file, found[1].symbol.name>>

SensesIn(graph, f, uses) == [k \in DOMAIN uses |-> SenseOf(graph, f, uses[k])]
Senses(graph, f) == SensesIn(graph, f, Uses(graph[f].doc))

ForwardEdges(graph) ==
    UNION {{e \in Range(graph[f].edges) : e.kind = "forward"} : f \in DOMAIN graph}

\* No @forward gives what it forwards a prefix.
Unprefixed(graph) == \A e \in ForwardEdges(graph) : e.visibility.prefix = ""

\* The call of a member is collected once more as a call without namespace:
\* what that one means.
MemberCalls(graph, f, name) ==
    {u \in Range(Uses(graph[f].doc)) :
        u.name = name /\ u.kind = "function" /\ u.namespace # ""}
PlainMeaning(graph, f, u) == MeaningOf(graph, f, [u EXCEPT !.namespace = ""])

\* Without its namespace no call of a member means something else.
NoHomonyms(graph, name) ==
    \A f \in DOMAIN graph : \A u \in MemberCalls(graph, f, name) :
        PlainMeaning(graph, f, u) \in {<<>>, MeaningOf(graph, f, u)}

DefinedOnce(graph, f, symbol) ==
    Len(Defined(graph[f].definitions, symbol.name, symbol.kind)) = 1

-----------------------------------------------------------------------------
(* Answers.                                                                 *)

\* Find references and go to definition are each other's inverse: what is
\* found for a definition is what resolves to it.  The first asks the symbols
\* collected when the file was indexed, the second the tree under the cursor.
ReferencesAreUses ==
    changed = {} /\ Unprefixed(project) =>
        \A g \in DOMAIN project : \A k \in DOMAIN project[g].definitions :
            LET d == project[g].definitions[k]
                refs == FindAllReferences(project, g, d.name, d.kind, FALSE)
            IN  DefinedOnce(project, g, d) /\ NoHomonyms(project, d.name) =>
                    Range(refs) = UNION {{[file |-> f, range |-> u.range] :
                                u \in {u \in Range(Uses(project[f].doc)) :
                                    /\ u.name = d.name
                                    /\ u.kind = d.kind
                                    /\ MeaningOf(project, f, u) = <<g, d.selection>>}} :
                              f \in DOMAIN project}

\* The ranges of a symbol's references in a file, those without a namespace
\* only or all of them.
PlainIn(refs, f) ==
    {r.range : r \in {r \in refs : r.file = f /\ NamespaceOf(project[f].doc, r.range[1]) = ""}}
AllIn(refs, f) == {r.range : r \in {r \in refs : r.file = f}}

CursorAgreesOn(f, i, refs) ==
    LET marked == {h.range : h \in Highlights(project, f, i)}
    IN  /\ \E r \in refs : r.file = f /\ r.range[1] <= i /\ i < r.range[2]
        /\ \A p \in Range(PrepareRename(project, f, i)) :
              \E r \in refs : r.file = f /\ NameOnly(TargetAt(project, f, i)[1].symbol.kind, r.range) = p.range
        /\ marked # {} => PlainIn(refs, f) \subseteq marked /\ marked \subseteq AllIn(refs, f)

\* With the cursor on a name, what is highlighted and what rename starts from
\* are among the references of the symbol under the cursor, and the references
\* in the file without a namespace are all highlighted.
CursorAgrees ==
    changed = {} /\ Unprefixed(project) =>
        \A f \in DOMAIN project : \A i \in DOMAIN project[f].doc.text :
            \A t \in Range(TargetAt(project, f, i)) :
                /\ project[f].doc.text[i].kind = "ident"
                /\ t.file \in DOMAIN project
                /\ DefinedOnce(project, t.file, t.symbol)
                /\ NoHomonyms(project, t.symbol.name)
                /\ project[f].doc.text[i].text = t.symbol.name
                => CursorAgreesOn(f, i, Range(ReferencesTo(project, <<t>>, TRUE)))

\* The links of a file and the jumps from its specifiers go where the edges of
\* the module graph go.
LinksAreEdges ==
    changed = {} =>
        \A f \in DOMAIN project :
            LET edges == {e \in Range(project[f].edges) : e.target \in DOMAIN project}
                links == {l.target : l \in DocumentLinks(project, f)}
            IN  /\ links \subseteq {<<e.target>> : e \in edges}
                /\ \A e \in edges :
                      /\ e.kind # "import" => <<e.target>> \in links
                      /\ \E i \in DOMAIN project[f].doc.text :
                            GotoDefinition(project, f, i)
                                = <<[file |-> e.target, range |-> <<1, 1>>]>>

Callables(f) == {d \in Range(project[f].definitions) : IsCallable(d.kind)}

CallsFrom(incoming, f, d) ==
    {c.range : c \in {c \in incoming : c.file = f /\ c.name = d.name /\ c.kind = d.kind}}

CallsTo(outgoing, g, d) ==
    {c.range : c \in {c \in outgoing : c.file = g /\ c.name = d.name /\ c.kind = d.kind}}

CallsAgreeOn(f, caller, outgoing, g, callee) ==
    DefinedOnce(project, f, caller) /\ DefinedOnce(project, g, callee)
        /\ NoHomonyms(project, callee.name) =>
            CallsTo(outgoing, g, callee) =
                CallsFrom(IncomingCalls(project, g, callee.name, callee.kind), f, caller)

\* The call hierarchy has the same calls from both ends: a call is among the
\* outgoing calls of its caller just when it is among the incoming ones of the
\* callee, also where a callable is defined inside another.
CallsAgree ==
    changed = {} /\ Unprefixed(project) =>
        \A f, g \in DOMAIN project : \A caller \in Callables(f), callee \in Callables(g) :
            CallsAgreeOn(f, caller, OutgoingCalls(project, f, caller.name, caller.kind),
                         g, callee)

\* No @forward with a prefix or a list forwards a module that forwards.
NoFilteredChains ==
    \A e \in ForwardEdges(project) :
        e.visibility = Everything \/ e.target \notin DOMAIN project
        \/ \A x \in Range(project[e.target].edges) : x.kind # "forward"

\* What completion offers resolves: visible_symbols adds a prefix to the names
\* of a module, find_in_module takes it off.
OfferedResolves ==
    changed = {} /\ NoFilteredChains =>
        \A f \in DOMAIN project : \A s \in VisibleSymbols(project, f) :
            ResolveReference(project, f, s.namespace, s.name, s.kind) # <<>>

\* Inlay hints and signature help name the same parameter for an argument: one
\* takes the arguments off the tree, the other counts commas in the text.
HintsMatchSignature ==
    changed = {} =>
        \A f \in DOMAIN project : \A h \in InlayHints(project, f) :
            LET help == SignatureHelp(project, f, h.at)
            IN  help # <<>> /\ help[1].active = h.param - 1

\* The parameters of a definition, as its tree has them.
ParamsInTree(doc, symbol) ==
    LET rules == SelectSeq(NodesOf(doc, CallableRules),
                           LAMBDA n : Extent(doc, n) = symbol.range)
        lists == ChildrenOf(doc, rules[1], "PARAM_LIST")
    IN  IF rules = <<>> \/ lists = <<>> THEN <<>> ELSE ChildrenOf(doc, lists[1], "PARAM")

Needed(doc, params) ==
    SelectSeq(params, LAMBDA n : TokensOf(doc, n, ":") = <<>> /\ ~IsSplat(doc, n))

FitsTree(doc, params, count) ==
    /\ count >= Len(Needed(doc, params))
    /\ count <= Len(params) \/ \E k \in DOMAIN params : IsSplat(doc, params[k])

\* The arguments of a call are too few or too many for the parameters in the
\* tree of a file; white space before a parameter list and arguments that are spread
\* defeat the count the code makes from the text.
CountedFromTree(f, r) ==
    LET doc == project[f].doc
        lists == ArgListOf(doc, CallAround(doc, r.range[1], r.kind))
        found == Meant(project, f, r)
        symbol == found[1].symbol
    IN  lists # <<>> /\ found # <<>> =>
            \/ found[1].file \notin DOMAIN project
            \/ symbol.params = <<>>
            \/ symbol.params[1].ws
            \/ \E n \in Range(Args(doc, lists[1])) : IsSplat(doc, n)
            \/ FitsTree(project[found[1].file].doc,
                        ParamsInTree(project[found[1].file].doc, symbol),
                        Len(Args(doc, lists[1])))
               = ([code |-> "wrong-arg-count", name |-> r.name, range |-> r.selection]
                    \notin Miscounts(project, f))

\* A call is reported just when its arguments do not fit the parameters of what
\* it refers to.
MiscountsAreReal ==
    changed = {} =>
        \A f \in DOMAIN project : \A k \in DOMAIN project[f].references :
            LET r == project[f].references[k]
            IN  r.kind \in {"function", "mixin"} => CountedFromTree(f, r)

-----------------------------------------------------------------------------
(* Positions.                                                               *)

\* Positions and offsets of every text there is, also those with characters
\* beyond ASCII, are each other's inverses.
PositionsRoundTrip ==
    \A f \in changed :
        LET places == Places(texts[f])
        IN  RoundTrips(PlacesIn(texts[f], places), EndOfText(places))

\* What a client makes of semantic tokens: their positions.
Decoded(data) ==
    FoldLeft(LAMBDA acc, d :
                Append(acc, [line |-> Last(acc).line + d.delta.line,
                             character |-> d.delta.start
                                + IF d.delta.line = 0 THEN Last(acc).character ELSE 0]),
             <<[line |-> 0, character |-> 0]>>, data)

\* The bytes that the client then marks.
MarkedBytes(in, end, lines, data) ==
    LET at == Tail(Decoded(data))
        offset(k, n) == ToOffset(in, end, lines, [at[k] EXCEPT !.character = @ + n])
    IN  FoldLeft(LAMBDA s, k : Append(s, offset(k, 0) \o offset(k, data[k].len)),
                 <<>>, [k \in DOMAIN data |-> k])

BytesOf(text, places, range) ==
    <<StartOf(text, places, range[1]), EndOf(places, range[2] - 1)>>

\* What should be marked: definitions, and references without a namespace.
ShouldBeMarked(doc) ==
    {d.selection : d \in Range(Definitions(doc))}
      \cup {u.range : u \in {u \in Range(Uses(doc)) :
                                u.namespace = "" /\ u.kind # "placeholder"}}

MarksNames(doc, places, in) ==
    LET lines == LineIndex(in)
        data == DeltaEncode(in, EndOfText(places), lines, SemanticTokens(doc, places))
        marked == MarkedBytes(in, EndOfText(places), lines, data)
    IN  /\ \A k \in DOMAIN data : data[k].delta.line >= 0 /\ data[k].delta.start >= 0
        /\ \A k \in DOMAIN data : k > 1 => marked[k - 1][2] <= marked[k][1]
        /\ {BytesOf(doc.text, places, range) : range \in ShouldBeMarked(doc)}
              \subseteq Range(marked)

\* The differences between semantic tokens are never negative, whatever nodes
\* lie within others; and a client that adds them up marks pieces of text that
\* do not overlap, among them each definition and each plain reference that
\* the symbols of the file and the cursor know, whole.
TokensMarkNames ==
    changed = {} =>
        \A f \in DOMAIN project :
            LET doc == project[f].doc
                places == Places(doc.text)
            IN  MarksNames(doc, places, PlacesIn(doc.text, places))

-----------------------------------------------------------------------------
(* Edits: the project before and after the changed files are indexed again. *)

\* What a rename can do: one definition of the name in its file, the new name
\* not taken anywhere, for any kind of symbol, as the lists of @forward do not
\* tell kinds apart, and in the lists that have the name it means the symbol.
Renamable(target) ==
    LET symbol == target.symbol
    IN  /\ target.file \in DOMAIN project
        /\ DefinedOnce(project, target.file, symbol)
        /\ Unprefixed(project) /\ NoHomonyms(project, symbol.name)
        /\ \A f \in DOMAIN project :
              \A d \in Range(project[f].definitions) : d.name # NewName
        /\ \A e \in ForwardEdges(project) :
              \A list \in Range(e.visibility.show \o e.visibility.hide) :
                  symbol.name \in list => ForwardReaches(project, e.target, target.file)

\* No call of a member means the symbol without its namespace too, and no file
\* has two @forward rules that list its name and lead to it.
FoundOnce(target) ==
    \A f \in DOMAIN project :
        /\ \A u \in MemberCalls(project, f, target.symbol.name) :
              PlainMeaning(project, f, u) # <<target.file, target.symbol.selection>>
        /\ Len(ListingEdges(project, f, target.file, target.symbol.name)) <= 1

RenameKept(before, after) == Meanings(after) = Meanings(before)

\* The edits of a rename do not overlap, so that an editor takes them, though
\* references and the lists of @forward rules are searched in three ways; and
\* then every reference of the project means the definition it meant before,
\* under its new name: those of other files through any chain of @use and
\* @forward, and the lists of the @forward rules.
RenameKeepsMeaning ==
    [][/\ edits' # edits /\ request'.kind = "rename" =>
             (Renamable(request'.target) /\ FoundOnce(request'.target)
                => Apart(request'.places))
       /\ changed # {} /\ request.kind = "rename" =>
             (Renamable(request.target) => RenameKept(project, project'))]_vars

Cured(after, r) ==
    /\ \E u \in Range(NamespaceRefs(after[r.file].doc)) :
          /\ u.name = r.name /\ "undefined-" \o u.kind = r.code
          /\ SymbolIn(r.target, ResolveQualified(after, r.file, u.namespace, u.name, u.kind))
    /\ Cardinality(Undefined(after, r.file)) = Cardinality(Undefined(project, r.file)) - 1

\* After an import was added the reference means a symbol of the file that was
\* offered, and one reference less is undefined; one that has a namespace
\* already, of no @use, gets a second.
AutoImportCures ==
    [][changed # {} /\ request.kind = "auto-import" =>
          (NamespaceOf(project[request.file].doc, request.at) = ""
             => Cured(project', request))]_vars

\* The use of a module by `ns.$name` or `@include ns.name` in a file.
TokenUse(doc) ==
    \E k \in DOMAIN NodesOf(doc, {"NAMESPACE_REF"}) :
        ChildrenOf(doc, NodesOf(doc, {"NAMESPACE_REF"})[k], "FUNCTION_CALL") = <<>>

SensesKept(before, after, f) == Senses(after, f) = Senses(before, f)

\* What is left of a file after an unused @use was removed means what it meant,
\* if it is the first thing in the file and no module is used but by calls.
RemovalKeepsMeaning ==
    [][changed # {} /\ request.kind = "remove-use" =>
          (project[request.file].doc.nodes[request.node].from = 1
             /\ ~TokenUse(project[request.file].doc)
             => SensesKept(project, project', request.file))]_vars

\* README.md:23 "remove unused `@use`", and code_actions.rs:413 "A named @use
\* only serves qualified references (ns.$var, ns.func())": what is offered for
\* removal serves no reference.
UnusedServesNothing ==
    changed = {} =>
        \A f \in DOMAIN project : \A n \in UnusedUses(project[f]) :
            \A u \in Range(Uses(project[f].doc)) :
                u.namespace # NamespaceOfUse(project[f].doc, n)

\* No parameter, loop variable or local variable is used in a selection: the
\* extracted text is put outside the rule that declares it.
UsesNothingLocal(doc, range) ==
    \A k \in DOMAIN NodesOf(doc, {"VARIABLE_REF"}) :
        LET n == NodesOf(doc, {"VARIABLE_REF"})[k]
        IN  Overlapped(doc, n, range)
                => ~IsLocallyDefined(doc, doc.nodes[n].from, doc.text[doc.nodes[n].to - 1].text)

\* The call of a member without its namespace is not the selection.
KeepsNamespace(doc, range) ==
    \A k \in DOMAIN NodesOf(doc, {"FUNCTION_CALL"}) :
        LET n == NodesOf(doc, {"FUNCTION_CALL"})[k]
        IN  ~(IsMember(doc, n) /\ Extent(doc, n) = range)

Whole(before, after, f) ==
    /\ before[f].doc.errors = <<>> => after[f].doc.errors = <<>>
    /\ Cardinality(Diagnostics(after, f)) <= Cardinality(Diagnostics(before, f))

\* Extraction leaves a file that parses, where no more is undefined or called
\* with wrong arguments than before, if the selection uses nothing local and
\* does not split a name from its namespace.
ExtractionKeepsSense ==
    [][changed # {} /\ request.kind \in {"extract-variable", "extract-mixin"} =>
          (UsesNothingLocal(project[request.file].doc, request.range)
             /\ KeepsNamespace(project[request.file].doc, request.range)
             => Whole(project, project', request.file))]_vars

Unforwarded(graph, g) == \A e \in ForwardEdges(graph) : e.target # g

\* What a change of some files does to the diagnostics of the others is seen by
\* those that refresh_dependents looks at, the direct importers, unless a
\* changed file is forwarded.
RefreshSuffices ==
    [][changed # {} /\ edits > 0 /\ (\A g \in changed : Unforwarded(project', g)) =>
          \A f \in DOMAIN project \ changed :
              Diagnostics(project', f) # Diagnostics(project, f)
                => \E g \in changed : f \in Dependents(project', g)]_vars
=============================================================================
