------------------------------ MODULE Refactor ------------------------------
(***************************************************************************)
(* The edits the server offers - rename (navigation.rs) and the code       *)
(* actions (code_actions.rs) - applied by an editor that has the whole     *)
(* project open, and the changed files then parsed and indexed again.      *)
(***************************************************************************)
EXTENDS Features

CONSTANTS Projects,    \* sets of files with their texts, to begin with
          NewName,     \* what the user renames things to
          MaxEdits     \* bound: edits applied to a project

VARIABLES texts,       \* the text of each file, in the editor
          changed,     \* the files whose text is not yet indexed
          project,     \* the files as ModuleGraph holds them
          request,     \* the edit applied last
          edits        \* how many were applied

vars == <<texts, changed, project, request, edits>>

-----------------------------------------------------------------------------
(* Edits of a text.                                                         *)

\* Some tokens in the place of those from one position up to another; they
\* begin where the first of these did.
Placed(token, new) ==
    IF new = <<>> THEN <<>>
    ELSE <<[new[1] EXCEPT !.ws = token.ws, !.nl = token.nl]>> \o Tail(new)
Replaced(text, range, new) ==
    SubSeq(text, 1, range[1] - 1) \o Placed(text[range[1]], new)
      \o SubSeq(text, range[2], Len(text))

Word(w) == [kind |-> "ident", text |-> w, ws |-> FALSE, nl |-> FALSE]
SpacedWord(w) == [Word(w) EXCEPT !.ws = TRUE]
Sign(s) == [kind |-> s, text |-> s, ws |-> FALSE, nl |-> FALSE]
Quoted(s) == [kind |-> "string", text |-> s, ws |-> TRUE, nl |-> FALSE]

OnNewLine(tokens) ==
    IF tokens = <<>> THEN <<>>
    ELSE <<[tokens[1] EXCEPT !.ws = TRUE, !.nl = TRUE]>> \o Tail(tokens)

\* Whole lines before a token that begins a line, or at the end.
LinesBefore(text, i, lines) ==
    SubSeq(text, 1, i - 1)
      \o (IF i = 1 THEN lines ELSE OnNewLine(lines))
      \o OnNewLine(SubSeq(text, i, Len(text)))

\* The number of the line a token is on.
Line(text, i) == Cardinality({j \in 2 .. i : text[j].nl})

\* The first token of that line.
LineStart(text, i) == Max({1} \cup {j \in 2 .. i : text[j].nl})

\* The first line's first token after a position, or the end.
NextLine(text, i) == Min({Len(text) + 1} \cup {j \in i .. Len(text) : text[j].nl /\ j > 1})

-----------------------------------------------------------------------------
(* handle_rename                                                            *)

\* Mutant: show and hide lists keep the old name.
NoShowHide(graph, path, name, kind) == <<>>

ShownNames(graph, path, name, kind) == ShowHideReferences(graph, path, name, kind)

\* One edit each, of one token, for whatever was found as often as it was.
RenamePlaces(graph, target, refs) ==
    LET shown == ShownNames(graph, target.file, target.symbol.name, target.symbol.kind)
    IN  [k \in DOMAIN refs |->
            [file |-> refs[k].file, at |-> NameOnly(target.symbol.kind, refs[k].range)[1]]]
          \o [k \in DOMAIN shown |-> [file |-> shown[k].file, at |-> shown[k].range[1]]]

\* No two edits are of one place, as the protocol demands of a TextEdit[].
Apart(places) == IsInjective(places)

\* An editor refuses a WorkspaceEdit with overlapping edits as a whole.
Accepted(places) == IF Apart(places) THEN Range(places) ELSE {}

RenamedAt(text, places, new) ==
    [i \in DOMAIN text |-> IF i \in places THEN [text[i] EXCEPT !.text = new] ELSE text[i]]

RenamedFiles(graph, places, new) ==
    [f \in {p.file : p \in places} |->
        RenamedAt(graph[f].doc.text, {p.at : p \in {p \in places : p.file = f}}, new)]

-----------------------------------------------------------------------------
(* Auto-import.                                                             *)

\* find_use_insertion_point: the line after the last import rule of the file,
\* or the first line.
InsertionPoint(doc) ==
    LET imports == SelectSeq(NodesOf(doc, ImportKinds), LAMBDA n : Parent(doc, n) = 1)
    IN  IF imports = <<>> THEN 1 ELSE NextLine(doc.text, doc.nodes[Last(imports)].to)

UsedFiles(graph, f) ==
    UNION {Range(ImportedFile(DOMAIN graph, f, u.path)) :
              u \in {u \in Range(Imports(graph[f].doc)) : u.kind = "use"}}

UseStatement(spec) == <<Sign("@"), Word("use"), Quoted(Joined(spec)), Sign(";")>>

\* `$name` as ns.$name, `name` as ns.name
QualifiedName(namespace, kind, name) ==
    <<Word(namespace), Sign(".")>>
      \o (IF kind = "undefined-variable" THEN <<Sign("$")>> ELSE <<>>) \o <<Word(name)>>

\* Both edits are to the text as it was.
WithImport(text, i, spec, range, qualified) ==
    IF i <= range[1]
      THEN LinesBefore(Replaced(text, range, qualified), i, UseStatement(spec))
      ELSE Replaced(LinesBefore(text, i, UseStatement(spec)), range, qualified)

\* Mutant: any symbol of the name will do.
OfAnyKind(graph, f, diagnostic) ==
    {g \in DOMAIN graph \ {f} :
        /\ \E s \in Range(graph[g].definitions) : s.name = diagnostic.name
        /\ UsePath(DOMAIN graph, f, g) # <<>>
        /\ g \notin UsedFiles(graph, f)}

\* The files of which auto-import offers a symbol.
Candidates(graph, f, diagnostic) ==
    {g \in DOMAIN graph \ {f} :
        /\ \E s \in Range(graph[g].definitions) :
              s.name = diagnostic.name /\ "undefined-" \o s.kind = diagnostic.code
        /\ UsePath(DOMAIN graph, f, g) # <<>>
        /\ g \notin UsedFiles(graph, f)}

-----------------------------------------------------------------------------
(* Removal of an unused @use.                                               *)

\* unused_use_actions looks at the collected references only.
IsUsed(file, namespace) ==
    \E r \in Range(file.references) : NamespaceOf(file.doc, r.range[1]) = namespace

\* Mutant: the namespace is made of the specifier, whatever `as` says.
MadeOfSpecifier(doc, n) ==
    DefaultNamespace(Segments(doc.text[TokensOf(doc, n, "string")[1]].text))

NamespaceOfUse(doc, n) ==
    UseNamespace(doc, Tokens(doc, n),
                 Segments(doc.text[TokensOf(doc, n, "string")[1]].text))

UnusedUses(file) ==
    {n \in {u.node : u \in {u \in Range(Imports(file.doc)) : u.kind = "use"}} :
        /\ NamespaceOfUse(file.doc, n) # "*"
        /\ ~IsUsed(file, NamespaceOfUse(file.doc, n))}

\* All lines from the one the node starts on, which is the line before if a
\* line break comes first.
WithoutLines(text, first, last) ==
    LET kept == {i \in DOMAIN text : Line(text, i) \notin first .. last}
        left == SelectSeq([i \in DOMAIN text |-> i], LAMBDA i : i \in kept)
    IN  [k \in DOMAIN left |->
            IF k = 1 THEN [text[left[1]] EXCEPT !.ws = FALSE, !.nl = FALSE]
            ELSE text[left[k]]]

WithoutUse(doc, n) ==
    WithoutLines(doc.text, Line(doc.text, Max({1, doc.nodes[n].from - 1})),
                 Line(doc.text, doc.nodes[n].to - 1))

-----------------------------------------------------------------------------
(* Extraction.                                                              *)

ExpressionKinds ==
    {"NUMBER_LITERAL", "DIMENSION", "STRING_LITERAL", "INTERPOLATED_STRING",
     "COLOR_LITERAL", "LITERAL", "VARIABLE_REF", "BINARY_EXPR", "UNARY_EXPR",
     "PAREN_EXPR", "FUNCTION_CALL", "SPECIAL_FUNCTION_CALL", "CALCULATION", "LIST_EXPR",
     "BRACKETED_LIST", "MAP_EXPR", "NAMESPACE_REF"}

EnclosingRules ==
    {"RULE_SET", "MIXIN_RULE", "FUNCTION_RULE", "EACH_RULE", "FOR_RULE", "WHILE_RULE",
     "IF_RULE"}

\* find_expression_at_range
ExpressionAt(doc, range) ==
    LET exact == SelectSeq(Around(doc, range[1]), LAMBDA n :
                    Kind(doc, n) \in ExpressionKinds /\ Extent(doc, n) = range)
        inValue(n) == \E m \in Range(Up(doc, n)) :
                         Kind(doc, m) \in {"VALUE", "VARIABLE_DECL"}
    IN  IF exact = <<>> THEN <<>> ELSE IF inValue(exact[1]) THEN <<exact[1]>> ELSE <<>>

\* Mutant: the variable is declared in the nearest statement's place.
NearestStatement(doc, n) ==
    SelectSeq(Up(doc, n), LAMBDA m : Kind(doc, m) \in {"VALUE", "ARG"})

\* find_insertion_ancestor
InsertionAncestor(doc, n) ==
    SelectSeq(Up(doc, n), LAMBDA m :
        \/ Kind(doc, m) \in EnclosingRules
        \/ Kind(doc, m) \in {"DECLARATION", "VARIABLE_DECL"} /\ Parent(doc, m) = 1)

NewVariable == <<Sign("$"), Word("new-variable")>>

Unspaced(tokens) == <<[tokens[1] EXCEPT !.ws = TRUE, !.nl = FALSE]>> \o Tail(tokens)

WithVariable(text, i, range) ==
    LinesBefore(Replaced(text, range, NewVariable), i,
                NewVariable \o <<Sign(":")>>
                  \o Unspaced(SubSeq(text, range[1], range[2] - 1)) \o <<Sign(";")>>)

DeclarationKinds == {"DECLARATION", "VARIABLE_DECL", "CUSTOM_PROPERTY_DECL"}

\* find_declarations_at_range: the block, and the declarations in the range
\* unless it cuts one.
BlockAt(doc, range) ==
    SelectSeq(Around(doc, range[1]), LAMBDA n :
        Kind(doc, n) = "BLOCK" /\ doc.nodes[n].to >= range[2])

DeclarationsIn(doc, n) ==
    SelectSeq(Children(doc, n), LAMBDA c : Kind(doc, c) \in DeclarationKinds)

Contained(doc, n, range) == range[1] <= doc.nodes[n].from /\ doc.nodes[n].to <= range[2]
Overlapped(doc, n, range) == doc.nodes[n].from < range[2] /\ range[1] < doc.nodes[n].to

DeclarationsAt(doc, range) ==
    LET all == DeclarationsIn(doc, BlockAt(doc, range)[1])
    IN  IF BlockAt(doc, range) = <<>> THEN <<>>
        ELSE IF \E k \in DOMAIN all : /\ Overlapped(doc, all[k], range)
                                      /\ ~Contained(doc, all[k], range) THEN <<>>
        ELSE SelectSeq(all, LAMBDA c : Contained(doc, c, range))

RuleAround(doc, n) == SelectSeq(Up(doc, n), LAMBDA m : Kind(doc, m) \in EnclosingRules)

NewMixin(body) ==
    <<Sign("@"), Word("mixin"), SpacedWord("new-mixin"), [Sign("{") EXCEPT !.ws = TRUE]>>
      \o body \o OnNewLine(<<Sign("}")>>)
IncludeNew == <<Sign("@"), Word("include"), SpacedWord("new-mixin"), Sign(";")>>

\* All from the first declaration to the last makes way for the @include.
WithMixin(doc, decls, i) ==
    LinesBefore(Replaced(doc.text,
                         <<doc.nodes[decls[1]].from, doc.nodes[Last(decls)].to>>,
                         IncludeNew),
                i,
                NewMixin(FlattenSeq([k \in DOMAIN decls |->
                    OnNewLine(SubSeq(doc.text, doc.nodes[decls[k]].from,
                                     doc.nodes[decls[k]].to - 1))])))

-----------------------------------------------------------------------------
(* Actions.                                                                 *)

\* The editor asks only of an index that is current, and applies what it gets.
MayEdit == changed = {} /\ edits < MaxEdits

Apply(change, files) ==
    /\ request' = change
    /\ texts' = [f \in DOMAIN texts |-> IF f \in DOMAIN files THEN files[f] ELSE texts[f]]
    /\ changed' = DOMAIN files
    /\ edits' = edits + 1
    /\ UNCHANGED project

\* handle_parse and index_file, of every changed file
Index ==
    /\ changed # {}
    /\ project' = Indexed(project, texts, changed)
    /\ changed' = {}
    /\ UNCHANGED <<texts, request, edits>>

OneFile(f, text) == [g \in {f} |-> text]

RenameTo(target, places) ==
    Apply([kind |-> "rename", target |-> target, places |-> places],
          RenamedFiles(project, Accepted(places), NewName))

RenameFound(found) ==
    LET refs == ReferencesTo(project, found, TRUE)
    IN  /\ found # <<>>
        /\ ~NameConflict(project, found[1].file, NewName, found[1].symbol.kind)
        /\ refs # <<>>
        /\ RenameTo(found[1], RenamePlaces(project, found[1], refs))

\* handle_rename, with the cursor on a token
Rename(f, i) ==
    /\ project[f].doc.text[i].kind = "ident"
    /\ RenameFound(TargetAt(project, f, i))

ImportFor(f, g, diagnostic, spec) ==
    Apply([kind |-> "auto-import", file |-> f, target |-> g, code |-> diagnostic.code,
           name |-> diagnostic.name, at |-> diagnostic.range[1]],
          OneFile(f, WithImport(project[f].doc.text, InsertionPoint(project[f].doc), spec,
                                diagnostic.range,
                                QualifiedName(DefaultNamespace(spec), diagnostic.code,
                                              diagnostic.name))))

\* auto_import_actions, for one diagnostic and one candidate
AutoImport(f, g, diagnostic) ==
    /\ g \in Candidates(project, f, diagnostic)
    /\ ImportFor(f, g, diagnostic, UsePath(DOMAIN project, f, g)[1])

\* unused_use_actions, for one rule
RemoveUse(f, n) ==
    Apply([kind |-> "remove-use", file |-> f, node |-> n],
          OneFile(f, WithoutUse(project[f].doc, n)))

VariableFrom(f, range, n) ==
    Apply([kind |-> "extract-variable", file |-> f, range |-> range],
          OneFile(f, WithVariable(project[f].doc.text,
                                  LineStart(project[f].doc.text, project[f].doc.nodes[n].from),
                                  range)))

\* extract_variable_action, for a selection
ExtractVariable(f, range) ==
    LET doc == project[f].doc
        found == ExpressionAt(doc, range)
        before == IF found = <<>> THEN <<>> ELSE InsertionAncestor(doc, found[1])
    IN  before # <<>> /\ VariableFrom(f, range, before[1])

MixinFrom(f, range, decls, rule) ==
    Apply([kind |-> "extract-mixin", file |-> f, range |-> range],
          OneFile(f, WithMixin(project[f].doc, decls,
                               LineStart(project[f].doc.text,
                                         project[f].doc.nodes[rule].from))))

\* extract_mixin_action, for a selection
ExtractMixin(f, range) ==
    LET doc == project[f].doc
        decls == DeclarationsAt(doc, range)
        rules == IF decls = <<>> THEN <<>> ELSE RuleAround(doc, Parent(doc, decls[1]))
    IN  rules # <<>> /\ MixinFrom(f, range, decls, rules[1])

\* did_change: the user takes a line away.
DeleteLine(f, line) ==
    Apply([kind |-> "typed", file |-> f],
          OneFile(f, WithoutLines(texts[f], line, line)))

-----------------------------------------------------------------------------
Init ==
    /\ texts \in Projects
    /\ changed = DOMAIN texts
    /\ project = [f \in {} |-> <<>>]
    /\ request = [kind |-> "none"]
    /\ edits = 0

RenameSomething ==
    MayEdit /\ \E f \in DOMAIN project : \E i \in DOMAIN texts[f] : Rename(f, i)

ImportSomething ==
    MayEdit /\ \E f \in DOMAIN project : \E d \in Undefined(project, f) :
        \E g \in DOMAIN project : AutoImport(f, g, d)

RemoveSomething ==
    MayEdit /\ \E f \in DOMAIN project : \E n \in UnusedUses(project[f]) : RemoveUse(f, n)

ExtractSomething ==
    MayEdit /\ \E f \in DOMAIN project :
        \E i \in DOMAIN texts[f] : \E j \in i + 1 .. Len(texts[f]) + 1 :
            ExtractVariable(f, <<i, j>>) \/ ExtractMixin(f, <<i, j>>)

DeleteSomething ==
    MayEdit /\ \E f \in DOMAIN project :
        \E line \in {Line(texts[f], i) : i \in DOMAIN texts[f]} : DeleteLine(f, line)

Next ==
    \/ RenameSomething
    \/ ImportSomething
    \/ RemoveSomething
    \/ ExtractSomething
    \/ DeleteSomething
    \/ Index

Spec == Init /\ [][Next]_vars
=============================================================================
