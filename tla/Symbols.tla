------------------------------ MODULE Symbols ------------------------------
(***************************************************************************)
(* What the language server reads off a syntax tree: the definitions and   *)
(* references of a file (sass-lsp/src/symbols.rs), its imports             *)
(* (sass-parser/src/imports.rs), and what is under the cursor              *)
(* (navigation.rs).                                                        *)
(*                                                                         *)
(* A document is a token text and the nodes of its tree in preorder.  A    *)
(* range is a pair of token positions, the second exclusive; the white     *)
(* space before a token belongs to it.  A cursor is the token it is on.    *)
(* A token also says whether a line break comes before it (nl).            *)
(***************************************************************************)
EXTENDS Grammar, SequencesExt, FiniteSetsExt

-----------------------------------------------------------------------------
(* Trees.                                                                   *)

\* The nodes of a tree whose first token is at a position, in preorder.
RECURSIVE NodesUnder(_, _, _)
NodesUnder(tree, from, depth) ==
    LET before(k) == SumFunction([j \in 1 .. k - 1 |-> Width(tree.kids[j])])
    IN  IF ~IsTree(tree) THEN <<>>
        ELSE <<[kind |-> tree.kind, from |-> from, to |-> from + tree.width,
                depth |-> depth]>>
               \o FlattenSeq([k \in DOMAIN tree.kids |->
                     NodesUnder(tree.kids[k], from + before(k), depth + 1)])

\* `in` is the node a node is in (0 for the root), `at` the innermost node
\* around a token.
DocumentWith(text, nodes, errors) ==
    [text |-> text, nodes |-> nodes, errors |-> errors,
     in |-> [n \in DOMAIN nodes |->
               Max({0} \cup {m \in 1 .. n - 1 : nodes[m].depth = nodes[n].depth - 1})],
     at |-> [i \in DOMAIN text |->
               Max({n \in DOMAIN nodes : nodes[n].from <= i /\ i < nodes[n].to})]]

DocumentOf(text, parsed) ==
    DocumentWith(text, NodesUnder(parsed.tree, 1, 0), parsed.errors)

Document(text) == DocumentOf(text, Parse(text))

Extent(doc, n) == <<doc.nodes[n].from, doc.nodes[n].to>>
Kind(doc, n) == doc.nodes[n].kind
Parent(doc, n) == doc.in[n]
ParentKind(doc, n) == IF Parent(doc, n) = 0 THEN "" ELSE Kind(doc, Parent(doc, n))

\* A node and the nodes it is in, innermost first.
RECURSIVE Up(_, _)
Up(doc, n) == IF n = 0 THEN <<>> ELSE <<n>> \o Up(doc, Parent(doc, n))

\* The nodes around a token, innermost first.
Around(doc, i) == Up(doc, doc.at[i])

\* A node and all below it.
Descendants(doc, n) ==
    SelectSeq([m \in DOMAIN doc.nodes |-> m],
              LAMBDA m : m >= n /\ \A j \in n + 1 .. m :
                                       doc.nodes[j].depth > doc.nodes[n].depth)
Children(doc, n) == SelectSeq([m \in DOMAIN doc.nodes |-> m],
                              LAMBDA m : Parent(doc, m) = n)
ChildrenOf(doc, n, kind) ==
    SelectSeq([m \in DOMAIN doc.nodes |-> m],
              LAMBDA m : Parent(doc, m) = n /\ Kind(doc, m) = kind)

NodesOf(doc, kinds) ==
    SelectSeq([i \in 1 .. Len(doc.nodes) |-> i], LAMBDA n : Kind(doc, n) \in kinds)

\* The positions of the tokens that are directly in a node.
Tokens(doc, n) ==
    SelectSeq([i \in 1 .. doc.nodes[n].to - doc.nodes[n].from |->
                  doc.nodes[n].from + i - 1],
              LAMBDA i : doc.at[i] = n)
TokensOf(doc, n, kind) ==
    SelectSeq(Tokens(doc, n), LAMBDA i : doc.text[i].kind = kind)

-----------------------------------------------------------------------------
(* Names.  A range of <<>> is None; the name is the text of its last token. *)

NameIn(doc, range) == doc.text[range[2] - 1].text

Single(positions, k) ==
    IF Len(positions) < k THEN <<>> ELSE <<positions[k], positions[k] + 1>>

\* nth_ident_token, from 1
NthIdent(doc, n, k) == Single(TokensOf(doc, n, "ident"), k)

\* `$name`, `%name`: the first word after a sigil, and that sigil.
SigilIdent(doc, n, sigil) ==
    LET before(i) == {j \in Range(TokensOf(doc, n, sigil)) : j < i}
        names == SelectSeq(TokensOf(doc, n, "ident"), LAMBDA i : before(i) # {})
    IN  IF names = <<>> THEN <<>> ELSE <<Max(before(names[1])), names[1] + 1>>

\* name_only_range
NameOnly(kind, range) ==
    IF kind \in {"variable", "placeholder"} /\ range[1] + 1 < range[2]
      THEN <<range[1] + 1, range[2]>> ELSE range

-----------------------------------------------------------------------------
(* collect_symbols                                                          *)

\* The parameters as they are written, parentheses included; <<>> for None.
ParamText(doc, n) ==
    LET lists == ChildrenOf(doc, n, "PARAM_LIST")
    IN  IF lists = <<>> THEN <<>>
        ELSE SubSeq(doc.text, doc.nodes[lists[1]].from, doc.nodes[lists[1]].to - 1)

SymbolAt(doc, n, kind, selection) ==
    IF selection = <<>> THEN <<>>
    ELSE <<[name |-> NameIn(doc, selection), kind |-> kind,
            range |-> Extent(doc, n), selection |-> selection,
            params |-> ParamText(doc, n)]>>

DefinitionAt(doc, n) ==
    LET k == Kind(doc, n)
    IN  CASE k = "VARIABLE_DECL" -> SymbolAt(doc, n, "variable", SigilIdent(doc, n, "$"))
          [] k = "FUNCTION_RULE" -> SymbolAt(doc, n, "function", NthIdent(doc, n, 2))
          [] k = "MIXIN_RULE" -> SymbolAt(doc, n, "mixin", NthIdent(doc, n, 2))
          [] k = "SIMPLE_SELECTOR" ->
               SymbolAt(doc, n, "placeholder", SigilIdent(doc, n, "%"))

ReferenceAt(doc, n) ==
    LET k == Kind(doc, n)
    IN  CASE k = "VARIABLE_REF" /\ ParentKind(doc, n) = "VARIABLE_DECL" -> <<>>
          [] k = "VARIABLE_REF" /\ ParentKind(doc, n) # "VARIABLE_DECL" ->
               SymbolAt(doc, n, "variable", SigilIdent(doc, n, "$"))
          [] k = "FUNCTION_CALL" -> SymbolAt(doc, n, "function", NthIdent(doc, n, 1))
          [] k = "INCLUDE_RULE" -> SymbolAt(doc, n, "mixin", NthIdent(doc, n, 2))
          [] k = "EXTEND_RULE" ->
               SymbolAt(doc, n, "placeholder", SigilIdent(doc, n, "%"))

DefinitionKinds == {"VARIABLE_DECL", "FUNCTION_RULE", "MIXIN_RULE", "SIMPLE_SELECTOR"}
ReferenceKinds == {"VARIABLE_REF", "FUNCTION_CALL", "INCLUDE_RULE", "EXTEND_RULE"}

\* In preorder, which is the order of their ranges' starts.
Definitions(doc) ==
    FoldLeft(LAMBDA s, n : s \o DefinitionAt(doc, n), <<>>, NodesOf(doc, DefinitionKinds))
References(doc) ==
    FoldLeft(LAMBDA s, n : s \o ReferenceAt(doc, n), <<>>, NodesOf(doc, ReferenceKinds))

-----------------------------------------------------------------------------
(* Imports: the node of the rule, and what it names.                        *)

\* The first string in the arguments of meta.load-css(...).
LoadCss(doc, n) ==
    LET called == ChildrenOf(doc, n, "FUNCTION_CALL")
        loads == \A k \in DOMAIN called :
                    LET name == NthIdent(doc, called[k], 1)
                    IN  name # <<>> /\ NameIn(doc, name) = "load-css"
        namespace == NthIdent(doc, n, 1)
        strings == {i \in doc.nodes[n].from .. doc.nodes[n].to - 1 :
                       doc.text[i].kind = "string"}
    IN  IF namespace = <<>> \/ called = <<>> \/ strings = {} THEN <<>>
        ELSE IF NameIn(doc, namespace) # "meta" \/ ~loads THEN <<>>
        ELSE <<[kind |-> "load-css", path |-> doc.text[Min(strings)].text, node |-> n]>>

ImportAt(doc, n) ==
    LET strings == TokensOf(doc, n, "string")
        import(kind, i) == [kind |-> kind, path |-> doc.text[i].text, node |-> n]
        first(kind) == IF strings = <<>> THEN <<>> ELSE <<import(kind, strings[1])>>
        k == Kind(doc, n)
    IN  CASE k = "USE_RULE" -> first("use")
          [] k = "FORWARD_RULE" -> first("forward")
          [] k = "IMPORT_RULE" -> [j \in DOMAIN strings |-> import("import", strings[j])]
          [] k = "NAMESPACE_REF" -> LoadCss(doc, n)

\* collect_imports
Imports(doc) ==
    FoldLeft(LAMBDA s, n : s \o ImportAt(doc, n), <<>>,
             NodesOf(doc, {"USE_RULE", "FORWARD_RULE", "IMPORT_RULE", "NAMESPACE_REF"}))

-----------------------------------------------------------------------------
(* What is under the cursor.  A reference without a namespace has "".       *)

Reference(doc, namespace, kind, range) ==
    IF range = <<>> THEN <<>>
    ELSE <<[namespace |-> namespace, name |-> NameIn(doc, range), kind |-> kind,
            range |-> range]>>

\* ns.$name, ns.name(...) or, after @include, ns.name
NamespaceRef(doc, n) ==
    LET words == TokensOf(doc, n, "ident")
        called == ChildrenOf(doc, n, "FUNCTION_CALL")
        dots == TokensOf(doc, n, ".")
        member == SelectSeq(words, LAMBDA i : dots # <<>> /\ i > dots[1])
        reference(kind, range) == Reference(doc, doc.text[words[1]].text, kind, range)
    IN  IF words = <<>> THEN <<>>
        ELSE IF TokensOf(doc, n, "$") # <<>>
          THEN reference("variable", SigilIdent(doc, n, "$"))
        ELSE IF called # <<>> THEN reference("function", NthIdent(doc, called[1], 1))
        ELSE reference(IF ParentKind(doc, n) = "INCLUDE_RULE" THEN "mixin" ELSE "function",
                       Single(member, 1))

IsMember(doc, n) ==
    Kind(doc, n) = "FUNCTION_CALL" /\ ParentKind(doc, n) = "NAMESPACE_REF"

ReferenceIn(doc, n) ==
    LET k == Kind(doc, n)
    IN  CASE k = "NAMESPACE_REF" -> NamespaceRef(doc, n)
          [] k = "VARIABLE_REF" ->
               IF ParentKind(doc, n) = "VARIABLE_DECL" THEN <<>>
               ELSE Reference(doc, "", "variable", SigilIdent(doc, n, "$"))
          [] k = "FUNCTION_CALL" -> Reference(doc, "", "function", NthIdent(doc, n, 1))
          [] k = "INCLUDE_RULE" ->
               IF ChildrenOf(doc, n, "NAMESPACE_REF") # <<>> THEN <<>>
               ELSE Reference(doc, "", "mixin", NthIdent(doc, n, 2))
          [] k = "EXTEND_RULE" ->
               Reference(doc, "", "placeholder", SigilIdent(doc, n, "%"))

\* find_reference_at_offset: what the innermost node that may be one says.
ReferenceAtCursor(doc, i) ==
    LET around == SelectSeq(Around(doc, i),
                    LAMBDA n : /\ Kind(doc, n) \in ReferenceKinds \cup {"NAMESPACE_REF"}
                               /\ ~IsMember(doc, n))
    IN  IF around = <<>> THEN <<>> ELSE ReferenceIn(doc, around[1])

\* find_definition_at_offset
DefinitionAtCursor(definitions, i) ==
    SelectSeq(definitions, LAMBDA d : d.selection[1] <= i /\ i < d.selection[2])

\* namespace_of_ref: of the reference that begins at a token; "" for None.
NamespaceOf(doc, i) ==
    LET stop == {"DECLARATION", "RULE_SET", "BLOCK", "SOURCE_FILE", "ARG_LIST"}
        around == SelectSeq(Around(doc, i),
                      LAMBDA n : Kind(doc, n) \in stop \cup {"NAMESPACE_REF"})
        words == IF around = <<>> \/ Kind(doc, around[1]) # "NAMESPACE_REF" THEN <<>>
                 ELSE TokensOf(doc, around[1], "ident")
    IN  IF words = <<>> THEN "" ELSE doc.text[words[1]].text
=============================================================================
