----------------------------- MODULE Semantics -----------------------------
(***************************************************************************)
(* The semantic diagnostics of a file (sass-lsp/src/diagnostics.rs): calls *)
(* with too few or too many arguments, and references to nothing.          *)
(*                                                                         *)
(* A string is one token, so a comma or a parenthesis in a string counts   *)
(* for nothing here; parse_param_info skips strings, parse_param_names of  *)
(* the inlay hints and count_active_parameter do not.                      *)
(***************************************************************************)
EXTENDS ModuleScope

CONSTANT CssGlobalFunctions    \* CSS_GLOBAL_FUNCTIONS

-----------------------------------------------------------------------------
(* Parameters and arguments.                                                *)

\* The text of a parameter list begins with the white space before it, and a
\* parenthesis behind white space is not taken off.
Inner(params) ==
    IF params[1].ws \/ Last(params).kind # ")" THEN params
    ELSE SubSeq(params, 2, Len(params) - 1)

Segment == [depth |-> 0, segments |-> << <<>> >>]

Extended(segments, token) ==
    Append(Front(segments), Append(Last(segments), token))

\* A comma at depth 0 ends a segment.
NextSegment(acc, token) ==
    IF token.kind = "," /\ acc.depth = 0
      THEN [acc EXCEPT !.segments = Append(@, <<>>)]
      ELSE [depth |-> Max({0, acc.depth + (IF token.kind \in {"(", "["} THEN 1
                                           ELSE IF token.kind \in {")", "]"} THEN -1
                                           ELSE 0)}),
            segments |-> Extended(acc.segments, token)]

\* The parameters of a list, each a sequence of tokens.
Parameters(params) ==
    SelectSeq(FoldLeft(NextSegment, Segment, Inner(params)).segments,
              LAMBDA s : s # <<>>)

IsRest(param) == Last(param).kind = "..."
HasDefault(param) == \E k \in DOMAIN param : param[k].kind = ":"

\* Mutant: a parameter with a default value is required like any other.
RequiredAll(param) == ~IsRest(param)

\* classify_param
IsRequired(param) == ~IsRest(param) /\ ~HasDefault(param)

\* parse_param_info
ParamInfo(params) ==
    [required |-> Len(SelectSeq(params, LAMBDA p : IsRequired(p))),
     total |-> Len(params),
     rest |-> \E k \in DOMAIN params : IsRest(params[k])]

CallKind(kind) == IF kind = "function" THEN "FUNCTION_CALL" ELSE "INCLUDE_RULE"

\* The node of a call that a reference begins, and its arguments.
CallAround(doc, i, kind) ==
    SelectSeq(Around(doc, i), LAMBDA n : Kind(doc, n) = CallKind(kind))
ArgListOf(doc, calls) ==
    IF calls = <<>> THEN <<>> ELSE ChildrenOf(doc, calls[1], "ARG_LIST")
Args(doc, n) == ChildrenOf(doc, n, "ARG")

Misfits(info, count) == count < info.required \/ (~info.rest /\ count > info.total)

Meant(project, f, r) ==
    ResolveReference(project, f, NamespaceOf(project[f].doc, r.range[1]), r.name, r.kind)

\* Is the number of arguments of a reference wrong for what it refers to?
MiscountIn(doc, lists, found) ==
    /\ found # <<>> /\ lists # <<>>
    /\ found[1].symbol.params # <<>>
    /\ Misfits(ParamInfo(Parameters(found[1].symbol.params)), Len(Args(doc, lists[1])))

\* check_arg_count
Miscounts(project, f) ==
    {[code |-> "wrong-arg-count", name |-> r.name, range |-> r.selection] :
        r \in {r \in Range(project[f].references) :
            /\ r.kind \in {"function", "mixin"}
            /\ MiscountIn(project[f].doc,
                          ArgListOf(project[f].doc,
                                    CallAround(project[f].doc, r.range[1], r.kind)),
                          Meant(project, f, r))}}

-----------------------------------------------------------------------------
(* Undefined references.                                                    *)

Tight(doc, i) == ~doc.text[i].ws

\* has_param_named: of the first parameter list.
HasParamNamed(doc, n, name) ==
    LET lists == ChildrenOf(doc, n, "PARAM_LIST")
    IN  /\ lists # <<>>
        /\ \E p \in Range(ChildrenOf(doc, lists[1], "PARAM")) :
              \E i \in Range(TokensOf(doc, p, "ident")) : doc.text[i].text = name

\* has_loop_var_named: a word that directly follows a `$` of the rule itself.
HasLoopVarNamed(doc, n, name) ==
    \E i \in Range(TokensOf(doc, n, "ident")) :
        /\ doc.text[i].text = name /\ Tight(doc, i)
        /\ i - 1 \in Range(TokensOf(doc, n, "$"))

\* A declaration whose first token is a `$` without space before it.
Declares(doc, n, name) ==
    LET tokens == Tokens(doc, n)
    IN  /\ Len(tokens) > 1
        /\ doc.text[tokens[1]].kind = "$" /\ Tight(doc, tokens[1])
        /\ doc.text[tokens[2]].kind = "ident" /\ Tight(doc, tokens[2])
        /\ doc.text[tokens[2]].text = name

\* has_local_var_before
HasLocalVarBefore(doc, n, before, name) ==
    \E d \in Range(ChildrenOf(doc, n, "VARIABLE_DECL")) :
        doc.nodes[d].from < before /\ Declares(doc, d, name)

\* is_locally_defined
IsLocallyDefined(doc, i, name) ==
    \E n \in Range(Around(doc, i)) :
        \/ Kind(doc, n) \in {"FUNCTION_RULE", "MIXIN_RULE"} /\ HasParamNamed(doc, n, name)
        \/ Kind(doc, n) \in {"EACH_RULE", "FOR_RULE"} /\ HasLoopVarNamed(doc, n, name)
        \/ HasLocalVarBefore(doc, n, i, name)

\* check_undefined, of one reference
IsUndefined(project, f, r) ==
    /\ r.kind # "placeholder"
    /\ ~(r.kind = "function" /\ r.name \in CssGlobalFunctions)
    /\ ~(r.kind = "variable" /\ IsLocallyDefined(project[f].doc, r.range[1], r.name))
    /\ Meant(project, f, r) = <<>>

Undefined(project, f) ==
    IF project[f].doc.errors # <<>> \/ project[f].unsure THEN {}
    ELSE {[code |-> "undefined-" \o r.kind, name |-> r.name, range |-> r.selection] :
             r \in {r \in Range(project[f].references) : IsUndefined(project, f, r)}}

\* check_file
Diagnostics(project, f) == Miscounts(project, f) \cup Undefined(project, f)
=============================================================================
